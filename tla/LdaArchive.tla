----------------------------- MODULE LdaArchive -----------------------------
(***************************************************************************)
(* The archived qmail delivery agent src/archives/node/smtp/lda.js, over  *)
(* the state of module MailStorage: one process per delivery, the parser's *)
(* "end" handler computing the mail's fields and key, then the chain       *)
(* saveBucket -> save -> search.add.  Unlike MailStorage.store, no        *)
(* callback looks at its error and nothing throws, so every delivery ends *)
(* with status 0 and qmail never retries.                                 *)
(*                                                                         *)
(* The recipient is the RECIPIENT environment variable, else the To       *)
(* header; with neither, mail.to is undefined and both writes go to the    *)
(* bucket "undefined.inbox", which the model records as misfiled.  The    *)
(* key is sha256 of msgId, modelled by the injective Digest of MailStorage *)
(* (only lda.js writes here).  The attachment projection of lines 89-100  *)
(* changes the saved mail object only, which the records abstract.        *)
(***************************************************************************)
EXTENDS MailStorage

CONSTANT
    Recipient   \* Recipient \in [Files -> BOOLEAN]: Recipient[f] is TRUE when
                \* RECIPIENT or the To header of mail f is set

VARIABLES
    misfiled,   \* the deliveries whose writes went to "undefined.inbox"
    saveFailed  \* auxiliary: the deliveries whose save callback got an err,
                \* which line 108 takes as argument and never reads

ldaVars == <<msVars, misfiled, saveFailed>>

LInit == Init /\ misfiled = {} /\ saveFailed = {}

(* The parser's "end" handler up to riak.saveBucket, lines 34-106: msgId  *)
(* is the stripped Message-Id header, else a fresh uuid.v1().  There is   *)
(* no From check (mail.from is the SENDER variable).                      *)
LDeliver(f) ==
    /\ stage[f] = "pending"
    /\ \/ /\ Mail[f].msgIdHdr # <<>>
          /\ msgId' = [msgId EXCEPT ![f] = StripId(Mail[f].msgIdHdr)]
          /\ UNCHANGED issued
       \/ /\ Mail[f].msgIdHdr = <<>>
          /\ Uuids \ issued # {}
          /\ LET u == CHOOSE u \in Uuids \ issued : TRUE
             IN  /\ msgId' = [msgId EXCEPT ![f] = u]
                 /\ issued' = issued \cup {u}
    /\ stage' = [stage EXCEPT ![f] = "bucket"]
    /\ UNCHANGED <<records, index, misfiled, saveFailed>>

(* The saveBucket callback, lines 106-108: whatever the outcome, riak.save *)
(* is issued.                                                             *)
LBucketSaved(f) ==
    /\ stage[f] = "bucket"
    /\ stage' = [stage EXCEPT ![f] = "record"]
    /\ UNCHANGED <<msgId, issued, records, index, misfiled, saveFailed>>

(* Write v under key k of the mail's bucket: the inbox of its recipient,  *)
(* or "undefined.inbox".                                                  *)
WriteTo(f, store, v) ==
    IF Recipient[f] THEN [store EXCEPT ![KeyOf(f)] = v] ELSE store

(* Whether the write of a call is applied: always when the call cannot    *)
(* fail, and either way when it can (a failed or timed-out request).      *)
Applied(call) == IF call \in Faults THEN BOOLEAN ELSE {TRUE}

(* Whether the callback of a call receives an error: never when the call  *)
(* cannot fail.                                                           *)
Failed(call) == IF call \in Faults THEN BOOLEAN ELSE {FALSE}

(* The save callback, lines 108-110: search.add is issued whatever err    *)
(* says.  A save that reports no error was applied; a failed one may or   *)
(* may not have been.                                                     *)
LRecordSaved(f) ==
    /\ stage[f] = "record"
    /\ \E err \in Failed("record") :
          /\ \E applied \in IF err THEN BOOLEAN ELSE {TRUE} :
                records' = IF applied THEN WriteTo(f, records, RecordOf(f))
                                      ELSE records
          /\ saveFailed' = IF err THEN saveFailed \cup {f} ELSE saveFailed
    /\ misfiled' = IF Recipient[f] THEN misfiled ELSE misfiled \cup {f}
    /\ stage' = [stage EXCEPT ![f] = "index"]
    /\ UNCHANGED <<msgId, issued, index>>

(* The document of line 110: the raw text, and the subject header, which   *)
(* has no default here and is left out of the JSON when absent.           *)
LIndexDocOf(f) == [id |-> KeyOf(f), file |-> f, text |-> Mail[f].indexable,
                   subject |-> Mail[f].subject # "absent"]

(* The search.add callback, lines 110-112: it logs "Mail stored and       *)
(* indexed" whatever happened, and the process ends with status 0.        *)
LIndexed(f) ==
    /\ stage[f] = "index"
    /\ \E applied \in Applied("index") :
          index' = IF applied THEN WriteTo(f, index, LIndexDocOf(f)) ELSE index
    /\ stage' = [stage EXCEPT ![f] = "done"]
    /\ UNCHANGED <<msgId, issued, records, misfiled, saveFailed>>

LNext ==
    \E f \in Files : LDeliver(f) \/ LBucketSaved(f) \/ LRecordSaved(f) \/ LIndexed(f)

LSpec == LInit /\ [][LNext]_ldaVars

(* lda.js loses a mail only through an error of its riak.save: a delivery *)
(* with a recipient that ended (exit 0) and whose key holds no record got *)
(* an err in the save callback of line 108, which the code ignores.       *)
LossNeedsSaveError ==
    \A f \in Files :
        stage[f] = "done" /\ Recipient[f] /\ records[KeyOf(f)] = Nil
            => f \in saveFailed

(* lda.js orphans an index document only through an error of riak.save:  *)
(* an index document whose key holds no record was written by the         *)
(* search.add of a delivery whose save callback got an err (lines 108-110). *)
OrphanNeedsSaveError ==
    \A k \in Keys :
        index[k] # Nil /\ records[k] = Nil => index[k].file \in saveFailed
=============================================================================
