---------------------------- MODULE MailStorage ----------------------------
(***************************************************************************)
(* MailStorage.prototype.store (src/node/bin/mailstorage.js) and the Riak  *)
(* bucket it writes, driven by qmail deliveries through the local delivery *)
(* agent src/node/tools/addMail.js.                                         *)
(*                                                                         *)
(* Each delivery f runs in its own addMail.js process.  When the MIME      *)
(* parser emits "end", store() runs synchronously up to riak.saveBucket;   *)
(* the rest of store() is three callbacks: saveBucket -> save (the record) *)
(* -> search.add (the index document).  Deliveries of different processes  *)
(* interleave freely at these callbacks; Riak is the only shared state.    *)
(*                                                                         *)
(* A thrown error (no From address, saveBucket or save error) ends the     *)
(* process with a non-zero status, which qmail treats as a soft failure    *)
(* and retries; an index error ends it with process.exit(0), which qmail   *)
(* takes for a successful delivery.                                        *)
(*                                                                         *)
(* Data is abstracted to what the properties tell apart: a mail is a       *)
(* record of the attributes that steer store(), a Message-Id header is a   *)
(* short sequence of characters, a record or an index document keeps the   *)
(* delivery that wrote it and the fields the properties compare.           *)
(***************************************************************************)
EXTENDS Naturals, Sequences, FiniteSets

CONSTANTS
    Files,      \* the deliveries (raw messages handed to addMail.js)
    Chars,      \* the characters Message-Id headers are made of
    Uuids,      \* the identifiers uuid.v1() can return (bounds retries)
    Mail,       \* Mail[f]: what the parser yields for delivery f
    Faults,     \* the calls that may fail: "bucket", "record", "index" (Riak),
                \* "readdir" (the corpus directory, module StoreCorpus),
                \* "unindex", "remove" (deletions, module DeleteBucket)
    Nil         \* no record / no index document / no identifier yet

SubjectKinds == {"absent", "blank", "text"}

(* What the parser's mail object contributes to store().  from: the From  *)
(* header parsed into at least one address; msgIdHdr: the Message-Id      *)
(* header, <<>> when absent or empty (both falsy at line 74); subject:    *)
(* absent, only white space, or text; indexable: whether the text to      *)
(* index (plain body, else the HTML body's text) survives sanitising and  *)
(* tokenising (lines 107-117, 153-196; see module IndexText).             *)
MailRec == [from : BOOLEAN, msgIdHdr : Seq(Chars),
            subject : SubjectKinds, indexable : BOOLEAN]

ASSUME MailAssumption == Mail \in [Files -> MailRec]
ASSUME FaultsAssumption ==
    Faults \subseteq {"readdir", "bucket", "record", "index", "unindex", "remove"}
ASSUME UuidAssumption == IsFiniteSet(Uuids)

VARIABLES
    stage,      \* stage[f]: where delivery f is in store()
    msgId,      \* msgId[f]: mail.msgId once store() has computed it
    issued,     \* the identifiers uuid.v1() has returned so far
    records,    \* records[k]: the mail object saved under key k, or Nil
    index       \* index[k]: the search document added under id k, or Nil

msVars == <<stage, msgId, issued, records, index>>

(* Stages.  pending: not (or no longer) being delivered; bucket, record,  *)
(* index: waiting for the saveBucket, save or search.add callback; done:  *)
(* store() finished; crashed: the process threw (qmail will retry);       *)
(* exited: process.exit(0) after an index error (qmail sees success).     *)
Stages == {"pending", "bucket", "record", "index", "done", "crashed", "exited"}
InFlight == {"bucket", "record", "index"}

(* mail.msgId.substr(1, mail.msgId.length - 2), line 75: drops the first  *)
(* and the last character, whatever they are.                             *)
StripId(h) == SubSeq(h, 2, Len(h) - 1)

(* crypto.createHash('sha1').update(mail.msgId).digest('hex'), line 134: *)
(* an injective digest, tagged so that a key is not an identifier.        *)
Digest(id) == <<"sha1", id>>

Ids == {StripId(Mail[f].msgIdHdr) : f \in Files} \cup Uuids
Keys == {Digest(i) : i \in Ids}

(* The record saved by riak.save, line 140, reduced to the delivery it     *)
(* came from and its msgId field.                                         *)
RecordOf(f) == [file |-> f, msgId |-> msgId[f]]
RecordVals == [file : Files, msgId : Ids]

(* The search document built at lines 144-196: text is present when the  *)
(* tokenised text survives, subject when the trimmed subject is not       *)
(* empty; an absent subject became "no_subject" at line 61.               *)
IndexDocOf(f) == [id |-> Digest(msgId[f]), file |-> f,
                  text |-> Mail[f].indexable,
                  subject |-> Mail[f].subject # "blank"]
IndexVals == [id : Keys, file : Files, text : BOOLEAN, subject : BOOLEAN]

KeyOf(f) == Digest(msgId[f])

ASSUME NilAssumption == Nil \notin Ids \cup RecordVals \cup IndexVals

-----------------------------------------------------------------------------
Init ==
    /\ stage = [f \in Files |-> "pending"]
    /\ msgId = [f \in Files |-> Nil]
    /\ issued = {}
    /\ records = [k \in Keys |-> Nil]
    /\ index = [k \in Keys |-> Nil]

(* The parser's "end" event (addMail.js 28-32) calls store() on a mail  *)
(* without a From header: mail.from[0] throws a TypeError at line 48.     *)
DeliverNoFrom(f) ==
    /\ stage[f] = "pending"
    /\ ~Mail[f].from
    /\ stage' = [stage EXCEPT ![f] = "crashed"]
    /\ UNCHANGED <<msgId, issued, records, index>>

(* Mutant: msgId keeps the header's angle brackets (line 75 left out). *)
DeliverWithIdUnstripped(f) ==
    /\ stage[f] = "pending"
    /\ Mail[f].from
    /\ Mail[f].msgIdHdr # <<>>
    /\ msgId' = [msgId EXCEPT ![f] = Mail[f].msgIdHdr]
    /\ stage' = [stage EXCEPT ![f] = "bucket"]
    /\ UNCHANGED <<issued, records, index>>

(* store() up to riak.saveBucket (lines 43-138) for a mail whose          *)
(* Message-Id header is present: msgId is the header with its first and   *)
(* last characters dropped.                                               *)
DeliverWithId(f) ==
    /\ stage[f] = "pending"
    /\ Mail[f].from
    /\ Mail[f].msgIdHdr # <<>>
    /\ msgId' = [msgId EXCEPT ![f] = StripId(Mail[f].msgIdHdr)]
    /\ stage' = [stage EXCEPT ![f] = "bucket"]
    /\ UNCHANGED <<issued, records, index>>

(* The same for a mail without a Message-Id: msgId = uuid.v1(), line 77,  *)
(* an identifier never returned before.                                   *)
DeliverWithUuid(f) ==
    /\ stage[f] = "pending"
    /\ Mail[f].from
    /\ Mail[f].msgIdHdr = <<>>
    /\ Uuids \ issued # {}
    /\ LET u == CHOOSE u \in Uuids \ issued : TRUE
       IN  /\ msgId' = [msgId EXCEPT ![f] = u]
           /\ issued' = issued \cup {u}
    /\ stage' = [stage EXCEPT ![f] = "bucket"]
    /\ UNCHANGED <<records, index>>

(* The saveBucket callback, lines 138-140: on error it throws, otherwise   *)
(* it issues riak.save.                                                   *)
BucketSaved(f) ==
    /\ stage[f] = "bucket"
    /\ \/ stage' = [stage EXCEPT ![f] = "record"]
       \/ /\ "bucket" \in Faults
          /\ stage' = [stage EXCEPT ![f] = "crashed"]
    /\ UNCHANGED <<msgId, issued, records, index>>

(* Mutant: the save callback ignores its error and goes on to search.add, *)
(* as src/archives/node/smtp/lda.js does at lines 108-110.                *)
RecordSavedIgnoringError(f) ==
    /\ stage[f] = "record"
    /\ \E applied \in BOOLEAN :
          records' = IF applied
                     THEN [records EXCEPT ![KeyOf(f)] = RecordOf(f)]
                     ELSE records
    /\ stage' = [stage EXCEPT ![f] = "index"]
    /\ UNCHANGED <<msgId, issued, index>>

(* The save callback, lines 140-199: the record is written under          *)
(* KeyOf(f); on error the callback throws, and the write may or may not   *)
(* have been applied (a timed-out request); otherwise it builds the index *)
(* document and issues riak.search.add.                                   *)
RecordSaved(f) ==
    /\ stage[f] = "record"
    /\ \/ /\ records' = [records EXCEPT ![KeyOf(f)] = RecordOf(f)]
          /\ stage' = [stage EXCEPT ![f] = "index"]
       \/ /\ "record" \in Faults
          /\ \E applied \in BOOLEAN :
                records' = IF applied
                           THEN [records EXCEPT ![KeyOf(f)] = RecordOf(f)]
                           ELSE records
          /\ stage' = [stage EXCEPT ![f] = "crashed"]
    /\ UNCHANGED <<msgId, issued, index>>

(* The search.add callback, lines 199-216: the document is written under  *)
(* KeyOf(f); on error the process logs and calls process.exit(0).         *)
Indexed(f) ==
    /\ stage[f] = "index"
    /\ \/ /\ index' = [index EXCEPT ![KeyOf(f)] = IndexDocOf(f)]
          /\ stage' = [stage EXCEPT ![f] = "done"]
       \/ /\ "index" \in Faults
          /\ \E applied \in BOOLEAN :
                index' = IF applied
                         THEN [index EXCEPT ![KeyOf(f)] = IndexDocOf(f)]
                         ELSE index
          /\ stage' = [stage EXCEPT ![f] = "exited"]
    /\ UNCHANGED <<msgId, issued, records>>

(* qmail retries a delivery whose process ended with a non-zero status;   *)
(* the new process parses the same raw message again.                     *)
Retry(f) ==
    /\ stage[f] = "crashed"
    /\ stage' = [stage EXCEPT ![f] = "pending"]
    /\ msgId' = [msgId EXCEPT ![f] = Nil]
    /\ UNCHANGED <<issued, records, index>>

Deliver(f) == DeliverNoFrom(f) \/ DeliverWithId(f) \/ DeliverWithUuid(f)

(* One step of one delivery: the handlers that store() is made of.        *)
StoreStep(f) == Deliver(f) \/ BucketSaved(f) \/ RecordSaved(f) \/ Indexed(f)

Next == \E f \in Files : StoreStep(f) \/ Retry(f)

Spec == Init /\ [][Next]_msVars

(* The refinement mapping to module StoreContract: records and index are  *)
(* Riak's; a delivery is acknowledged, under its key, once its process    *)
(* has reached the end of store() or process.exit(0).                     *)
Acked == [f \in Files |-> IF stage[f] \in {"done", "exited"} THEN KeyOf(f) ELSE Nil]

Contract == INSTANCE StoreContract WITH delivered <- Acked

-----------------------------------------------------------------------------
TypeOK ==
    /\ stage \in [Files -> Stages]
    /\ msgId \in [Files -> Ids \cup {Nil}]
    /\ issued \subseteq Uuids
    /\ records \in [Keys -> RecordVals \cup {Nil}]
    /\ index \in [Keys -> IndexVals \cup {Nil}]

(* A delivery that qmail will consider successful (the process reached    *)
(* the end of store() or exited with status 0 after an index error) has   *)
(* its mail saved in Riak under its key: qmail drops the message once the *)
(* process exits with 0, so a record that was never written means a lost  *)
(* mail.  The code guarantees it by throwing in the save callback before  *)
(* search.add is issued.                                                  *)
NoMailLost ==
    \A f \in Files :
        stage[f] \in {"done", "exited"} => records[KeyOf(f)] # Nil

(* The search index never holds a document whose key has no saved mail    *)
(* (spec 4.5 step 3): search.add is only issued from the save callback    *)
(* after the record write succeeded, by any delivery of that key.         *)
IndexImpliesRecord ==
    \A k \in Keys : index[k] # Nil => records[k] # Nil

(* store() with its callbacks, failures and retries, run by concurrent     *)
(* deliveries, implements the coordinator's contract: every save is a Put,*)
(* and every delivery qmail sees succeed is acknowledged, with or without *)
(* its index document, only once its key holds a record.                 *)
ImplementsContract == Contract!Spec

(* Spec 3 and 4.5: the index document is derived from the stored mail and *)
(* can be rebuilt from it.  Once no delivery of key k is between its save *)
(* and its search.add, the document indexed under k says what the mail    *)
(* saved under k says.  Two deliveries of one Message-Id (the same list   *)
(* message received twice, tagged differently) run their two writes       *)
(* without any ordering between the deliveries.                           *)
IndexMatchesRecord ==
    \A k \in Keys :
        /\ index[k] # Nil
        /\ records[k] # Nil
        /\ ~\E f \in Files : stage[f] = "index" /\ KeyOf(f) = k
        => /\ index[k].text = Mail[records[k].file].indexable
           /\ index[k].subject = (Mail[records[k].file].subject # "blank")

(* Spec 7: a delivery whose record write failed may be retried, and the   *)
(* retry is idempotent, so a delivery's mail is stored under one key.     *)
(* A mail without Message-Id gets a new uuid.v1() on every attempt, and a *)
(* save that timed out after Riak applied it leaves the first copy.       *)
OneKeyPerDelivery ==
    \A k1, k2 \in Keys :
        /\ records[k1] # Nil
        /\ records[k2] # Nil
        /\ records[k1].file = records[k2].file
        => k1 = k2

(* Spec 4.1: a Message-Id that is empty once its delimiters are stripped  *)
(* fails with MalformedIdentifier, so no mail is saved with an empty      *)
(* msgId; line 75 strips two characters from any header it is given.     *)
NoEmptyMsgId ==
    \A k \in Keys : records[k] # Nil => records[k].msgId # <<>>

=============================================================================
