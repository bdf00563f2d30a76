-------------------------- MODULE LdaArchiveProofs --------------------------
(***************************************************************************)
(* Proofs about the archived delivery agent lda.js (module LdaArchive).   *)
(* lda.js ignores every callback error, and the run lda_lost shows that a *)
(* failed riak.save loses the mail.  The theorems below show that this is *)
(* the only way, whatever saveBucket, riak.save and search.add fail on    *)
(* and however the deliveries interleave: a mail with a recipient is lost, *)
(* and an index document left without its record, only by a delivery     *)
(* whose save callback received an error (the auxiliary saveFailed).  The *)
(* invariant needs two facts: a delivery past a save that reported no     *)
(* error finds its record, and every index document was written by a      *)
(* delivery that has ended, under its own key.                           *)
(***************************************************************************)
EXTENDS LdaArchive, MailStorageProofs

(* The type of the Recipient constant, as its declaration states. *)
RecipientType == Recipient \in [Files -> BOOLEAN]

LTypeInv == TypeInv /\ misfiled \subseteq Files /\ saveFailed \subseteq Files

(* A delivery with a recipient that is past a save callback which got no  *)
(* error finds its record in the recipient's inbox.                       *)
LRecordWritten ==
    \A f \in Files :
        stage[f] \in {"index", "done", "exited"} /\ Recipient[f]
        /\ f \notin saveFailed => records[KeyOf(f)] # Nil

(* An index document was written by the search.add of a delivery with a   *)
(* recipient that has ended, under that delivery's key.                   *)
IndexOwned ==
    \A k \in Keys :
        index[k] # Nil =>
            /\ stage[index[k].file] = "done"
            /\ Recipient[index[k].file]
            /\ KeyOf(index[k].file) = k

LInv == LTypeInv /\ LRecordWritten /\ IndexOwned

-----------------------------------------------------------------------------
LEMMA InitLInv == LInit => LInv
BY InitTypeInv DEF LInit, Init, LInv, LTypeInv, LRecordWritten, IndexOwned

(* A step of delivery f leaves the others' stages and identifiers alone. *)
LEMMA LOthersUnchanged ==
    ASSUME TypeInv, NEW f \in Files,
           LDeliver(f) \/ LBucketSaved(f) \/ LRecordSaved(f) \/ LIndexed(f),
           NEW g \in Files \ {f}
    PROVE  stage'[g] = stage[g] /\ msgId'[g] = msgId[g]
BY DEF LDeliver, LBucketSaved, LRecordSaved, LIndexed, TypeInv, TypeOK

(* A delivery that has ended stays ended, under the same identifier. *)
LEMMA LDoneStable ==
    ASSUME TypeInv, [LNext]_ldaVars, NEW g \in Files, stage[g] = "done"
    PROVE  stage'[g] = "done" /\ msgId'[g] = msgId[g]
<1>1. CASE UNCHANGED ldaVars
  BY <1>1 DEF ldaVars, msVars
<1>2. ASSUME NEW f \in Files,
             LDeliver(f) \/ LBucketSaved(f) \/ LRecordSaved(f) \/ LIndexed(f)
      PROVE  stage'[g] = "done" /\ msgId'[g] = msgId[g]
  <2>1. f # g
    BY <1>2 DEF LDeliver, LBucketSaved, LRecordSaved, LIndexed
  <2>. QED
    BY <1>2, <2>1, LOthersUnchanged
<1>. QED
  BY <1>1, <1>2 DEF LNext

(* A step of lda.js never removes a record, whatever riak.save returns:  *)
(* a failed save writes the mail or nothing.                              *)
LEMMA LRecordsGrow ==
    ASSUME RecipientType, TypeInv, [LNext]_ldaVars,
           NEW k \in Keys, records[k] # Nil
    PROVE  records'[k] # Nil
<1>1. CASE \E f \in Files : LRecordSaved(f)
  <2>1. PICK f \in Files : LRecordSaved(f)
    BY <1>1
  <2>2. KeyOf(f) \in Keys /\ RecordOf(f) \in RecordVals
    BY <2>1, KeyOfType DEF LRecordSaved, IdStages
  <2>3. RecordOf(f) # Nil
    BY <2>2, NilAssumption
  <2>4. records' \in {records, WriteTo(f, records, RecordOf(f))}
    BY <2>1 DEF LRecordSaved
  <2>. QED
    BY <2>2, <2>3, <2>4 DEF WriteTo, RecipientType, TypeInv, TypeOK
<1>2. CASE ~\E f \in Files : LRecordSaved(f)
  BY <1>2 DEF LNext, LDeliver, LBucketSaved, LIndexed, ldaVars, msVars
<1>. QED
  BY <1>1, <1>2

LEMMA NextLTypeInv ==
    ASSUME RecipientType, LTypeInv, [LNext]_ldaVars
    PROVE  LTypeInv'
<1>. USE DEF LTypeInv, TypeInv, TypeOK, IdAssigned, Stages, IdStages
<1>1. CASE UNCHANGED ldaVars
  BY <1>1 DEF ldaVars, msVars
<1>2. ASSUME NEW f \in Files, LDeliver(f) PROVE LTypeInv'
  <2>1. CASE Mail[f].msgIdHdr # <<>>
    BY <1>2, <2>1, StripInIds DEF LDeliver
  <2>2. CASE Mail[f].msgIdHdr = <<>>
    <3>. DEFINE u == CHOOSE u \in Uuids \ issued : TRUE
    <3>1. u \in Uuids \ issued
      BY <1>2, <2>2 DEF LDeliver
    <3>2. u \in Ids
      BY <3>1 DEF Ids
    <3>. QED
      BY <1>2, <2>2, <3>1, <3>2 DEF LDeliver
  <2>. QED
    BY <2>1, <2>2
<1>3. ASSUME NEW f \in Files, LBucketSaved(f) PROVE LTypeInv'
  BY <1>3 DEF LBucketSaved
<1>4. ASSUME NEW f \in Files, LRecordSaved(f) PROVE LTypeInv'
  <2>1. KeyOf(f) \in Keys /\ RecordOf(f) \in RecordVals
    BY <1>4, KeyOfType DEF LRecordSaved
  <2>. QED
    BY <1>4, <2>1 DEF LRecordSaved, WriteTo, RecipientType
<1>5. ASSUME NEW f \in Files, LIndexed(f) PROVE LTypeInv'
  <2>1. KeyOf(f) \in Keys
    BY <1>5, KeyOfType DEF LIndexed
  <2>2. Mail[f] \in MailRec
    BY MailAssumption
  <2>3. LIndexDocOf(f) \in IndexVals
    BY <2>1, <2>2 DEF LIndexDocOf, IndexVals, MailRec
  <2>. QED
    BY <1>5, <2>1, <2>3 DEF LIndexed, WriteTo, RecipientType
<1>. QED
  BY <1>1, <1>2, <1>3, <1>4, <1>5 DEF LNext

(* The save callback of delivery g with no error leaves its record.  *)
LEMMA LSaveNoError ==
    ASSUME RecipientType, LTypeInv, NEW g \in Files, LRecordSaved(g),
           g \notin saveFailed', Recipient[g]
    PROVE  records'[KeyOf(g)'] # Nil
<1>1. KeyOf(g) \in Keys /\ RecordOf(g) \in RecordVals
  BY KeyOfType DEF LRecordSaved, IdStages, LTypeInv
<1>2. RecordOf(g) # Nil
  BY <1>1, NilAssumption
<1>3. records' = [records EXCEPT ![KeyOf(g)] = RecordOf(g)]
  BY DEF LRecordSaved, WriteTo
<1>4. KeyOf(g)' = KeyOf(g)
  BY DEF LRecordSaved, KeyOf
<1>. QED
  BY <1>1, <1>2, <1>3, <1>4 DEF LTypeInv, TypeInv, TypeOK

LEMMA NextLRecordWritten ==
    ASSUME RecipientType, LInv, [LNext]_ldaVars, LTypeInv'
    PROVE  LRecordWritten'
<1> SUFFICES ASSUME NEW g \in Files,
                    stage'[g] \in {"index", "done", "exited"}, Recipient[g],
                    g \notin saveFailed'
             PROVE  records'[KeyOf(g)'] # Nil
  BY DEF LRecordWritten
<1>1. saveFailed \subseteq saveFailed'
  BY DEF LNext, LDeliver, LBucketSaved, LRecordSaved, LIndexed, ldaVars
<1>2. CASE stage'[g] = stage[g] /\ msgId'[g] = msgId[g]
  <2>1. records[KeyOf(g)] # Nil
    BY <1>1, <1>2 DEF LInv, LRecordWritten
  <2>2. KeyOf(g) \in Keys
    BY <1>2, KeyOfType DEF LInv, LTypeInv, IdStages
  <2>. QED
    BY <1>2, <2>1, <2>2, LRecordsGrow DEF LInv, LTypeInv, KeyOf
<1>3. CASE ~(stage'[g] = stage[g] /\ msgId'[g] = msgId[g])
  <2>1. LDeliver(g) \/ LBucketSaved(g) \/ LRecordSaved(g) \/ LIndexed(g)
    <3>1. ~UNCHANGED ldaVars
      BY <1>3 DEF ldaVars, msVars
    <3>2. PICK f \in Files :
            LDeliver(f) \/ LBucketSaved(f) \/ LRecordSaved(f) \/ LIndexed(f)
      BY <3>1 DEF LNext
    <3>3. f = g
      BY <1>3, <3>2, LOthersUnchanged DEF LInv, LTypeInv
    <3>. QED
      BY <3>2, <3>3
  <2>2. CASE LRecordSaved(g)
    BY <2>2, LSaveNoError DEF LInv
  <2>3. CASE LIndexed(g)
    <3>1. g \notin saveFailed
      BY <2>3 DEF LIndexed
    <3>2. records[KeyOf(g)] # Nil
      BY <2>3, <3>1 DEF LIndexed, LInv, LRecordWritten
    <3>. QED
      BY <2>3, <3>2 DEF LIndexed, KeyOf
  <2>4. CASE LDeliver(g) \/ LBucketSaved(g)
    BY <2>4 DEF LDeliver, LBucketSaved, LInv, LTypeInv, TypeInv, TypeOK
  <2>. QED
    BY <2>1, <2>2, <2>3, <2>4
<1>. QED
  BY <1>2, <1>3

LEMMA NextIndexOwned ==
    ASSUME RecipientType, LInv, [LNext]_ldaVars, LTypeInv'
    PROVE  IndexOwned'
<1> SUFFICES ASSUME NEW k \in Keys, index'[k] # Nil,
                    NEW g \in Files, g = index'[k].file
             PROVE  stage'[g] = "done" /\ Recipient[g] /\ KeyOf(g)' = k
  <2>. SUFFICES ASSUME NEW k \in Keys, index'[k] # Nil
                PROVE  /\ stage'[index'[k].file] = "done"
                       /\ Recipient[index'[k].file]
                       /\ Digest(msgId'[index'[k].file]) = k
    BY DEF IndexOwned, KeyOf
  <2>1. index'[k].file \in Files
    BY DEF LTypeInv, TypeInv, TypeOK, IndexVals
  <2>. QED
    BY <2>1 DEF KeyOf
<1>1. CASE index'[k] = index[k]
  <2>2. stage[g] = "done" /\ Recipient[g] /\ KeyOf(g) = k
    BY <1>1 DEF LInv, IndexOwned
  <2>3. TypeInv
    BY DEF LInv, LTypeInv
  <2>4. stage'[g] = "done" /\ msgId'[g] = msgId[g]
    BY <2>2, <2>3, LDoneStable
  <2>. QED
    BY <2>2, <2>4 DEF KeyOf
<1>2. CASE index'[k] # index[k]
  <2>1. PICK f \in Files : LIndexed(f)
    BY <1>2 DEF LNext, LDeliver, LBucketSaved, LRecordSaved, ldaVars, msVars
  <2>2. KeyOf(f) \in Keys /\ LIndexDocOf(f).file = f
    BY <2>1, KeyOfType DEF LIndexed, IdStages, LInv, LTypeInv, LIndexDocOf
  <2>3. index' \in {index, WriteTo(f, index, LIndexDocOf(f))}
    BY <2>1 DEF LIndexed
  <2>4. index' = [index EXCEPT ![KeyOf(f)] = LIndexDocOf(f)] /\ Recipient[f]
    BY <1>2, <2>3 DEF WriteTo
  <2>5. k = KeyOf(f) /\ index'[k] = LIndexDocOf(f)
    BY <1>2, <2>2, <2>4 DEF LInv, LTypeInv, TypeInv, TypeOK
  <2>6. stage'[f] = "done" /\ msgId'[f] = msgId[f]
    BY <2>1 DEF LIndexed, LInv, LTypeInv, TypeInv, TypeOK
  <2>. QED
    BY <2>2, <2>4, <2>5, <2>6 DEF KeyOf
<1>. QED
  BY <1>1, <1>2

LEMMA NextLInv ==
    ASSUME RecipientType
    PROVE  LInv /\ [LNext]_ldaVars => LInv'
<1> SUFFICES ASSUME LInv, [LNext]_ldaVars PROVE LInv'
  OBVIOUS
<1>1. LTypeInv'
  BY NextLTypeInv DEF LInv
<1>. QED
  BY <1>1, NextLRecordWritten, NextIndexOwned DEF LInv

(* lda.js, whose callbacks ignore every error, loses a mail only when its *)
(* riak.save reported one: a delivery with a recipient that exited 0 has  *)
(* its record unless its save callback (line 108) got an err, for every   *)
(* set of mails and recipients, every failure of saveBucket, riak.save    *)
(* and search.add, and every interleaving of the deliveries.              *)
THEOREM LdaNoLoss ==
    ASSUME RecipientType
    PROVE  LSpec => []LossNeedsSaveError
<1>1. LInv => LossNeedsSaveError
  BY DEF LInv, LRecordWritten, LossNeedsSaveError
<1>2. LInv /\ [LNext]_ldaVars => LInv'
  BY NextLInv
<1>. QED
  BY <1>1, <1>2, InitLInv, PTL DEF LSpec

(* lda.js leaves an index document without its record only after a       *)
(* failed riak.save: search.add, issued from the save callback whatever   *)
(* err says, orphans a document only for a delivery whose save got an     *)
(* err, under the same failures and interleavings.                        *)
THEOREM LdaIndexSafety ==
    ASSUME RecipientType
    PROVE  LSpec => []OrphanNeedsSaveError
<1>1. LInv => OrphanNeedsSaveError
  <2> SUFFICES ASSUME LInv, NEW k \in Keys, index[k] # Nil, records[k] = Nil
               PROVE  index[k].file \in saveFailed
    BY DEF OrphanNeedsSaveError
  <2>1. index[k].file \in Files
    BY DEF LInv, LTypeInv, TypeInv, TypeOK, IndexVals
  <2>2. stage[index[k].file] = "done" /\ Recipient[index[k].file]
        /\ KeyOf(index[k].file) = k
    BY DEF LInv, IndexOwned
  <2>. QED
    BY <2>1, <2>2 DEF LInv, LRecordWritten
<1>2. LInv /\ [LNext]_ldaVars => LInv'
  BY NextLInv
<1>. QED
  BY <1>1, <1>2, InitLInv, PTL DEF LSpec
====
