------------------------- MODULE MailStorageProofs -------------------------
(***************************************************************************)
(* Proofs about MailStorage, for every set of deliveries, mails, uuids and *)
(* faults.  Neither TypeOK nor the safety invariants are inductive alone:  *)
(* a delivery past DeliverWithId/DeliverWithUuid must hold an identifier   *)
(* (IdAssigned), and one past a successful save must find its record in   *)
(* Riak (RecordWritten), since Riak never loses a record.                 *)
(***************************************************************************)
EXTENDS MailStorage, TLAPS

(* Stages reached only after store() computed mail.msgId. *)
IdStages == {"bucket", "record", "index", "done", "exited"}

IdAssigned == \A f \in Files : stage[f] \in IdStages => msgId[f] \in Ids

TypeInv == TypeOK /\ IdAssigned

(* A delivery past the save callback (stored, waiting for search.add, or  *)
(* exited after it) finds a record under its key.                         *)
RecordWritten ==
    \A f \in Files :
        stage[f] \in {"index", "done", "exited"} => records[KeyOf(f)] # Nil

StoreInv == TypeInv /\ RecordWritten /\ IndexImpliesRecord

-----------------------------------------------------------------------------
LEMMA DigestInKeys == \A i \in Ids : Digest(i) \in Keys
BY DEF Keys

LEMMA StripInIds == \A f \in Files : StripId(Mail[f].msgIdHdr) \in Ids
BY DEF Ids

LEMMA KeyOfType ==
    ASSUME TypeInv, NEW f \in Files, stage[f] \in IdStages
    PROVE  /\ KeyOf(f) \in Keys
           /\ RecordOf(f) \in RecordVals
           /\ IndexDocOf(f) \in IndexVals
<1>1. msgId[f] \in Ids
  BY DEF TypeInv, IdAssigned
<1>2. KeyOf(f) \in Keys
  BY <1>1, DigestInKeys DEF KeyOf
<1>3. Mail[f] \in MailRec
  BY MailAssumption
<1>. QED
  BY <1>1, <1>2, <1>3 DEF RecordOf, RecordVals, IndexDocOf, IndexVals,
                          KeyOf, MailRec

-----------------------------------------------------------------------------
LEMMA InitTypeInv == Init => TypeInv
BY DEF Init, TypeInv, TypeOK, IdAssigned, Stages, IdStages

LEMMA NextTypeInv == TypeInv /\ [Next]_msVars => TypeInv'
<1> SUFFICES ASSUME TypeInv, [Next]_msVars PROVE TypeInv'
  OBVIOUS
<1>. USE DEF TypeInv, TypeOK, IdAssigned, Stages, IdStages
<1>1. CASE UNCHANGED msVars
  BY <1>1 DEF msVars
<1>2. ASSUME NEW f \in Files, DeliverNoFrom(f) PROVE TypeInv'
  BY <1>2 DEF DeliverNoFrom
<1>3. ASSUME NEW f \in Files, DeliverWithId(f) PROVE TypeInv'
  BY <1>3, StripInIds DEF DeliverWithId
<1>4. ASSUME NEW f \in Files, DeliverWithUuid(f) PROVE TypeInv'
  <2>. DEFINE u == CHOOSE u \in Uuids \ issued : TRUE
  <2>1. u \in Uuids \ issued
    BY <1>4 DEF DeliverWithUuid
  <2>2. u \in Ids
    BY <2>1 DEF Ids
  <2>. QED
    BY <1>4, <2>1, <2>2 DEF DeliverWithUuid
<1>5. ASSUME NEW f \in Files, BucketSaved(f) PROVE TypeInv'
  BY <1>5 DEF BucketSaved
<1>6. ASSUME NEW f \in Files, RecordSaved(f) PROVE TypeInv'
  <2>1. KeyOf(f) \in Keys /\ RecordOf(f) \in RecordVals
    BY <1>6, KeyOfType DEF RecordSaved
  <2>. QED
    BY <1>6, <2>1 DEF RecordSaved
<1>7. ASSUME NEW f \in Files, Indexed(f) PROVE TypeInv'
  <2>1. KeyOf(f) \in Keys /\ IndexDocOf(f) \in IndexVals
    BY <1>7, KeyOfType DEF Indexed
  <2>. QED
    BY <1>7, <2>1 DEF Indexed
<1>8. ASSUME NEW f \in Files, Retry(f) PROVE TypeInv'
  BY <1>8 DEF Retry
<1>. QED
  BY <1>1, <1>2, <1>3, <1>4, <1>5, <1>6, <1>7, <1>8
  DEF Next, StoreStep, Deliver

(* Type correctness of store() over Riak: every reachable state gives     *)
(* each delivery a stage and an identifier of the right kind, and keeps   *)
(* records and index documents of the shape store() writes.               *)
THEOREM TypeCorrect == Spec => []TypeOK
<1>1. Init => TypeInv
  BY InitTypeInv
<1>2. TypeInv /\ [Next]_msVars => TypeInv'
  BY NextTypeInv
<1>3. TypeInv => TypeOK
  BY DEF TypeInv
<1>. QED
  BY <1>1, <1>2, <1>3, PTL DEF Spec

-----------------------------------------------------------------------------
(* Riak never loses a record: a step writes a record or leaves records    *)
(* alone.                                                                 *)
LEMMA NextRecordsGrow ==
    ASSUME TypeInv, [Next]_msVars, NEW k \in Keys, records[k] # Nil
    PROVE  records'[k] # Nil
<1>1. CASE \E f \in Files : RecordSaved(f)
  <2>1. PICK f \in Files : RecordSaved(f)
    BY <1>1
  <2>2. KeyOf(f) \in Keys /\ RecordOf(f) \in RecordVals
    BY <2>1, KeyOfType DEF RecordSaved, IdStages
  <2>3. RecordOf(f) # Nil
    BY <2>2, NilAssumption
  <2>. QED
    BY <2>1, <2>2, <2>3 DEF RecordSaved, TypeInv, TypeOK
<1>2. CASE ~\E f \in Files : RecordSaved(f)
  <2>1. UNCHANGED records
    BY <1>2 DEF Next, StoreStep, Deliver, DeliverNoFrom, DeliverWithId,
                DeliverWithUuid, BucketSaved, Indexed, Retry, msVars
  <2>. QED
    BY <2>1
<1>. QED
  BY <1>1, <1>2

LEMMA InitStoreInv == Init => StoreInv
<1>. SUFFICES ASSUME Init PROVE StoreInv
  OBVIOUS
<1>1. TypeInv
  BY InitTypeInv
<1>2. RecordWritten
  BY DEF Init, RecordWritten
<1>3. IndexImpliesRecord
  BY DEF Init, IndexImpliesRecord
<1>. QED
  BY <1>1, <1>2, <1>3 DEF StoreInv

(* The other deliveries' stages and identifiers do not move when f moves. *)
LEMMA OthersUnchanged ==
    ASSUME TypeInv, NEW f \in Files, StoreStep(f) \/ Retry(f),
           NEW g \in Files \ {f}
    PROVE  stage'[g] = stage[g] /\ msgId'[g] = msgId[g]
BY DEF StoreStep, Deliver, DeliverNoFrom, DeliverWithId, DeliverWithUuid,
       BucketSaved, RecordSaved, Indexed, Retry, TypeInv, TypeOK

LEMMA NextStoreInv == StoreInv /\ [Next]_msVars => StoreInv'
<1> SUFFICES ASSUME StoreInv, [Next]_msVars PROVE StoreInv'
  OBVIOUS
<1>1. TypeInv'
  BY NextTypeInv DEF StoreInv
<1>2. RecordWritten'
  <2> SUFFICES ASSUME NEW g \in Files,
                      stage'[g] \in {"index", "done", "exited"}
               PROVE  records'[KeyOf(g)'] # Nil
    BY DEF RecordWritten
  <2>1. CASE stage'[g] = stage[g] /\ msgId'[g] = msgId[g]
    <3>1. records[KeyOf(g)] # Nil
      BY <2>1 DEF StoreInv, RecordWritten
    <3>2. KeyOf(g) \in Keys
      BY <2>1, KeyOfType DEF StoreInv, IdStages
    <3>. QED
      BY <2>1, <3>1, <3>2, NextRecordsGrow DEF StoreInv, KeyOf
  <2>2. CASE ~(stage'[g] = stage[g] /\ msgId'[g] = msgId[g])
    <3>1. StoreStep(g) \/ Retry(g)
      <4>1. ~UNCHANGED msVars
        BY <2>2 DEF msVars
      <4>2. PICK f \in Files : StoreStep(f) \/ Retry(f)
        BY <4>1 DEF Next
      <4>3. f = g
        BY <2>2, <4>2, OthersUnchanged DEF StoreInv
      <4>. QED
        BY <4>2, <4>3
    <3>2. CASE RecordSaved(g)
      <4>1. KeyOf(g) \in Keys /\ RecordOf(g) \in RecordVals
        BY <3>2, KeyOfType DEF RecordSaved, IdStages, StoreInv
      <4>2. RecordOf(g) # Nil
        BY <4>1, NilAssumption
      <4>. QED
        BY <3>2, <4>1, <4>2 DEF RecordSaved, StoreInv, TypeInv, TypeOK, KeyOf
    <3>3. CASE Indexed(g)
      <4>1. records[KeyOf(g)] # Nil
        BY <3>3 DEF Indexed, StoreInv, RecordWritten
      <4>. QED
        BY <3>3, <4>1 DEF Indexed, KeyOf
    <3>4. CASE ~RecordSaved(g) /\ ~Indexed(g)
      BY <3>1, <3>4 DEF StoreStep, Deliver, DeliverNoFrom, DeliverWithId,
                        DeliverWithUuid, BucketSaved, Retry,
                        StoreInv, TypeInv, TypeOK
    <3>. QED
      BY <3>2, <3>3, <3>4
  <2>. QED
    BY <2>1, <2>2
<1>3. IndexImpliesRecord'
  <2> SUFFICES ASSUME NEW k \in Keys, index'[k] # Nil PROVE records'[k] # Nil
    BY DEF IndexImpliesRecord
  <2>1. CASE index'[k] = index[k]
    BY <2>1, NextRecordsGrow DEF StoreInv, IndexImpliesRecord
  <2>2. CASE index'[k] # index[k]
    <3>1. PICK f \in Files : Indexed(f)
      BY <2>2 DEF Next, StoreStep, Deliver, DeliverNoFrom, DeliverWithId,
                  DeliverWithUuid, BucketSaved, RecordSaved, Retry, msVars
    <3>2. KeyOf(f) \in Keys
      BY <3>1, KeyOfType DEF Indexed, IdStages, StoreInv
    <3>3. k = KeyOf(f)
      BY <2>2, <3>1, <3>2 DEF Indexed, StoreInv, TypeInv, TypeOK
    <3>4. records[KeyOf(f)] # Nil
      BY <3>1 DEF Indexed, StoreInv, RecordWritten
    <3>. QED
      BY <3>1, <3>3, <3>4 DEF Indexed
  <2>. QED
    BY <2>1, <2>2
<1>. QED
  BY <1>1, <1>2, <1>3 DEF StoreInv

(* No mail is lost and no index document is orphaned, whatever Riak call  *)
(* fails and however the deliveries interleave: a delivery that qmail     *)
(* counts as done has its record in Riak, and every indexed key has a     *)
(* saved mail (the order record-then-index of store()'s callbacks).       *)
THEOREM StoreSafety == Spec => [](NoMailLost /\ IndexImpliesRecord)
<1>1. StoreInv => NoMailLost /\ IndexImpliesRecord
  BY DEF StoreInv, RecordWritten, NoMailLost
<1>. QED
  BY InitStoreInv, NextStoreInv, <1>1, PTL DEF Spec

-----------------------------------------------------------------------------
(* Refinement of StoreContract.  A step of delivery f leaves the other    *)
(* deliveries' acknowledgements alone, and f's own while f is neither     *)
(* finished before the step nor after it.                                 *)
Finished == {"done", "exited"}

LEMMA AckedFrame ==
    ASSUME TypeInv, NEW f \in Files, StoreStep(f) \/ Retry(f),
           stage[f] \notin Finished, stage'[f] \notin Finished
    PROVE  Acked' = Acked
<1>1. \A g \in Files \ {f} : stage'[g] = stage[g] /\ msgId'[g] = msgId[g]
  BY OthersUnchanged
<1>. QED
  BY <1>1 DEF Acked, KeyOf, Finished

LEMMA InitRefines == Init => Contract!Init
BY DEF Init, Contract!Init, Acked

LEMMA NextRefines ==
    StoreInv /\ [Next]_msVars => [Contract!Next]_Contract!contractVars
<1> SUFFICES ASSUME StoreInv, [Next]_msVars
             PROVE  [Contract!Next]_Contract!contractVars
  OBVIOUS
<1>. USE DEF Finished
<1>1. CASE UNCHANGED msVars
  BY <1>1 DEF msVars, Contract!contractVars, Acked, KeyOf
<1>2. ASSUME NEW f \in Files, Deliver(f) \/ BucketSaved(f) \/ Retry(f)
      PROVE  UNCHANGED Contract!contractVars
  <2>1. stage[f] \notin Finished /\ stage'[f] \notin Finished
        /\ UNCHANGED <<records, index>>
    BY <1>2 DEF Deliver, DeliverNoFrom, DeliverWithId, DeliverWithUuid,
                BucketSaved, Retry, StoreInv, TypeInv, TypeOK
  <2>2. Acked' = Acked
    BY <1>2, <2>1, AckedFrame DEF StoreInv, StoreStep
  <2>. QED
    BY <2>1, <2>2 DEF Contract!contractVars
<1>3. ASSUME NEW f \in Files, RecordSaved(f)
      PROVE  [Contract!Next]_Contract!contractVars
  <2>1. stage[f] \notin Finished /\ stage'[f] \notin Finished /\ UNCHANGED index
    BY <1>3 DEF RecordSaved, StoreInv, TypeInv, TypeOK
  <2>2. Acked' = Acked
    BY <1>3, <2>1, AckedFrame DEF StoreInv, StoreStep
  <2>3. KeyOf(f) \in Keys /\ RecordOf(f) \in RecordVals
    BY <1>3, KeyOfType DEF RecordSaved, IdStages, StoreInv
  <2>4. CASE records' = [records EXCEPT ![KeyOf(f)] = RecordOf(f)]
    <3>1. Contract!Put(KeyOf(f), RecordOf(f))
      BY <2>1, <2>2, <2>4 DEF Contract!Put
    <3>. QED
      BY <2>3, <3>1 DEF Contract!Next
  <2>5. CASE UNCHANGED records
    BY <2>1, <2>2, <2>5 DEF Contract!contractVars
  <2>. QED
    BY <1>3, <2>4, <2>5 DEF RecordSaved
<1>4. ASSUME NEW f \in Files, Indexed(f)
      PROVE  Contract!Next
  <2>1. KeyOf(f) \in Keys /\ IndexDocOf(f) \in IndexVals
    BY <1>4, KeyOfType DEF Indexed, IdStages, StoreInv
  <2>2. records[KeyOf(f)] # Nil
    BY <1>4 DEF Indexed, StoreInv, RecordWritten
  <2>3. Acked[f] = Nil
    BY <1>4 DEF Indexed, Acked
  <2>4. Acked' = [Acked EXCEPT ![f] = KeyOf(f)]
    <3>1. \A g \in Files \ {f} : stage'[g] = stage[g] /\ msgId'[g] = msgId[g]
      BY <1>4, OthersUnchanged DEF StoreInv, StoreStep
    <3>2. stage'[f] \in Finished /\ msgId'[f] = msgId[f]
      BY <1>4 DEF Indexed, StoreInv, TypeInv, TypeOK
    <3>. QED
      BY <3>1, <3>2 DEF Acked, KeyOf
  <2>5. index' \in {index, [index EXCEPT ![KeyOf(f)] = IndexDocOf(f)]}
        /\ UNCHANGED records
    BY <1>4 DEF Indexed
  <2>6. Contract!Finish(f, KeyOf(f), IndexDocOf(f))
    BY <2>2, <2>3, <2>4, <2>5 DEF Contract!Finish
  <2>. QED
    BY <2>1, <2>6 DEF Contract!Next
<1>. QED
  BY <1>1, <1>2, <1>3, <1>4 DEF Next, StoreStep

(* store(), run by any number of concurrent deliveries under any Riak     *)
(* failures and qmail retries, implements the store coordinator's         *)
(* contract: saves are Puts, and a delivery that qmail sees succeed is    *)
(* acknowledged, and possibly indexed, only under a key holding a record. *)
THEOREM Refinement == Spec => ImplementsContract
<1>1. StoreInv /\ [Next]_msVars => [Contract!Next]_Contract!contractVars
  BY NextRefines
<1>. QED
  BY InitStoreInv, NextStoreInv, InitRefines, <1>1, PTL
  DEF Spec, ImplementsContract, Contract!Spec

=============================================================================
