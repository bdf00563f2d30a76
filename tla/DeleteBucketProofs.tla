------------------------- MODULE DeleteBucketProofs -------------------------
(***************************************************************************)
(* Proof that deleteBucket.js, run while no delivery is in progress,       *)
(* never leaves an index document whose record is gone, for every set of  *)
(* deliveries, mails, keys and failures.  IndexImpliesRecord is not        *)
(* inductive alone: riak.remove of a key is safe only because its          *)
(* search.remove has already succeeded (IndexGone), and deliveries keep    *)
(* the index behind the records only while store()'s own invariant        *)
(* StoreInv holds, which is until the deletion starts.                    *)
(***************************************************************************)
EXTENDS DeleteBucket, MailStorageProofs

DelTypeOK ==
    /\ delStage \in {"start", "listing", "crashed"}
    /\ del \in [Keys -> DelStages]

(* A key whose search.remove has succeeded has no index document. *)
IndexGone == \A k \in Keys : del[k] \in {"record", "removed"} => index[k] = Nil

DeleteInv ==
    /\ TypeInv
    /\ DelTypeOK
    /\ IndexImpliesRecord
    /\ IndexGone
    /\ delStage = "start" => StoreInv /\ del = [k \in Keys |-> "none"]

-----------------------------------------------------------------------------
LEMMA InitDeleteInv == DInit => DeleteInv
<1>. SUFFICES ASSUME DInit PROVE DeleteInv
  OBVIOUS
<1>1. StoreInv
  BY InitStoreInv DEF DInit
<1>. QED
  BY <1>1 DEF DInit, DeleteInv, StoreInv, DelTypeOK, DelStages, IndexGone

(* A delivery's step, taken before the deletion starts. *)
LEMMA IngestKeeps ==
    ASSUME DeleteInv, ~Ingesting, NEW f \in Files, IngestStep(f)
    PROVE  DeleteInv'
<1>1. delStage = "start" /\ UNCHANGED delVars
  BY DEF IngestStep
<1>2. [Next]_msVars
  BY DEF IngestStep, Next
<1>3. StoreInv'
  BY <1>1, <1>2, NextStoreInv DEF DeleteInv
<1>. QED
  BY <1>1, <1>3 DEF DeleteInv, StoreInv, DelTypeOK, IndexGone, delVars

(* A step of the deletion tool. *)
LEMMA DelKeeps ==
    ASSUME DeleteInv, DelStep
    PROVE  DeleteInv'
<1>. USE DEF DeleteInv, DelTypeOK, DelStages
<1>1. CASE DelSaveBucket
  BY <1>1 DEF DelSaveBucket, StoreInv, TypeInv, TypeOK, IdAssigned,
              IndexImpliesRecord, IndexGone, msVars
<1>2. CASE KeysListed
  BY <1>2 DEF KeysListed, TypeInv, TypeOK, IdAssigned, IndexImpliesRecord,
              IndexGone, msVars
<1>3. ASSUME NEW k \in Keys, IndexRemoved(k) PROVE DeleteInv'
  <2>1. TypeInv' /\ IndexImpliesRecord'
    BY <1>3 DEF IndexRemoved, TypeInv, TypeOK, IdAssigned, IndexImpliesRecord
  <2>2. IndexGone'
    BY <1>3 DEF IndexRemoved, IndexGone, TypeInv, TypeOK
  <2>3. DelTypeOK' /\ delStage' # "start"
    BY <1>3 DEF IndexRemoved
  <2>. QED
    BY <2>1, <2>2, <2>3
<1>4. ASSUME NEW k \in Keys, RecordRemoved(k) PROVE DeleteInv'
  <2>1. index[k] = Nil
    BY <1>4 DEF RecordRemoved, IndexGone
  <2>2. TypeInv' /\ IndexImpliesRecord'
    BY <1>4, <2>1, NilAssumption
       DEF RecordRemoved, TypeInv, TypeOK, IdAssigned, IndexImpliesRecord
  <2>3. IndexGone'
    BY <1>4 DEF RecordRemoved, IndexGone, TypeInv, TypeOK
  <2>4. DelTypeOK' /\ delStage' # "start"
    BY <1>4 DEF RecordRemoved
  <2>. QED
    BY <2>2, <2>3, <2>4
<1>. QED
  BY <1>1, <1>2, <1>3, <1>4 DEF DelStep

LEMMA NextDeleteInv ==
    ASSUME ~Ingesting
    PROVE  DeleteInv /\ [DNext]_dbVars => DeleteInv'
<1> SUFFICES ASSUME DeleteInv, [DNext]_dbVars PROVE DeleteInv'
  OBVIOUS
<1>1. CASE UNCHANGED dbVars
  BY <1>1 DEF dbVars, msVars, delVars, DeleteInv, TypeInv, TypeOK, IdAssigned,
              DelTypeOK, IndexImpliesRecord, IndexGone, StoreInv,
              RecordWritten, KeyOf
<1>2. CASE DelStep
  BY <1>2, DelKeeps
<1>3. CASE Ingest
  BY <1>3, IngestKeeps DEF Ingest
<1>. QED
  BY <1>1, <1>2, <1>3 DEF DNext

(* With deliveries stopped (Ingesting FALSE), deleteBucket.js's order,     *)
(* search.remove first and riak.remove from its callback, never leaves an *)
(* index document for a removed record, whatever search.remove or         *)
(* riak.remove fail on and in whatever order their callbacks arrive.      *)
THEOREM DeleteSafety ==
    ASSUME ~Ingesting
    PROVE  DSpec => []IndexImpliesRecord
<1>1. DeleteInv => IndexImpliesRecord
  BY DEF DeleteInv
<1>2. DeleteInv /\ [DNext]_dbVars => DeleteInv'
  BY NextDeleteInv
<1>. QED
  BY <1>1, <1>2, InitDeleteInv, PTL DEF DSpec

=============================================================================
