---------------------------- MODULE DeleteBucket ----------------------------
(***************************************************************************)
(* The bucket deletion tool src/archives/node/tools/deleteBucket.js, run   *)
(* against the bucket MailStorage.store writes (module MailStorage).  One  *)
(* Node process: saveBucket, then a streamed key listing; for each listed  *)
(* key it issues riak.search.remove and, from that callback, riak.remove.  *)
(* Calls for different keys are in flight together and their callbacks    *)
(* arrive in any order.  An error of search.remove is thrown and ends the  *)
(* process, so no pending callback runs; an error of riak.remove is only   *)
(* logged.  Deliveries (addMail.js processes) may go on meanwhile.        *)
(*                                                                         *)
(* saveBucket(bucket, {search: true}) switches Riak's automatic indexing  *)
(* of saved objects on; that indexing writes a document together with the *)
(* record it indexes and is not modelled.                                 *)
(***************************************************************************)
EXTENDS MailStorage

CONSTANT
    Ingesting   \* TRUE: deliveries go on while the deletion runs

ASSUME IngestingAssumption == Ingesting \in BOOLEAN

VARIABLES
    delStage,   \* start, listing (the process runs), crashed
    del         \* del[k]: none (not listed), index, record (waiting for the
                \* search.remove or riak.remove callback), removed

delVars == <<delStage, del>>
dbVars == <<msVars, delVars>>

DelStages == {"none", "index", "record", "removed"}

DInit ==
    /\ Init
    /\ delStage = "start"
    /\ del = [k \in Keys |-> "none"]

(* The saveBucket callback, line 22 (its error is ignored), starts the    *)
(* key listing.  When deliveries are stopped, none is half-way.           *)
DelSaveBucket ==
    /\ delStage = "start"
    /\ ~Ingesting => \A f \in Files : stage[f] \notin InFlight
    /\ delStage' = "listing"
    /\ UNCHANGED <<msVars, del>>

(* A "keys" event, lines 23-27: a batch of keys of the bucket not listed  *)
(* before, each with its search.remove issued.                            *)
KeysListed ==
    /\ delStage = "listing"
    /\ \E batch \in SUBSET {k \in Keys : records[k] # Nil /\ del[k] = "none"} :
          /\ batch # {}
          /\ del' = [k \in Keys |-> IF k \in batch THEN "index" ELSE del[k]]
    /\ UNCHANGED <<msVars, delStage>>

(* Mutant: the first callback removes the record, the second the index. *)
IndexRemovedRecordFirst(k) ==
    /\ delStage = "listing"
    /\ del[k] = "index"
    /\ records' = [records EXCEPT ![k] = Nil]
    /\ del' = [del EXCEPT ![k] = "record"]
    /\ UNCHANGED <<stage, msgId, issued, index, delStage>>

(* Mutant: the callback does not go on to riak.remove. *)
IndexRemovedNoChain(k) ==
    /\ delStage = "listing"
    /\ del[k] = "index"
    /\ index' = [index EXCEPT ![k] = Nil]
    /\ del' = [del EXCEPT ![k] = "removed"]
    /\ UNCHANGED <<stage, msgId, issued, records, delStage>>

(* The search.remove callback, lines 28-32: on success riak.remove is     *)
(* issued; an error is thrown, ending the process, and the removal may    *)
(* or may not have been applied.                                          *)
IndexRemoved(k) ==
    /\ delStage = "listing"
    /\ del[k] = "index"
    /\ \/ /\ index' = [index EXCEPT ![k] = Nil]
          /\ del' = [del EXCEPT ![k] = "record"]
          /\ UNCHANGED delStage
       \/ /\ "unindex" \in Faults
          /\ \E applied \in BOOLEAN :
                index' = IF applied THEN [index EXCEPT ![k] = Nil] ELSE index
          /\ delStage' = "crashed"
          /\ UNCHANGED del
    /\ UNCHANGED <<stage, msgId, issued, records>>

(* The riak.remove callback, lines 32-35: an error is logged only.        *)
RecordRemoved(k) ==
    /\ delStage = "listing"
    /\ del[k] = "record"
    /\ \/ records' = [records EXCEPT ![k] = Nil]
       \/ "remove" \in Faults /\ UNCHANGED records
    /\ del' = [del EXCEPT ![k] = "removed"]
    /\ UNCHANGED <<stage, msgId, issued, index, delStage>>

DelStep ==
    \/ DelSaveBucket
    \/ KeysListed
    \/ \E k \in Keys : IndexRemoved(k) \/ RecordRemoved(k)

(* Deliveries run before the deletion starts, and during it when         *)
(* Ingesting.                                                             *)
IngestStep(f) ==
    /\ delStage = "start" \/ Ingesting
    /\ StoreStep(f) \/ Retry(f)
    /\ UNCHANGED delVars

Ingest == \E f \in Files : IngestStep(f)

DNext == DelStep \/ Ingest

(* Node runs every callback whose answer has come, Riak answers, and the *)
(* delivery processes run.                                                *)
DFairness ==
    /\ \A f \in Files : WF_dbVars(IngestStep(f))
    /\ WF_dbVars(DelSaveBucket)
    /\ WF_dbVars(KeysListed)
    /\ \A k \in Keys : WF_dbVars(IndexRemoved(k)) /\ WF_dbVars(RecordRemoved(k))

DSpec == DInit /\ [][DNext]_dbVars
DFairSpec == DSpec /\ DFairness

-----------------------------------------------------------------------------
(* A deletion run with deliveries stopped and no call failing ends with   *)
(* the bucket empty for good: every key with a record is listed, and the  *)
(* chain search.remove -> riak.remove removes its index entry and then    *)
(* its record.                                                            *)
BucketEmptied ==
    <>[](\A k \in Keys : records[k] = Nil /\ index[k] = Nil)

=============================================================================
