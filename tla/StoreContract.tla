---------------------------- MODULE StoreContract ----------------------------
(***************************************************************************)
(* What the store coordinator promises (spec 4.5, 7), with no processes,  *)
(* callbacks or failures: a bucket of records and an index, and the set   *)
(* of acknowledged deliveries.  A record may be written under any key at  *)
(* any time; an index document is written, and a delivery acknowledged    *)
(* (the agent exits 0, and qmail drops the message), only for a key that   *)
(* holds a record, and records are never removed.                         *)
(***************************************************************************)
CONSTANTS Files, Keys, RecordVals, IndexVals, Nil

VARIABLES
    records,    \* records[k]: the record saved under k, or Nil
    index,      \* index[k]: the document indexed under k, or Nil
    delivered   \* delivered[f]: the key delivery f was acknowledged under

contractVars == <<records, index, delivered>>

Init ==
    /\ records = [k \in Keys |-> Nil]
    /\ index = [k \in Keys |-> Nil]
    /\ delivered = [f \in Files |-> Nil]

(* A record is written (or overwritten) under k. *)
Put(k, r) ==
    /\ records' = [records EXCEPT ![k] = r]
    /\ UNCHANGED <<index, delivered>>

(* Delivery f is acknowledged under k, which holds a record; its index    *)
(* document d may have been written under k on the way.                  *)
Finish(f, k, d) ==
    /\ delivered[f] = Nil
    /\ records[k] # Nil
    /\ index' \in {index, [index EXCEPT ![k] = d]}
    /\ delivered' = [delivered EXCEPT ![f] = k]
    /\ UNCHANGED records

Next ==
    \/ \E k \in Keys, r \in RecordVals : Put(k, r)
    \/ \E f \in Files, k \in Keys, d \in IndexVals : Finish(f, k, d)

Spec == Init /\ [][Next]_contractVars
=============================================================================
