------------------------------ MODULE FilePool ------------------------------
(***************************************************************************)
(* What the dispatcher of storeCorpus.js promises, with no queue order,   *)
(* slot counter or events: a set of files to store, handed out at most    *)
(* MaxOpen at a time.  Once the listing is in, each file is waiting or    *)
(* running, never both; when a running file finishes, one waiting file,   *)
(* if there is any, takes its place at once; and a failure halts the      *)
(* pool for good.  Which waiting file starts is left open.                *)
(***************************************************************************)
EXTENDS Naturals, FiniteSets

CONSTANTS
    Sampled,    \* the files to store
    MaxOpen     \* the ceiling on files in flight

VARIABLES
    waiting,    \* files listed and not yet started
    running,    \* files started and not yet finished
    listed,     \* the listing has been handed out
    halted      \* the pool has stopped

poolVars == <<waiting, running, listed, halted>>

Init ==
    /\ waiting = {}
    /\ running = {}
    /\ listed = FALSE
    /\ halted = FALSE

(* The listing arrives: as many files as fit start, the others wait. *)
List ==
    /\ ~halted
    /\ ~listed
    /\ listed' = TRUE
    /\ \E R \in SUBSET Sampled :
          /\ Cardinality(R) <= MaxOpen
          /\ R # Sampled => Cardinality(R) = MaxOpen
          /\ running' = R
          /\ waiting' = Sampled \ R
    /\ UNCHANGED halted

(* Running file f finishes, and a waiting file, when there is one, takes  *)
(* its slot in the same step.                                             *)
Finish(f) ==
    /\ ~halted
    /\ f \in running
    /\ \/ /\ waiting = {}
          /\ running' = running \ {f}
          /\ UNCHANGED waiting
       \/ \E g \in waiting :
             /\ running' = (running \ {f}) \cup {g}
             /\ waiting' = waiting \ {g}
    /\ UNCHANGED <<listed, halted>>

(* A failure stops every file. *)
Halt ==
    /\ ~halted
    /\ halted' = TRUE
    /\ UNCHANGED <<waiting, running, listed>>

Next == List \/ Halt \/ \E f \in Sampled : Finish(f)

Spec == Init /\ [][Next]_poolVars
=============================================================================
