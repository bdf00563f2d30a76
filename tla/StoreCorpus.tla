---------------------------- MODULE StoreCorpus ----------------------------
(***************************************************************************)
(* The corpus replay tool src/archives/node/tools/storeCorpus.js: one Node *)
(* process lists a directory of raw messages and stores each through       *)
(* MailStorage.store (module MailStorage), with at most maxOpenFile files  *)
(* in flight.  Two events drive it: "newMail" pushes a path on queueFiles  *)
(* and emits "processNewMail", which starts the file popped from the end   *)
(* of the queue (last in, first out) when a slot is free.  store() calls   *)
(* back when a file is stored and indexed; the callback frees the slot and *)
(* emits "processNewMail" again.  EventEmitter.emit runs its handlers      *)
(* synchronously, so each callback below is one atomic step.               *)
(*                                                                         *)
(* All files share the process: an error thrown in any callback of        *)
(* store(), or its process.exit(0) after an index error, ends every file.  *)
(***************************************************************************)
EXTENDS MailStorage

CONSTANTS
    Corpus,         \* the directory listing, in readdir order
    MaxSample,      \* maxSample: how many entries of the listing are used
    MaxOpenFile     \* maxOpenFile: the ceiling on files in flight

ASSUME CorpusAssumption ==
    /\ Corpus \in Seq(Files)
    /\ \A i, j \in DOMAIN Corpus : Corpus[i] = Corpus[j] => i = j
ASSUME BoundsAssumption ==
    /\ MaxSample \in Nat
    /\ MaxOpenFile \in Nat \ {0}

VARIABLES
    queueFiles,     \* queueFiles: the paths waiting for a free slot
    fileOpened,     \* fileOpened: the slot counter
    started,        \* the files storeMail has been called on
    listed,         \* the readdir callback has run
    alive           \* the process is running

dispatchVars == <<queueFiles, fileOpened, started, listed>>
vars == <<msVars, dispatchVars, alive>>

MinOf(a, b) == IF a < b THEN a ELSE b

(* files.slice(0, maxSample), line 76. *)
Sample == SubSeq(Corpus, 1, MinOf(MaxSample, Len(Corpus)))
SampleFiles == {Sample[i] : i \in DOMAIN Sample}

Queued == {queueFiles[i] : i \in DOMAIN queueFiles}

(* The stages at which a failure has ended the process. *)
Dead == {"crashed", "exited"}

-----------------------------------------------------------------------------
CInit ==
    /\ Init
    /\ queueFiles = <<>>
    /\ fileOpened = 0
    /\ started = {}
    /\ listed = FALSE
    /\ alive = TRUE

(* Mutant: the last path is read but not popped from the queue. *)
ProcessNewMailNoPop(opened) ==
    IF queueFiles # <<>> /\ opened < MaxOpenFile
    THEN /\ fileOpened' = opened + 1
         /\ started' = started \cup {queueFiles[Len(queueFiles)]}
         /\ UNCHANGED queueFiles
    ELSE /\ fileOpened' = opened
         /\ UNCHANGED <<started, queueFiles>>

(* The "processNewMail" handler, lines 56-61, run after the slot counter  *)
(* has become opened: when a path is queued and a slot is free, take a    *)
(* slot and call storeMail on the path popped from the end of the queue.  *)
ProcessNewMail(opened) ==
    IF queueFiles # <<>> /\ opened < MaxOpenFile
    THEN /\ fileOpened' = opened + 1
         /\ started' = started \cup {queueFiles[Len(queueFiles)]}
         /\ queueFiles' = SubSeq(queueFiles, 1, Len(queueFiles) - 1)
    ELSE /\ fileOpened' = opened
         /\ UNCHANGED <<started, queueFiles>>

(* Mutant: every sampled entry is started, whatever maxOpenFile says. *)
ReadDirNoCap ==
    /\ alive
    /\ ~listed
    /\ listed' = TRUE
    /\ started' = SampleFiles
    /\ fileOpened' = Len(Sample)
    /\ queueFiles' = <<>>
    /\ UNCHANGED <<msVars, alive>>

(* The readdir callback, lines 74-84: for each of the first maxSample     *)
(* entries, "newMail" pushes it and "processNewMail" pops it again while a *)
(* slot is free.  The queue is empty and no slot is taken when it runs,    *)
(* so the first maxOpenFile entries are started and the rest stay queued  *)
(* in listing order.  A readdir error is thrown.                           *)
ReadDir ==
    /\ alive
    /\ ~listed
    /\ listed' = TRUE
    /\ LET k == MinOf(Len(Sample), MaxOpenFile)
       IN  /\ started' = {Sample[i] : i \in 1..k}
           /\ fileOpened' = k
           /\ queueFiles' = SubSeq(Sample, k + 1, Len(Sample))
    /\ UNCHANGED <<msVars, alive>>

ReadDirFailed ==
    /\ alive
    /\ ~listed
    /\ "readdir" \in Faults
    /\ alive' = FALSE
    /\ UNCHANGED <<msVars, dispatchVars>>

(* A callback of store() for a started file that does not complete it:    *)
(* the parser's "end" (lines 33-36, store() up to saveBucket), the        *)
(* saveBucket and save callbacks, and search.add failing.  When it ends   *)
(* in a throw or in process.exit, the process is gone.                    *)
InProcess(f, A) ==
    /\ alive
    /\ f \in started
    /\ A
    /\ alive' = (stage'[f] \notin Dead)
    /\ UNCHANGED dispatchVars

Parsed(f) == InProcess(f, Deliver(f))
BucketSavedC(f) == InProcess(f, BucketSaved(f))
RecordSavedC(f) == InProcess(f, RecordSaved(f))
IndexFailedC(f) == InProcess(f, Indexed(f) /\ stage'[f] = "exited")

(* Mutant: the callback frees the slot but does not emit processNewMail. *)
StoredNoEmit(f) ==
    /\ alive
    /\ f \in started
    /\ Indexed(f)
    /\ stage'[f] = "done"
    /\ fileOpened' = fileOpened - 1
    /\ UNCHANGED <<queueFiles, started, listed, alive>>

(* Mutant: the callback emits processNewMail without freeing the slot. *)
StoredNoFree(f) ==
    /\ alive
    /\ f \in started
    /\ Indexed(f)
    /\ stage'[f] = "done"
    /\ ProcessNewMail(fileOpened)
    /\ UNCHANGED <<listed, alive>>

(* Mutant: the slot is freed twice (the callback decrements, and so does  *)
(* the handler it emits).                                                 *)
StoredFreesTwice(f) ==
    /\ alive
    /\ f \in started
    /\ Indexed(f)
    /\ stage'[f] = "done"
    /\ ProcessNewMail(fileOpened - 2)
    /\ UNCHANGED <<listed, alive>>

(* search.add succeeded and store() calls its callback, lines 36-40:      *)
(* fileOpened = fileOpened - 1, then "processNewMail".                    *)
Stored(f) ==
    /\ alive
    /\ f \in started
    /\ Indexed(f)
    /\ stage'[f] = "done"
    /\ ProcessNewMail(fileOpened - 1)
    /\ UNCHANGED <<listed, alive>>

FileStep(f) ==
    Parsed(f) \/ BucketSavedC(f) \/ RecordSavedC(f) \/ IndexFailedC(f)
    \/ Stored(f)

CNext == ReadDir \/ ReadDirFailed \/ \E f \in Files : FileStep(f)

(* Node's event loop runs every callback whose I/O has completed, and     *)
(* Riak and the file system answer every request.                         *)
CFairness == WF_vars(ReadDir) /\ \A f \in Files : WF_vars(FileStep(f))

CSpec == CInit /\ [][CNext]_vars
FairSpec == CSpec /\ CFairness

(* The refinement mapping to module FilePool: the queued paths wait, the  *)
(* started files whose store() has not called back run, and the pool      *)
(* halts with the process.                                                *)
Open == {f \in started : stage[f] # "done"}

Pool == INSTANCE FilePool
            WITH Sampled <- SampleFiles, MaxOpen <- MaxOpenFile,
                 waiting <- Queued, running <- Open, halted <- ~alive

-----------------------------------------------------------------------------
CorpusTypeOK ==
    /\ TypeOK
    /\ queueFiles \in Seq(Files)
    /\ fileOpened \in Nat
    /\ started \subseteq Files
    /\ listed \in BOOLEAN
    /\ alive \in BOOLEAN

(* fileOpened counts exactly the started files whose store() has not      *)
(* called back, and never exceeds maxOpenFile: the slot is taken in the    *)
(* same handler that starts a file and given back only by store()'s       *)
(* callback, which runs once per file.                                    *)
SlotAccounting ==
    alive =>
        /\ fileOpened = Cardinality({f \in started : stage[f] # "done"})
        /\ fileOpened <= MaxOpenFile

(* No slot stays idle while a file waits: as long as the process runs,    *)
(* a non-empty queue means every slot is taken.  Each freed slot is        *)
(* refilled in the same callback that frees it.                           *)
WorkConserving ==
    alive /\ queueFiles # <<>> => fileOpened = MaxOpenFile

(* Once listed, every sampled file is either started or queued, never      *)
(* both, and is queued at most once: no file is lost or stored twice by    *)
(* the push/pop sequence of the two events.  Before, nothing is.           *)
CorpusPartition ==
    /\ listed =>
         /\ started \cup Queued = SampleFiles
         /\ started \cap Queued = {}
         /\ \A i, j \in DOMAIN queueFiles :
                queueFiles[i] = queueFiles[j] => i = j
    /\ ~listed => started = {} /\ queueFiles = <<>>

(* Spec 7: a failure of one message does not affect the others, so every  *)
(* sampled file eventually ends stored, or failed in its own pipeline.    *)
EveryFileSettles ==
    <>(\A f \in SampleFiles : stage[f] \in {"done"} \cup Dead)


(* The LIFO queue and slot counter of storeCorpus.js implement a bounded, *)
(* work-conserving pool: readdir starts as many sampled files as fit and  *)
(* queues the rest, each store() callback hands its slot to one queued    *)
(* file in the same event, and no file is started twice or dropped.      *)
ImplementsPool == Pool!Spec
=============================================================================
