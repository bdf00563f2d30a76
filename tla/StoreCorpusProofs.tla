------------------------- MODULE StoreCorpusProofs -------------------------
(***************************************************************************)
(* Proofs about the corpus replay (module StoreCorpus), for every corpus,  *)
(* sample size and ceiling on open files.  The slot counter and the        *)
(* queue are correct together: SlotAccounting, WorkConserving and          *)
(* CorpusPartition are not inductive alone.  A step of store() keeps the   *)
(* count of unfinished started files only because a file not yet started  *)
(* is still pending (Untouched), and the file popped by processNewMail is  *)
(* a new one only because the queue and the started files are disjoint.   *)
(***************************************************************************)
EXTENDS StoreCorpus, MailStorageProofs, FiniteSetTheorems

(* A file storeMail has not been called on has not moved. *)
Untouched == \A f \in Files \ started : stage[f] = "pending"

CorpusInv ==
    /\ TypeInv
    /\ queueFiles \in Seq(Files)
    /\ fileOpened \in Nat
    /\ started \subseteq Files
    /\ listed \in BOOLEAN
    /\ alive \in BOOLEAN
    /\ Untouched
    /\ CorpusPartition
    /\ SlotAccounting
    /\ WorkConserving

-----------------------------------------------------------------------------
(* The first n entries of g, as a set. *)
ImageOf(g, n) == {g[i] : i \in 1..n}

(* The elements of a sequence, and that it repeats none. *)
Elems(s) == {s[i] : i \in DOMAIN s}
NoDup(s) == \A i, j \in DOMAIN s : s[i] = s[j] => i = j

(* A sequence without repetition has as many distinct elements as its     *)
(* length.                                                                *)
LEMMA InjectiveImage ==
    ASSUME NEW S, NEW n \in Nat, NEW g \in [1..n -> S],
           \A i, j \in 1..n : g[i] = g[j] => i = j
    PROVE  IsFiniteSet(ImageOf(g, n)) /\ Cardinality(ImageOf(g, n)) = n
<1>1. g \in Bijection(1..n, ImageOf(g, n))
  BY DEF Bijection, Injection, Surjection, IsInjective, ImageOf
<1>. QED
  BY <1>1, FS_Interval, FS_Bijection DEF ExistsBijection

(* The sample is the first MinOf(MaxSample, Len(Corpus)) entries of the   *)
(* listing, without repetition, and its files are finitely many.          *)
LEMMA SampleFacts ==
    /\ Sample \in Seq(Files)
    /\ Len(Sample) \in Nat
    /\ DOMAIN Sample = 1..Len(Sample)
    /\ \A i, j \in 1..Len(Sample) : Sample[i] = Sample[j] => i = j
    /\ IsFiniteSet(SampleFiles)
    /\ SampleFiles \subseteq Files
<1>. DEFINE m == MinOf(MaxSample, Len(Corpus))
<1>1. m \in 0..Len(Corpus)
  BY CorpusAssumption, BoundsAssumption DEF MinOf
<1>2. Sample = [i \in 1..m |-> Corpus[i]]
  BY <1>1, CorpusAssumption DEF Sample
<1>3. /\ Sample \in Seq(Files)
      /\ Len(Sample) = m
      /\ DOMAIN Sample = 1..m
      /\ Sample \in [1..m -> Files]
  BY <1>1, <1>2, CorpusAssumption
<1>4. \A i, j \in 1..m : Sample[i] = Sample[j] => i = j
  BY <1>1, <1>2, CorpusAssumption
<1>5. IsFiniteSet(ImageOf(Sample, m))
  <2>1. m \in Nat
    BY <1>1, CorpusAssumption
  <2>. QED
    BY <2>1, <1>3, <1>4, InjectiveImage
<1>6. SampleFiles = ImageOf(Sample, m)
  BY <1>3 DEF SampleFiles, ImageOf
<1>7. SampleFiles \subseteq Files
  BY <1>3, <1>6 DEF ImageOf
<1>. QED
  BY <1>1, <1>3, <1>4, <1>5, <1>6, <1>7

(* Splitting the sample after its k-th entry: the two parts hold every    *)
(* sampled file, share none, and the second repeats none.                  *)
LEMMA SplitSample ==
    ASSUME NEW k \in 0..Len(Sample)
    PROVE  LET q == SubSeq(Sample, k + 1, Len(Sample))
           IN  /\ q \in Seq(Files)
               /\ ImageOf(Sample, k) \cup Elems(q) = SampleFiles
               /\ ImageOf(Sample, k) \cap Elems(q) = {}
               /\ NoDup(q)
<1>. DEFINE q == SubSeq(Sample, k + 1, Len(Sample))
<1>1. /\ q \in Seq(Files)
      /\ DOMAIN q = 1..(Len(Sample) - k)
      /\ \A j \in DOMAIN q : q[j] = Sample[k + j]
  BY SampleFacts
<1>2. {Sample[i] : i \in 1..k} \cup {q[j] : j \in DOMAIN q} = SampleFiles
  <2>1. SampleFiles = {Sample[i] : i \in 1..Len(Sample)}
    BY SampleFacts DEF SampleFiles
  <2>2. ASSUME NEW i \in 1..Len(Sample)
        PROVE  Sample[i] \in {Sample[l] : l \in 1..k} \cup {q[j] : j \in DOMAIN q}
    <3>1. CASE i <= k
      BY <3>1
    <3>2. CASE i > k
      <4>1. i - k \in DOMAIN q /\ q[i - k] = Sample[i]
        BY <3>2, <1>1, SampleFacts
      <4>. QED
        BY <4>1
    <3>. QED
      BY <3>1, <3>2, SampleFacts
  <2>3. \A j \in DOMAIN q : q[j] \in SampleFiles
    <3>1. \A j \in DOMAIN q : k + j \in 1..Len(Sample)
      BY <1>1, SampleFacts
    <3>. QED
      BY <1>1, <3>1, <2>1
  <2>4. \A i \in 1..k : Sample[i] \in SampleFiles
    BY <2>1
  <2>. QED
    BY <2>1, <2>2, <2>3, <2>4
<1>3. {Sample[i] : i \in 1..k} \cap {q[j] : j \in DOMAIN q} = {}
  BY <1>1, SampleFacts
<1>4. \A i, j \in DOMAIN q : q[i] = q[j] => i = j
  BY <1>1, SampleFacts
<1>. QED
  BY <1>1, <1>2, <1>3, <1>4 DEF ImageOf, Elems, NoDup

(* The first n entries of a sequence without repetition are n files. *)
LEMMA PrefixImage ==
    ASSUME NEW S, NEW s \in Seq(S), NoDup(s), NEW n \in 0..Len(s)
    PROVE  IsFiniteSet(ImageOf(s, n)) /\ Cardinality(ImageOf(s, n)) = n
<1>. DEFINE h == [i \in 1..n |-> s[i]]
<1>1. h \in Bijection(1..n, ImageOf(s, n))
  BY DEF Bijection, Injection, Surjection, IsInjective, ImageOf, NoDup
<1>2. ExistsBijection(1..n, ImageOf(s, n))
  BY <1>1 DEF ExistsBijection
<1>3. IsFiniteSet(1..n) /\ Cardinality(1..n) = n
  BY FS_Interval
<1>. QED
  BY <1>2, <1>3, FS_Bijection

(* Popping the last entry of a sequence without repetition removes just  *)
(* that entry from its elements.                                          *)
LEMMA PopLast ==
    ASSUME NEW S, NEW s \in Seq(S), s # <<>>, NoDup(s)
    PROVE  LET r == SubSeq(s, 1, Len(s) - 1)
           IN  /\ r \in Seq(S)
               /\ NoDup(r)
               /\ Elems(s) = Elems(r) \cup {s[Len(s)]}
               /\ s[Len(s)] \notin Elems(r)
<1>. DEFINE r == SubSeq(s, 1, Len(s) - 1)
<1>1. /\ Len(s) \in Nat \ {0}
      /\ r \in Seq(S)
      /\ DOMAIN r = 1..(Len(s) - 1)
      /\ \A i \in DOMAIN r : r[i] = s[i]
  OBVIOUS
<1>2. NoDup(r)
  BY <1>1 DEF NoDup
<1>3. Elems(s) = Elems(r) \cup {s[Len(s)]}
  <2>1. ASSUME NEW i \in DOMAIN s PROVE s[i] \in Elems(r) \cup {s[Len(s)]}
    <3>1. CASE i = Len(s)
      BY <3>1
    <3>2. CASE i # Len(s)
      <4>1. i \in DOMAIN r /\ r[i] = s[i]
        BY <1>1, <3>2
      <4>. QED
        BY <4>1 DEF Elems
    <3>. QED
      BY <3>1, <3>2
  <2>2. Elems(r) \subseteq Elems(s)
    BY <1>1 DEF Elems
  <2>3. s[Len(s)] \in Elems(s)
    BY <1>1 DEF Elems
  <2>. QED
    BY <2>1, <2>2, <2>3 DEF Elems
<1>4. s[Len(s)] \notin Elems(r)
  BY <1>1 DEF Elems, NoDup
<1>. QED
  BY <1>1, <1>2, <1>3, <1>4

-----------------------------------------------------------------------------
LEMMA InitCorpusInv == CInit => CorpusInv
<1>. SUFFICES ASSUME CInit PROVE CorpusInv
  OBVIOUS
<1>1. TypeInv
  BY InitTypeInv DEF CInit
<1>2. started = {} /\ queueFiles = <<>> /\ fileOpened = 0 /\ listed = FALSE /\ alive = TRUE
  BY DEF CInit
<1>3. {f \in started : stage[f] # "done"} = {}
  BY <1>2
<1>4. SlotAccounting
  BY <1>2, <1>3, FS_EmptySet, BoundsAssumption DEF SlotAccounting
<1>5. Untouched
  BY DEF CInit, Init, Untouched
<1>6. CorpusPartition /\ WorkConserving
  BY <1>2 DEF CorpusPartition, WorkConserving
<1>7. queueFiles \in Seq(Files) /\ fileOpened \in Nat /\ started \subseteq Files
  BY <1>2
<1>. QED
  BY <1>1, <1>2, <1>4, <1>5, <1>6, <1>7 DEF CorpusInv
-----------------------------------------------------------------------------
(* A step of store() for f is a step of MailStorage: it keeps TypeInv and  *)
(* moves no other delivery.                                                *)
LEMMA FileMoves ==
    ASSUME TypeInv, NEW f \in Files, StoreStep(f)
    PROVE  /\ TypeInv'
           /\ \A g \in Files \ {f} : stage'[g] = stage[g]
<1>1. [Next]_msVars
  BY DEF Next
<1>. QED
  BY <1>1, NextTypeInv, OthersUnchanged

(* The callbacks of store() other than search.add neither start from nor  *)
(* reach "done".                                                          *)
LEMMA NotDone ==
    ASSUME TypeInv, NEW f \in Files,
           Deliver(f) \/ BucketSaved(f) \/ RecordSaved(f)
    PROVE  stage[f] # "done" /\ stage'[f] # "done"
BY DEF Deliver, DeliverNoFrom, DeliverWithId, DeliverWithUuid, BucketSaved,
       RecordSaved, TypeInv, TypeOK

(* A callback of f that leaves the queue, the slots and the started files  *)
(* alone, and does not finish f, keeps the invariant.                     *)
LEMMA InProcessStep ==
    ASSUME CorpusInv, NEW f \in Files, f \in started, alive,
           StoreStep(f), stage[f] # "done", stage'[f] # "done",
           alive' = (stage'[f] \notin Dead), UNCHANGED dispatchVars
    PROVE  CorpusInv'
<1>1. TypeInv' /\ \A g \in Files \ {f} : stage'[g] = stage[g]
  BY FileMoves DEF CorpusInv
<1>2. Open' = Open
  <2>1. started' = started /\ started \subseteq Files
    BY DEF CorpusInv, dispatchVars
  <2>2. \A g \in started : (stage'[g] # "done") <=> (stage[g] # "done")
    BY <1>1, <2>1
  <2>. QED
    BY <2>1, <2>2 DEF Open
<1>3. Untouched'
  BY <1>1 DEF CorpusInv, Untouched, dispatchVars
<1>4. CorpusPartition' /\ WorkConserving'
  BY DEF CorpusInv, CorpusPartition, Queued, WorkConserving, dispatchVars
<1>5. SlotAccounting'
  BY <1>2 DEF CorpusInv, SlotAccounting, Open, dispatchVars
<1>. QED
  BY <1>1, <1>3, <1>4, <1>5 DEF CorpusInv, dispatchVars
(* Counting the open files: finitely many, and f among them while its     *)
(* search.add is pending.                                                 *)
LEMMA OpenFinite ==
    ASSUME CorpusInv
    PROVE  /\ IsFiniteSet(Open)
           /\ Cardinality(Open) \in Nat
<1>1. started \subseteq SampleFiles
  BY DEF CorpusInv, CorpusPartition
<1>2. Open \subseteq SampleFiles
  BY <1>1 DEF Open
<1>3. IsFiniteSet(Open)
  BY <1>2, SampleFacts, FS_Subset
<1>. QED
  BY <1>3, FS_CardinalityType

(* SlotAccounting, with the open files named. *)
LEMMA SlotAccountingOpen ==
    SlotAccounting <=> (alive => fileOpened = Cardinality(Open) /\ fileOpened <= MaxOpenFile)
BY DEF SlotAccounting, Open

(* store()'s callback for f: the slot is freed and processNewMail pops    *)
(* the last queued file, if any, into it.                                 *)
LEMMA StoredStep ==
    ASSUME CorpusInv, NEW f \in Files, Stored(f)
    PROVE  CorpusInv'
<1>. DEFINE q == queueFiles
            n == Len(queueFiles)
            r == SubSeq(queueFiles, 1, Len(queueFiles) - 1)
<1>1. /\ alive /\ f \in started /\ stage[f] = "index" /\ stage'[f] = "done"
      /\ listed' = listed /\ alive' = alive
  BY DEF Stored, Indexed
<1>2. TypeInv' /\ \A g \in Files \ {f} : stage'[g] = stage[g]
  BY <1>1, FileMoves DEF Stored, StoreStep, CorpusInv
<1>3. /\ listed = TRUE
      /\ started \cup Elems(q) = SampleFiles
      /\ started \cap Elems(q) = {}
      /\ NoDup(q)
  BY <1>1 DEF CorpusInv, CorpusPartition, Queued, Elems, NoDup
<1>4. q \in Seq(Files) /\ fileOpened \in Nat /\ started \subseteq Files
  BY DEF CorpusInv
<1>5. /\ IsFiniteSet(Open) /\ Cardinality(Open) \in Nat
      /\ fileOpened = Cardinality(Open) /\ fileOpened <= MaxOpenFile
      /\ f \in Open
  <2>1. IsFiniteSet(Open) /\ Cardinality(Open) \in Nat
    BY OpenFinite
  <2>2. fileOpened = Cardinality(Open) /\ fileOpened <= MaxOpenFile
    BY <1>1, SlotAccountingOpen DEF CorpusInv
  <2>3. f \in Open
    BY <1>1 DEF Open
  <2>. QED
    BY <2>1, <2>2, <2>3
<1>6. /\ IsFiniteSet(Open \ {f})
      /\ Cardinality(Open \ {f}) = fileOpened - 1
      /\ fileOpened - 1 \in Nat
  <2>1. IsFiniteSet(Open \ {f}) /\ Cardinality(Open \ {f}) = Cardinality(Open) - 1
    BY <1>5, FS_RemoveElement
  <2>2. Cardinality(Open \ {f}) \in Nat
    BY <2>1, FS_CardinalityType
  <2>. QED
    BY <1>5, <2>1, <2>2
<1>7. CASE q # <<>> /\ fileOpened - 1 < MaxOpenFile
  <2>. DEFINE g == q[n]
  <2>1. /\ fileOpened' = fileOpened
        /\ started' = started \cup {g}
        /\ queueFiles' = r
    BY <1>4, <1>7 DEF Stored, ProcessNewMail
  <2>2. /\ r \in Seq(Files) /\ NoDup(r)
        /\ Elems(q) = Elems(r) \cup {g}
        /\ g \notin Elems(r)
    BY <1>3, <1>4, <1>7, PopLast
  <2>3. g \in Files /\ g \notin started /\ g # f /\ stage'[g] = "pending"
    <3>1. g \in Elems(q)
      BY <2>2
    <3>2. g \in Files /\ g \notin started
      BY <1>3, <1>4, <3>1, SampleFacts
    <3>. QED
      BY <1>1, <1>2, <3>2 DEF CorpusInv, Untouched
  <2>4. Open' = (Open \ {f}) \cup {g}
    BY <1>1, <1>2, <1>4, <2>1, <2>3 DEF Open
  <2>5. g \notin Open \ {f}
    BY <2>3 DEF Open
  <2>6. Cardinality(Open') = fileOpened
    <3>1. Cardinality((Open \ {f}) \cup {g}) = Cardinality(Open \ {f}) + 1
      BY <1>6, <2>5, FS_AddElement
    <3>. QED
      BY <1>4, <1>6, <2>4, <3>1
  <2>7. SlotAccounting'
    <3>1. SlotAccounting' <=> (alive' => fileOpened' = Cardinality(Open')
                                         /\ fileOpened' <= MaxOpenFile)
      BY DEF SlotAccounting, Open
    <3>. QED
      BY <1>5, <2>1, <2>6, <3>1
  <2>8. WorkConserving'
    BY <1>1, <1>7, <2>1 DEF CorpusInv, WorkConserving
  <2>9. CorpusPartition'
    <3>1. started' \cup Elems(r) = SampleFiles
      BY <1>3, <2>1, <2>2
    <3>2. started' \cap Elems(r) = {}
      BY <1>3, <2>1, <2>2
    <3>. QED
      BY <1>1, <1>3, <2>1, <2>2, <3>1, <3>2 DEF CorpusPartition, Queued, Elems, NoDup
  <2>10. Untouched'
    BY <1>1, <1>2, <2>1 DEF CorpusInv, Untouched
  <2>. QED
    BY <1>1, <1>2, <1>3, <1>4, <2>1, <2>2, <2>3, <2>7, <2>8, <2>9, <2>10
       DEF CorpusInv
<1>8. CASE ~(q # <<>> /\ fileOpened - 1 < MaxOpenFile)
  <2>1. /\ fileOpened' = fileOpened - 1
        /\ UNCHANGED <<started, queueFiles>>
    BY <1>8 DEF Stored, ProcessNewMail
  <2>2. q = <<>>
    BY <1>1, <1>4, <1>5, <1>8, BoundsAssumption DEF CorpusInv, WorkConserving
  <2>3. Open' = Open \ {f}
    BY <1>1, <1>2, <1>4, <2>1 DEF Open
  <2>4. SlotAccounting'
    <3>1. SlotAccounting' <=> (alive' => fileOpened' = Cardinality(Open')
                                         /\ fileOpened' <= MaxOpenFile)
      BY DEF SlotAccounting, Open
    <3>2. fileOpened' = Cardinality(Open')
      BY <1>6, <2>1, <2>3
    <3>3. fileOpened' <= MaxOpenFile
      BY <1>4, <1>5, <2>1, BoundsAssumption
    <3>. QED
      BY <3>1, <3>2, <3>3
  <2>5. WorkConserving' /\ CorpusPartition'
    BY <1>1, <2>1, <2>2 DEF CorpusInv, WorkConserving, CorpusPartition, Queued
  <2>6. Untouched'
    BY <1>1, <1>2, <2>1 DEF CorpusInv, Untouched
  <2>. QED
    BY <1>1, <1>2, <1>4, <1>6, <2>1, <2>4, <2>5, <2>6 DEF CorpusInv
<1>. QED
  BY <1>7, <1>8
(* The readdir callback starts the first MinOf(Len(Sample), MaxOpenFile)  *)
(* sampled files, one slot each, and queues the rest in listing order.    *)
LEMMA ReadDirStep ==
    ASSUME CorpusInv, ReadDir
    PROVE  CorpusInv'
<1>. DEFINE L == Len(Sample)
            k == MinOf(Len(Sample), MaxOpenFile)
            q == SubSeq(Sample, k + 1, Len(Sample))
<1>1. /\ alive /\ listed = FALSE /\ listed' = TRUE /\ alive' = alive
      /\ started' = ImageOf(Sample, k)
      /\ fileOpened' = k
      /\ queueFiles' = q
      /\ UNCHANGED msVars
  BY DEF ReadDir, ImageOf, CorpusInv
<1>2. started = {}
  BY <1>1 DEF CorpusInv, CorpusPartition
<1>3. /\ k \in 0..L
      /\ k <= MaxOpenFile
      /\ k < L => k = MaxOpenFile
  <2>1. L \in Nat /\ MaxOpenFile \in Nat
    BY SampleFacts, BoundsAssumption
  <2>. QED
    BY <2>1 DEF MinOf
<1>4. /\ q \in Seq(Files)
      /\ ImageOf(Sample, k) \cup Elems(q) = SampleFiles
      /\ ImageOf(Sample, k) \cap Elems(q) = {}
      /\ NoDup(q)
  BY <1>3, SplitSample
<1>5. /\ IsFiniteSet(ImageOf(Sample, k))
      /\ Cardinality(ImageOf(Sample, k)) = k
  <2>1. Sample \in Seq(Files) /\ NoDup(Sample)
    BY SampleFacts DEF NoDup
  <2>. QED
    BY <1>3, <2>1, PrefixImage
<1>7. ImageOf(Sample, k) \subseteq Files
  BY <1>4, SampleFacts
<1>8. \A g \in Files : stage'[g] = "pending"
  BY <1>1, <1>2 DEF CorpusInv, Untouched, msVars
<1>9. Open' = ImageOf(Sample, k)
  BY <1>1, <1>7, <1>8 DEF Open
<1>10. SlotAccounting'
  <2>1. SlotAccounting' <=> (alive' => fileOpened' = Cardinality(Open')
                                       /\ fileOpened' <= MaxOpenFile)
    BY DEF SlotAccounting, Open
  <2>. QED
    BY <1>1, <1>3, <1>5, <1>9, <2>1
<1>11. WorkConserving'
  <2>1. q # <<>> => k < L
    BY <1>3, SampleFacts
  <2>. QED
    BY <1>1, <1>3, <2>1 DEF WorkConserving
<1>12. CorpusPartition'
  BY <1>1, <1>4 DEF CorpusPartition, Queued, Elems, NoDup
<1>13. Untouched'
  BY <1>8 DEF Untouched
<1>14. TypeInv'
  BY <1>1 DEF CorpusInv, TypeInv, TypeOK, IdAssigned, msVars
<1>. QED
  BY <1>1, <1>3, <1>4, <1>7, <1>10, <1>11, <1>12, <1>13, <1>14 DEF CorpusInv
-----------------------------------------------------------------------------
LEMMA NextCorpusInv == CorpusInv /\ [CNext]_vars => CorpusInv'
<1> SUFFICES ASSUME CorpusInv, [CNext]_vars PROVE CorpusInv'
  OBVIOUS
<1>1. CASE UNCHANGED vars
  BY <1>1 DEF vars, msVars, dispatchVars, CorpusInv, TypeInv, TypeOK,
              IdAssigned, Untouched, CorpusPartition, Queued, SlotAccounting,
              WorkConserving
<1>2. CASE ReadDir
  BY <1>2, ReadDirStep
<1>3. CASE ReadDirFailed
  BY <1>3 DEF ReadDirFailed, msVars, dispatchVars, CorpusInv, TypeInv,
              TypeOK, IdAssigned, Untouched, CorpusPartition, Queued,
              SlotAccounting, WorkConserving
<1>4. ASSUME NEW f \in Files,
             Parsed(f) \/ BucketSavedC(f) \/ RecordSavedC(f) \/ IndexFailedC(f)
      PROVE  CorpusInv'
  <2>1. /\ f \in started /\ alive
        /\ alive' = (stage'[f] \notin Dead)
        /\ UNCHANGED dispatchVars
        /\ StoreStep(f)
    BY <1>4 DEF Parsed, BucketSavedC, RecordSavedC, IndexFailedC, InProcess,
                StoreStep
  <2>2. stage[f] # "done" /\ stage'[f] # "done"
    <3>1. CASE IndexFailedC(f)
      BY <3>1 DEF IndexFailedC, InProcess, Indexed
    <3>2. CASE ~IndexFailedC(f)
      <4>1. Deliver(f) \/ BucketSaved(f) \/ RecordSaved(f)
        BY <1>4, <3>2 DEF Parsed, BucketSavedC, RecordSavedC, InProcess
      <4>. QED
        BY <4>1, NotDone DEF CorpusInv
    <3>. QED
      BY <3>1, <3>2
  <2>. QED
    BY <2>1, <2>2, InProcessStep
<1>5. ASSUME NEW f \in Files, Stored(f) PROVE CorpusInv'
  BY <1>5, StoredStep
<1>. QED
  BY <1>1, <1>2, <1>3, <1>4, <1>5 DEF CNext, FileStep

(* The slot counter of storeCorpus.js counts exactly the files started    *)
(* and not yet called back and stays within maxOpenFile, whatever the     *)
(* corpus, maxSample and maxOpenFile, and whatever store() fails on.       *)
THEOREM SlotSafety == CSpec => []SlotAccounting
<1>1. CorpusInv => SlotAccounting
  BY DEF CorpusInv
<1>. QED
  BY <1>1, InitCorpusInv, NextCorpusInv, PTL DEF CSpec

(* No slot stays idle while a path waits in queueFiles: the store()       *)
(* callback that frees a slot refills it in the same event.               *)
THEOREM NoIdleSlot == CSpec => []WorkConserving
<1>1. CorpusInv => WorkConserving
  BY DEF CorpusInv
<1>. QED
  BY <1>1, InitCorpusInv, NextCorpusInv, PTL DEF CSpec

(* The push and pop of the newMail and processNewMail handlers lose no     *)
(* sampled file and start none twice, for every corpus and bound.          *)
THEOREM QueueSafety == CSpec => []CorpusPartition
<1>1. CorpusInv => CorpusPartition
  BY DEF CorpusInv
<1>. QED
  BY <1>1, InitCorpusInv, NextCorpusInv, PTL DEF CSpec

(* The dispatcher's state is well typed: the queue is a sequence of files *)
(* and the slot counter a natural number, never negative.                 *)
THEOREM CorpusTyped == CSpec => []CorpusTypeOK
<1>1. CorpusInv => CorpusTypeOK
  BY DEF CorpusInv, CorpusTypeOK, TypeInv
<1>. QED
  BY <1>1, InitCorpusInv, NextCorpusInv, PTL DEF CSpec

-----------------------------------------------------------------------------
(* Refinement of FilePool.  The queued paths are the waiting files, and   *)
(* Queued is the set of the queue's elements.                             *)
LEMMA QueuedElems == Queued = Elems(queueFiles)
BY DEF Queued, Elems

(* FilePool counts with its own instance of FiniteSets' Cardinality. *)
LEMMA PoolCardinality == \A S : Pool!Cardinality(S) = Cardinality(S)
BY DEF Pool!Cardinality, Cardinality

(* The empty sequence has no elements. *)
LEMMA ElemsEmpty == Elems(<<>>) = {}
BY DEF Elems

LEMMA InitRefinesPool == CInit => Pool!Init
BY DEF CInit, Init, Pool!Init, Queued, Open

(* The readdir callback is the pool's List step. *)
LEMMA ReadDirRefines ==
    ASSUME CorpusInv, ReadDir
    PROVE  Pool!List
<1>. DEFINE L == Len(Sample)
            k == MinOf(Len(Sample), MaxOpenFile)
            q == SubSeq(Sample, k + 1, Len(Sample))
            R == ImageOf(Sample, k)
<1>1. /\ alive /\ listed = FALSE /\ listed' = TRUE /\ alive' = alive
      /\ started' = R /\ queueFiles' = q /\ UNCHANGED msVars
  BY DEF ReadDir, ImageOf
<1>2. started = {}
  BY <1>1 DEF CorpusInv, CorpusPartition
<1>3. /\ k \in 0..L
      /\ k <= MaxOpenFile
      /\ k < L => k = MaxOpenFile
  <2>1. L \in Nat /\ MaxOpenFile \in Nat
    BY SampleFacts, BoundsAssumption
  <2>. QED
    BY <2>1 DEF MinOf
<1>4. /\ q \in Seq(Files)
      /\ R \cup Elems(q) = SampleFiles
      /\ R \cap Elems(q) = {}
  BY <1>3, SplitSample
<1>5. Cardinality(R) = k
  <2>1. Sample \in Seq(Files) /\ NoDup(Sample)
    BY SampleFacts DEF NoDup
  <2>. QED
    BY <1>3, <2>1, PrefixImage
<1>6. Open' = R
  <2>1. R \subseteq Files
    BY <1>4, SampleFacts
  <2>2. \A g \in Files : stage'[g] = "pending"
    BY <1>1, <1>2 DEF CorpusInv, Untouched, msVars
  <2>. QED
    BY <1>1, <2>1, <2>2 DEF Open
<1>7. Queued' = SampleFiles \ R
  <2>1. Queued' = Elems(q)
    BY <1>1 DEF Queued, Elems
  <2>2. Elems(q) = SampleFiles \ R
    BY <1>4
  <2>. QED
    BY <2>1, <2>2
<1>8. R # SampleFiles => Cardinality(R) = MaxOpenFile
  <2>1. R # SampleFiles => q # <<>>
    <3>1. R # SampleFiles => Elems(q) # {}
      BY <1>4
    <3>. QED
      BY <3>1, ElemsEmpty
  <2>2. q # <<>> => k < L
    BY <1>3, SampleFacts
  <2>. QED
    BY <1>3, <1>5, <2>1, <2>2
<1>9. R \in SUBSET SampleFiles
  BY <1>4
<1>10. \E RR \in SUBSET SampleFiles :
          /\ Cardinality(RR) <= MaxOpenFile
          /\ RR # SampleFiles => Cardinality(RR) = MaxOpenFile
          /\ Open' = RR
          /\ Queued' = SampleFiles \ RR
  BY <1>3, <1>5, <1>6, <1>7, <1>8, <1>9
<1>. QED
  BY <1>1, <1>10, PoolCardinality DEF Pool!List

(* A callback of store() that does not complete its file leaves the pool  *)
(* alone, or halts it when it ends the process.                           *)
LEMMA InProcessRefines ==
    ASSUME CorpusInv, NEW f \in Files, f \in started, alive,
           StoreStep(f), stage[f] # "done", stage'[f] # "done",
           alive' = (stage'[f] \notin Dead), UNCHANGED dispatchVars
    PROVE  Pool!Halt \/ UNCHANGED Pool!poolVars
<1>1. \A g \in Files \ {f} : stage'[g] = stage[g]
  BY FileMoves DEF CorpusInv
<1>2. Open' = Open
  <2>1. started' = started /\ started \subseteq Files
    BY DEF CorpusInv, dispatchVars
  <2>. QED
    BY <1>1, <2>1 DEF Open
<1>3. Queued' = Queued /\ listed' = listed
  BY DEF dispatchVars, Queued
<1>4. alive' \in BOOLEAN
  OBVIOUS
<1>. QED
  BY <1>2, <1>3, <1>4 DEF Pool!Halt, Pool!poolVars


(* store()'s callback for f is the pool's Finish(f): its slot goes to the *)
(* last queued file, the one processNewMail pops, whenever one waits.     *)
LEMMA StoredRefines ==
    ASSUME CorpusInv, NEW f \in Files, Stored(f)
    PROVE  f \in SampleFiles /\ Pool!Finish(f)
<1>. DEFINE q == queueFiles
            n == Len(queueFiles)
            r == SubSeq(queueFiles, 1, Len(queueFiles) - 1)
<1>1. /\ alive /\ f \in started /\ stage[f] = "index" /\ stage'[f] = "done"
      /\ listed' = listed /\ alive' = alive
  BY DEF Stored, Indexed
<1>2. \A g \in Files \ {f} : stage'[g] = stage[g]
  BY <1>1, FileMoves DEF Stored, StoreStep, CorpusInv
<1>3. /\ listed = TRUE
      /\ started \cup Elems(q) = SampleFiles
      /\ started \cap Elems(q) = {}
      /\ NoDup(q)
  BY <1>1 DEF CorpusInv, CorpusPartition, Queued, Elems, NoDup
<1>4. q \in Seq(Files) /\ fileOpened \in Nat /\ started \subseteq Files
  BY DEF CorpusInv
<1>5. fileOpened - 1 < MaxOpenFile
  <2>1. fileOpened <= MaxOpenFile
    BY <1>1, SlotAccountingOpen DEF CorpusInv
  <2>. QED
    BY <1>4, <2>1, BoundsAssumption
<1>6. f \in Open /\ f \in SampleFiles
  BY <1>1, <1>3 DEF Open
<1>7. CASE q # <<>>
  <2>. DEFINE g == q[n]
  <2>1. started' = started \cup {g} /\ queueFiles' = r
    BY <1>4, <1>5, <1>7 DEF Stored, ProcessNewMail
  <2>2. Elems(q) = Elems(r) \cup {g} /\ g \notin Elems(r)
    BY <1>3, <1>4, <1>7, PopLast
  <2>3. g \in Files /\ g \notin started /\ g # f /\ stage'[g] = "pending"
    <3>1. g \in Elems(q) /\ g \in SampleFiles
      BY <1>3, <2>2
    <3>2. g \in Files /\ g \notin started
      BY <1>3, <3>1, SampleFacts
    <3>. QED
      BY <1>1, <1>2, <3>2 DEF CorpusInv, Untouched
  <2>4. Open' = (Open \ {f}) \cup {g}
    BY <1>1, <1>2, <1>4, <2>1, <2>3 DEF Open
  <2>5. Queued' = Queued \ {g} /\ g \in Queued
    <3>1. Queued' = Elems(r)
      BY <2>1 DEF Queued, Elems
    <3>2. Queued = Elems(q)
      BY QueuedElems
    <3>. QED
      BY <2>2, <3>1, <3>2
  <2>. QED
    BY <1>1, <1>6, <2>4, <2>5 DEF Pool!Finish
<1>8. CASE q = <<>>
  <2>1. UNCHANGED <<started, queueFiles>>
    BY <1>8 DEF Stored, ProcessNewMail
  <2>2. Queued = {} /\ Queued' = Queued
    BY <1>8, <2>1, QueuedElems, ElemsEmpty DEF Queued
  <2>3. Open' = Open \ {f}
    BY <1>1, <1>2, <1>4, <2>1 DEF Open
  <2>. QED
    BY <1>1, <1>6, <2>2, <2>3 DEF Pool!Finish
<1>. QED
  BY <1>6, <1>7, <1>8


LEMMA NextRefinesPool ==
    CorpusInv /\ [CNext]_vars => [Pool!Next]_Pool!poolVars
<1> SUFFICES ASSUME CorpusInv, [CNext]_vars
             PROVE  [Pool!Next]_Pool!poolVars
  OBVIOUS
<1>1. CASE UNCHANGED vars
  BY <1>1 DEF vars, msVars, dispatchVars, Pool!poolVars, Open, Queued
<1>2. CASE ReadDir
  BY <1>2, ReadDirRefines DEF Pool!Next
<1>3. CASE ReadDirFailed
  <2>1. alive /\ alive' = FALSE /\ UNCHANGED <<msVars, dispatchVars>>
    BY <1>3 DEF ReadDirFailed
  <2>2. Open' = Open /\ Queued' = Queued /\ listed' = listed
    BY <2>1 DEF msVars, dispatchVars, Open, Queued
  <2>. QED
    BY <2>1, <2>2 DEF Pool!Next, Pool!Halt
<1>4. ASSUME NEW f \in Files,
             Parsed(f) \/ BucketSavedC(f) \/ RecordSavedC(f) \/ IndexFailedC(f)
      PROVE  [Pool!Next]_Pool!poolVars
  <2>1. /\ f \in started /\ alive
        /\ alive' = (stage'[f] \notin Dead)
        /\ UNCHANGED dispatchVars
        /\ StoreStep(f)
    BY <1>4 DEF Parsed, BucketSavedC, RecordSavedC, IndexFailedC, InProcess,
                StoreStep
  <2>2. stage[f] # "done" /\ stage'[f] # "done"
    <3>1. CASE IndexFailedC(f)
      BY <3>1 DEF IndexFailedC, InProcess, Indexed
    <3>2. CASE ~IndexFailedC(f)
      <4>1. Deliver(f) \/ BucketSaved(f) \/ RecordSaved(f)
        BY <1>4, <3>2 DEF Parsed, BucketSavedC, RecordSavedC, InProcess
      <4>. QED
        BY <4>1, NotDone DEF CorpusInv
    <3>. QED
      BY <3>1, <3>2
  <2>3. Pool!Halt \/ UNCHANGED Pool!poolVars
    BY <2>1, <2>2, InProcessRefines
  <2>. QED
    BY <2>3 DEF Pool!Next
<1>5. ASSUME NEW f \in Files, Stored(f) PROVE Pool!Next
  BY <1>5, StoredRefines DEF Pool!Next
<1>. QED
  BY <1>1, <1>2, <1>3, <1>4, <1>5 DEF CNext, FileStep

(* The LIFO queue and slot counter of storeCorpus.js implement the        *)
(* bounded, work-conserving file pool of module FilePool, for every       *)
(* corpus, maxSample and maxOpenFile and under every failure of store():  *)
(* readdir starts as many sampled files as fit and queues the rest, each  *)
(* store() callback hands its slot to a queued file when one waits, and   *)
(* a failure halts the pool.                                              *)
THEOREM PoolRefinement == CSpec => ImplementsPool
<1>1. CInit => CorpusInv /\ Pool!Init
  BY InitCorpusInv, InitRefinesPool
<1>2. CorpusInv /\ [CNext]_vars => CorpusInv'
  BY NextCorpusInv
<1>3. CorpusInv /\ [CNext]_vars => [Pool!Next]_Pool!poolVars
  BY NextRefinesPool
<1>. QED
  BY <1>1, <1>2, <1>3, PTL DEF CSpec, ImplementsPool, Pool!Spec

=============================================================================
