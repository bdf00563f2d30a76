# Formal model of the tmail ingestion pipeline

TLA+ modules, TLC configurations and TLAPS proofs for the mail ingestion code of
this repository. The core is `MailStorage.store` (`src/node/bin/mailstorage.js`),
which writes a record and then an index entry to Riak. Two drivers call it: the
qmail delivery agent `src/node/tools/addMail.js`, and the corpus replay tool
`src/archives/node/tools/storeCorpus.js`.

## 1. Inventory

| Component | Source | State it changes | Operations |
|---|---|---|---|
| Store Coordinator | `src/node/bin/mailstorage.js` | Riak bucket `<to>.inbox` (records), its search index | `store()`: build the record and the index document; `saveBucket` (search:false); `save`; `search.add`. Each Riak call has a callback. |
| Identity Resolver | `mailstorage.js` 72-78, 133-134 | the mail's `msgId` | `substr(1, len-2)` of the Message-Id header, or `uuid.v1()`. The key is `sha1(msgId)`. |
| Metadata Normalizer | `mailstorage.js` 48-117 | record fields | from, to (hard-coded), subject default `no_subject`, date, labels, threadIndex, prev/next, seen |
| Text Extractor / Tokenizer | `mailstorage.js` 144-196 | the index document | text or html-stripped text; lower-case; character-range replacements; split; length filters |
| Attachment Projector | `lda.js`, `tmail-queue.js` (commented out in `mailstorage.js`) | attachments | delete `att.stream`, JSON-encode the content |
| qmail LDA | `src/node/tools/addMail.js` | one process per delivery | parser `end` calls `store()`. A throw gives a non-zero exit, and qmail retries. `process.exit(0)` counts as delivered. |
| Corpus replay | `src/archives/node/tools/storeCorpus.js` | `queueFiles`, `fileOpened` | `readdir` callback, `newMail`, `processNewMail`, `store()` callback |
| Archived LDA | `src/archives/node/smtp/lda.js` | as `store()`, with every error ignored | parser `end` (recipient, msgId, sha256 key); `saveBucket` → `save` → `search.add`, always exit 0 |
| deleteBucket | `src/archives/node/tools/deleteBucket.js` | removes index entries, then records | `saveBucket`; streamed `keys`; per key `search.remove`, then `riak.remove` from its callback |
| listBucket, walkBucket, search, imapFetcher, tmail-queue | various | nothing (they print) | |

### How the parts interact

- **Separate deliveries.** Each qmail delivery is its own Node process. Deliveries share only Riak, and two deliveries of one Message-Id write the same key.
- **Within one process.** Node runs one callback at a time. `EventEmitter.emit` is synchronous, so a callback together with the handlers it emits is one atomic step.
- **In storeCorpus.** All files share one process. A throw in any callback, or `process.exit(0)`, ends every file.

### Behaviours that make the code hard to test

- **Partial failure between the two writes.** A save may fail after Riak applied it, for example on a timeout. `search.add` must not run when the record is missing.
- **Retries.** qmail retries a delivery after a non-zero exit. A mail without Message-Id gets a fresh uuid on each attempt.
- **Racing deliveries.** Two deliveries can race on one key.
- **Index failure.** It ends the process with status 0, which qmail counts as delivered. In storeCorpus it stops every other file.
- **Slot accounting.** The slot counter in storeCorpus must stay correct, and the LIFO push/pop must not lose or repeat a file.

## 2. Modules and correspondence to the code

### `MailStorage.tla`: the store coordinator, with concurrent deliveries

- **Constants.**
  - `Files`: the deliveries.
  - `Mail[f]`, abstracted to:
    - whether it has a From header;
    - the Message-Id header as a character sequence;
    - the subject kind (absent, blank, text);
    - whether the tokenised text is non-empty.
  - `Uuids`: the values `uuid.v1()` may return.
  - `Faults`: which Riak calls may fail.
- **Variables.**
  - `stage[f]`: where in `store()` delivery `f` is:
    - `pending`;
    - waiting on `bucket`, `record` or `index`;
    - `done`;
    - `crashed`: threw, so the exit status is non-zero;
    - `exited`: `process.exit(0)`.
  - `msgId[f]`.
  - `issued`: the uuids already returned.
  - `records[k]` and `index[k]`, for each key `k = sha1(id)`.
- **Actions.** There is one per callback:
  - `DeliverNoFrom`: the TypeError at line 48.
  - `DeliverWithId` and `DeliverWithUuid`: `store()` up to `saveBucket`, lines 43-138.
  - `BucketSaved`.
  - `RecordSaved`. On error, the write is applied or not, and the callback throws.
  - `Indexed`. On error, the write is applied or not, and the process exits 0.
  - `Retry`: qmail re-runs a crashed delivery from scratch. This action is modelled from the spec, because qmail is not in `src/`.
- **Data abstraction.**
  - `sha1` is an injective tagging `Digest(id)`.
  - The record is `[file, msgId]`, which identifies which mail was stored under a key.
  - The index document keeps its id, its file, and whether it has text and a subject.

### `StoreCorpus.tla`: the corpus replay, composed with MailStorage

It EXTENDS MailStorage.

- **Variables.** `queueFiles`, `fileOpened`, `started`, `listed`, `alive`.
- **Actions.**
  - `ReadDir`: the readdir callback, with its synchronous `newMail`/`processNewMail` cascade. The first `maxOpenFile` files start, and the rest stay queued in listing order.
  - `ReadDirFailed`.
  - `InProcess(f, A)`: wraps each MailStorage handler. The file must have been started and the process alive. A throw or exit ends the process.
  - `Stored`: store()'s callback. It frees a slot and emits `processNewMail`, which pops the last queued file.
- **Fairness.** `CFairness` is weak fairness on `ReadDir` and on each file's steps. Node's event loop runs every ready callback, and the model assumes Riak and the file system answer every request.

### `IndexText.tla`: the text extractor and tokenizer (TLC only)

Strings are sequences of UTF-16 code units below 256, where `toLowerCase` and the replacement ranges are exact. The module defines:

- `CandidateText`: lines 107-117. It takes the trimmed plain text, or else the HTML part's text. jquery is external, so that text comes from a constant set `Htmls`.
- `Trim`: `sanitize(x).trim()` with `\s` below 256.
- `ToLowerUnit` and `ReplaceUnit`: the five `replace` calls.
- `Split`: `split(' ')`, which keeps the empty words.
- `KeepTokens`: length > 2.
- `Join`.
- `IndexTextOf`: lines 149-196, including the five-unit floor.

The reference `RefText` is defined from positions instead: the maximal runs of non-separators, the long ones in order, with one space between two. The spec `ITSpec` picks a mail and builds its index text in one step. It uses RECURSIVE operators and SequencesExt, so it holds no theorems.

### `StoreContract.tla`: what the store coordinator promises

An abstract specification with no processes, callbacks or failures. Its state is the bucket's records, its index and `delivered[f]`, the key under which delivery `f` was acknowledged (the agent exited 0, so qmail dropped the message).

- `Put(k, r)`: a record is written under any key at any time.
- `Finish(f, k, d)`: delivery `f` is acknowledged under `k`, which must hold a record. Its index document `d` may be written under `k` in the same step.

MailStorage implements it: `Contract == INSTANCE StoreContract WITH delivered <- Acked`, where `Acked[f]` is `KeyOf(f)` once `stage[f]` is `done` or `exited`. `RecordSaved` maps to `Put` (or a stutter when the write failed and was not applied), `Indexed` to `Finish`, and every other step to a stutter. The run `ms_safety` checks `ImplementsContract == Contract!Spec`, and the theorem `Refinement` proves it.

### `FilePool.tla`: what the corpus dispatcher promises

An abstract specification with no queue order, slot counter or events. Its state is the files `waiting` and `running`, whether the listing is in (`listed`) and whether the pool has `halted`.

- `List`: the listing arrives. A set `R` of at most `MaxOpen` sampled files starts, and it is all of them unless it has exactly `MaxOpen`. The rest wait.
- `Finish(f)`: a running file finishes. If a file waits, one of them takes the slot in the same step.
- `Halt`: a failure stops the pool.

StoreCorpus implements it: `Pool == INSTANCE FilePool WITH Sampled <- SampleFiles, MaxOpen <- MaxOpenFile, waiting <- Queued, running <- Open, halted <- ~alive`, where `Open` is the files started and not `done`. `ReadDir` maps to `List`, `ReadDirFailed` to `Halt`, `Stored(f)` to `Finish(f)`, a file step that kills the process to `Halt`, and every other step to a stutter. The run `sc_safety` checks `ImplementsPool == Pool!Spec`, and the theorem `PoolRefinement` proves it.

### `DeleteBucket.tla`: the bucket deletion tool, composed with MailStorage

It EXTENDS MailStorage, so the deletion and the deliveries share `records` and `index`.

- **Variables.**
  - `delStage`: `start`, `listing` (the process runs), `crashed`.
  - `del[k]`: `none` (not listed), `index` or `record` (the `search.remove` or `riak.remove` callback is pending), `removed`.
- **Actions.**
  - `DelSaveBucket`: the `saveBucket` callback, line 22, starts the listing.
  - `KeysListed`: a `keys` event, lines 23-27. A nonempty batch of keys holding a record and not listed before gets its `search.remove` issued.
  - `IndexRemoved(k)`: lines 28-32. On success the index entry goes and `riak.remove` is issued. On an error (`unindex` fault) the removal may or may not have been applied, and the throw ends the process.
  - `RecordRemoved(k)`: lines 32-35. An error (`remove` fault) is only logged, and the record stays.
  - `IngestStep(f)`: a step of MailStorage's delivery `f` (an `addMail.js` process). With `Ingesting = FALSE` it runs only before the deletion starts, and the deletion starts only when no delivery is half-way.
- **Not modelled.** `search: true` switches on Riak's automatic indexing of saved objects. That indexing writes a document together with its record, so it cannot orphan one, and it is left out.
- **Fairness.** `DFairness` is weak fairness on each delivery's steps, on `DelSaveBucket` and `KeysListed`, and on each key's two callbacks. Node runs every callback whose answer has come, and the model assumes Riak answers each request. Fairness is per delivery: with a single `WF` on all deliveries, the retry loop of the mail without From would satisfy it while another delivery never finished.

### `LdaArchive.tla`: the archived delivery agent

It EXTENDS MailStorage and reuses its state, with two more variables: `misfiled`, the deliveries whose writes went to `undefined.inbox`, and the auxiliary `saveFailed`, the deliveries whose save callback received an error. Line 108 takes that `err` as an argument and never reads it; the variable only records it, so that a property can name it.

- `LDeliver(f)`: the parser's `end` handler, lines 34-106. `msgId` is the stripped Message-Id header, else a fresh uuid. There is no From check.
- `LBucketSaved(f)`: the `saveBucket` callback always issues `riak.save`.
- `LRecordSaved(f)`: the `save` callback. Under the `record` fault the callback may get an error (`Failed`). A save with no error was applied; a failed one may or may not have been. `search.add` is issued whatever the outcome.
- `LIndexed(f)`: the `search.add` callback. The delivery ends `done`, with exit status 0.
- `WriteTo`: a write goes to the recipient's inbox, or to `undefined.inbox` when `Recipient[f]` is FALSE (neither `RECIPIENT` nor To). The model does not see that bucket.
- `LIndexDocOf`: lda.js indexes `{id, text, subject}` with the subject as parsed, with no `no_subject` default.

sha256 is the injective `Digest`. Only `lda.js` writes in this model, so the key space is not shared with sha1.

### `MailStorageProofs.tla`, `StoreCorpusProofs.tla`, `DeleteBucketProofs.tla` and `LdaArchiveProofs.tla`: TLAPS proofs

The theorems of section 4.

## 3. Runs

| Run | Cfg | Expect | What it shows |
|---|---|---|---|
| ms_safety | `MC_MailStorage.cfg` | pass | Two copies of one Message-Id, a mail without Message-Id and a mail without From, under every Riak fault and with qmail retries. `TypeOK`, `NoMailLost` (a delivery that ended `done`/`exited` has its record) and `IndexImpliesRecord` (no index entry without a record) hold. |
| ms_index_match | `MS_IndexMatch.cfg` | violation | `IndexMatchesRecord`: two deliveries of one Message-Id interleave save/save/add/add, and the key keeps one mail's record and the other's index document. |
| ms_retry_dup | `MS_RetryDup.cfg` | violation | `OneKeyPerDelivery`: a save that failed but was applied, then a qmail retry with a new uuid, stores the mail twice. |
| ms_empty_id | `MS_EmptyId.cfg` | violation | `NoEmptyMsgId`: the header `<>` or a one-character header strips to the empty id. Spec §4.1 says this is MalformedIdentifier. |
| it_reference | `MC_IndexText.cfg` | pass | `MatchesReference`: for every plain text of up to 7 code units over {space, `.`, `a`, `È`, no-break space}, and two HTML texts, the code's index text equals the reference. |
| sc_safety | `SC_Safety.cfg` | pass | `SlotAccounting` (`fileOpened` = files started and not yet called back, ≤ maxOpenFile), `WorkConserving` (no idle slot while files wait) and `CorpusPartition` (every sampled file is started or queued, exactly once), under every fault. `ImplementsPool`: the dispatcher implements FilePool. |
| sc_liveness | `SC_Liveness.cfg` | pass | `EveryFileSettles` under `CFairness` with no faults. |
| db_safety | `DB_Safety.cfg` | pass | With deliveries stopped, the deletion under every fault of deliveries and deletion never leaves an index document without its record (`IndexImpliesRecord`). |
| db_liveness | `DB_Liveness.cfg` | pass | `BucketEmptied`: with deliveries stopped and no fault, under `DFairness`, the bucket ends with no record and no index document, for good. |
| db_race | `DB_Race.cfg` | violation | `IndexImpliesRecord` with deliveries running: f1 saves its record; the deletion lists the key and removes its index entry and record; then f1's `search.add` indexes a deleted record. The spec orders index-then-record deletion but says nothing of deletion during ingestion. |
| lda_lost | `LDA_Lost.cfg` | violation | `NoMailLost`: a failed save is ignored and the agent exits 0, so qmail drops an unstored mail (spec 4.5 step 3, §7 RecordWriteFailed). The same callback calls `search.add` anyway, which also indexes a key that has no record. |
| sc_index_exit | `SC_IndexExit.cfg` | violation | `EveryFileSettles` with index faults. `process.exit(0)` leaves the other files unstored, against spec §7. |

Each property of a passing run is shown to be sensitive to the code by a mutant
in `PROJECT.json`:
- the save callback ignoring its error, as `lda.js` does;
- the Message-Id left unstripped;
- a missing pop;
- an uncapped start;
- a missing emit (also `ImplementsPool`);
- a missing decrement;
- a double decrement;
- the save callback treating a failed write as done (`ImplementsContract`);
- the record removed before the index entry (`IndexImpliesRecord` in db_safety);
- the `search.remove` callback not going on to `riak.remove`.

### Bounds

- **MC_MailStorage.** Four deliveries:
  - `f1` and `f2` share Message-Id `<a>`, so they share a key. Their subjects and texts differ, so mixed record/index pairs are visible.
  - `f3` has no Message-Id and two uuids are available, which is enough for a retry to get a second key.
  - `f4` has no From.

  Three characters `<`, `>`, `a` are enough to build headers of length 0 to 3. All four faults are enabled.
- **MC_StoreCorpus.** Five files, `MaxSample = 4` and `MaxOpenFile = 2`. With these values:
  - the sample cut drops a file;
  - files start both from `readdir` and from a freed slot;
  - the LIFO pop is exercised;
  - the queue drains.

  Larger values repeat the same shapes.
- **MC_DeleteBucket and MC_LdaArchive.** They reuse MC_MailStorage's four mails. The shared key of `f1` and `f2` is where a deletion meets two deliveries. The mail without From keeps a delivery crashing and retrying while the deletion waits.
  - `DB_Safety` enables every fault of both sides.
  - `DB_Liveness` runs without faults: deleteBucket has no retry, so a failure leaves the bucket half deleted for good.
  - `LDA_Lost` gives every mail a recipient and enables the `record` fault only.
- **MC_IndexText.** All 390,624 plain texts of up to 7 code units over five units. Seven is the shortest length that holds two kept words (`aaa aaa`). The five units are a separator, a replaced punctuation mark, a letter, an accented capital (lowered, then replaced by `e`) and the no-break space. The HTML text adds longer runs of separators and an empty plain part.

## 4. Proofs

`MailStorageProofs.tla` proves, for all values of the constants under `MailAssumption`, `FaultsAssumption`, `UuidAssumption` and `NilAssumption`:

- **`TypeCorrect`: `Spec => []TypeOK`.** `TypeOK` alone is not inductive: `RecordSaved` writes at `KeyOf(f)`, which is in `Keys` only when `msgId[f]` is set. The inductive invariant `TypeInv` adds `IdAssigned`: every delivery past `pending` has a `msgId` in `Ids`.
- **`StoreSafety`: `Spec => [](NoMailLost /\ IndexImpliesRecord)`.** The inductive invariant `StoreInv` is `TypeInv` plus `RecordWritten`: a delivery at stage `index`, `done` or `exited` has a non-Nil record at its key. The argument has three parts:
  - records are never reset to Nil (lemma `NextRecordsGrow`);
  - `RecordSaved` writes the record before the stage moves to `index`;
  - `Indexed` writes the index only from stage `index`.

  Together these give both conjuncts.
- **`Refinement`: `Spec => ImplementsContract`.** The proof has two lemmas:
  - `InitRefines`: the initial states map to `Contract!Init`.
  - `NextRefines`: under `StoreInv`, every step maps to a `Contract!Next` step or a stutter.

  `RecordSaved` is a `Put` of `RecordOf(f)`, or a stutter when the failed write was not applied. `Indexed` is `Finish(f, KeyOf(f), IndexDocOf(f))`; its guard `records[KeyOf(f)] # Nil` is `RecordWritten` from `StoreInv`. `Acked` changes only in `Indexed`. This is the reason `StoreSafety`'s invariant is needed: without it, `Finish`'s guard cannot be discharged.

`StoreCorpusProofs.tla` proves, for every corpus, `maxSample` and `maxOpenFile` under `CorpusAssumption` and `BoundsAssumption` (and MailStorage's assumptions):

- **`SlotSafety`: `CSpec => []SlotAccounting`.**
- **`NoIdleSlot`: `CSpec => []WorkConserving`.**
- **`QueueSafety`: `CSpec => []CorpusPartition`.**
- **`CorpusTyped`: `CSpec => []CorpusTypeOK`.**

All four rest on one inductive invariant, `CorpusInv`. It conjoins `TypeInv`, the dispatcher's types, the three properties and `Untouched`, which says every file not yet started is still `pending`. The three properties are not inductive alone:
- When `store()`'s callback pops a file into the freed slot, the count of open files stays right only if that file is not yet open. This takes two facts: the queue and the started files are disjoint (`CorpusPartition`), and an unstarted file has not moved (`Untouched`).
- The pop in the `ELSE` branch of `processNewMail` cannot happen with a non-empty queue, and this takes `WorkConserving`.

The lemmas are:
- `InjectiveImage` and `PrefixImage`: a sequence without repetition has as many elements as its length.
- `SampleFacts` and `SplitSample`: the readdir split.
- `PopLast`: popping removes exactly the last element.
- `InProcessStep`, `StoredStep` and `ReadDirStep`: one per kind of step.

It also proves that the dispatcher implements its abstract specification:

- **`PoolRefinement`: `CSpec => ImplementsPool`.** It has one lemma per kind of step:
  - `InitRefinesPool`: the initial states map to `Pool!Init`.
  - `ReadDirRefines`: the readdir callback is `List`, with `R` the last `min(n, maxOpenFile)` files of the sample (`SplitSample`, `PrefixImage`).
  - `StoredRefines`: a store() callback is `Finish(f)`. When the queue is not empty, the popped file is the waiting one that takes the slot (`PopLast`).
  - `InProcessRefines`: a step inside store() is `Halt` when it kills the process, and otherwise leaves `Queued`, `Open` and `alive` alone.
  - `NextRefinesPool` combines them.

  The step lemmas need `CorpusInv`, not just the type. `SlotAccounting` gives `fileOpened - 1 < maxOpenFile` in the callback, so the `processNewMail` it emits always pops when the queue is not empty. `CorpusPartition` and `Untouched` make the popped file one that was waiting and never started. `QueuedElems` and `ElemsEmpty` relate `Queued` to the queue sequence, and `PoolCardinality` identifies the instance's `Cardinality` with the outer one.

Counting goes through `FS_AddElement`, `FS_RemoveElement` and `FS_Bijection` of FiniteSetTheorems. Sets of the form `{s[i] : i \in ...}` are named by operators (`ImageOf`, `Elems`), so that the lemmas about them can be cited.

`DeleteBucketProofs.tla` proves, under `~Ingesting` (the `db_safety` configuration):

- **`DeleteSafety`: `DSpec => []IndexImpliesRecord`.**

The inductive invariant `DeleteInv` conjoins `TypeInv`, the deletion's types, `IndexImpliesRecord`, `IndexGone` and one implication: while the tool has not started (`delStage = "start"`), MailStorage's `StoreInv` holds and no key has been listed.
- `IndexGone` says a key whose `search.remove` succeeded (`del[k]` is `"record"` or `"removed"`) has no index document. It is what makes `RecordRemoved` safe, and it is exactly what the `IndexRemovedRecordFirst` mutant breaks.
- Deliveries step only at `"start"`, so their steps are discharged by MailStorage's `NextStoreInv`. `DelSaveBucket` waits for in-flight deliveries and leaves `"start"` with `IndexImpliesRecord` taken from `StoreInv`.

With `Ingesting` TRUE the property fails (`db_race`), so the hypothesis cannot be dropped.

`LdaArchiveProofs.tla` proves the exact extent of the `lda_lost` finding, for every set of deliveries, recipients and faults (`saveBucket`, `riak.save` and `search.add` may all fail) and every interleaving. Its only hypothesis is `RecipientType`, the declared type of `Recipient`. The two properties are defined in LdaArchive:

- **`LdaNoLoss`: `LSpec => []LossNeedsSaveError`.** A delivery with a recipient that ended with status 0, and whose key holds no record, is in `saveFailed`. The ignored save error of line 108 is the only way lda.js loses a mail.
- **`LdaIndexSafety`: `LSpec => []OrphanNeedsSaveError`.** An index document whose key holds no record was written by a delivery in `saveFailed`. The same ignored error is the only way lda.js orphans an index document.

The inductive invariant `LInv` has three parts:
- the type invariant, with `saveFailed` a set of files;
- `LRecordWritten`: a delivery with a recipient at stage `index` or `done` whose save got no error finds its record;
- `IndexOwned`: every index document was written by a delivery with a recipient that has ended, under its own key.

`IndexOwned` is needed because an index document written by another delivery of the same key must be traced back to its writer. Lemma `LDoneStable` keeps that writer's stage and key fixed. `LRecordsGrow` shows that records are never reset to Nil, even by a failed save: such a save writes the mail or nothing. Neither property is checked by a configured run; `lda_lost` is the run LdaArchive has. Before the proof, TLC checked both properties as invariants on MC_LdaArchive with all three faults and one mail without a recipient (11,340 states).

What stays with TLC:
- **Liveness.** `EveryFileSettles` and `BucketEmptied` need fairness and ENABLED, which TLAPS cannot reason about here.
- **The tokenizer.** `MatchesReference` is model-checked only: IndexText uses RECURSIVE operators, and what they compute for every input is induction over data.

## 5. Not modelled, and why

- **Observed divergences without a run.** Two divergences are read from the code and have no run, because a unit test reaches each directly:
  - `store()` submits an index document even when it has neither text nor subject (line 199; spec 4.5 step 5 says such a document is skipped).
  - The replacement ranges leave U+007F-U+009F and the no-break space inside index words (line 174; spec 4.3 step 5).
- **LdaArchive's recipient.** `LdaArchive` models the bucket `undefined.inbox` used when there is no recipient (`misfiled`), but no run enables it.

- The normalizer's date, labels and threadIndex, and the attachment projector are only partly modelled. MailStorage keeps only what the properties distinguish.
- The attachment projection in `lda.js` rewrites the saved object only, and the records abstract that object. Riak's automatic indexing after `saveBucket(search: true)` in deleteBucket is also left out.
- listBucket, walkBucket, search, imapFetcher and the tmail-queue scripts change no state.
- The MIME parser, Riak's internals and qmail itself are external collaborators. qmail appears only as `Retry`.

## 6. Plan

1. MailStorage and StoreCorpus, with proofs of the MailStorage invariants. *Done.*
2. `IndexText`: the tokenizer, checked against a reference definition. *Done.*
3. `NormalizeMail`: subject, date (the `dated` test), labels, threadIndex (the literal `"msgId"` vs `""`), prev/next, and the hard-coded recipient.
4. `LdaArchive`: the `lda.js` variant. *Done.*
5. `DeleteBucket`, composed with MailStorage. *Done.*
6. `StoreContract` and the proved refinement from MailStorage. *Done.*
7. TLAPS proofs of `SlotAccounting`, `WorkConserving` and `CorpusPartition` for StoreCorpus. *Done.*
8. A proof of `IndexImpliesRecord` for DeleteBucket with deliveries stopped. *Done.*
9. `FilePool` and the proved refinement from StoreCorpus. *Done.*
10. Next: item 3 (`NormalizeMail`).
