# A TLA+ specification of the Audio-Book production pipeline

Audio-Book turns an uploaded book into a narrated audiobook. An API (NestJS)
accepts commands; workers in TypeScript (CPU: ingestion, assembly, encoding,
maintenance) and Python (AI: analysis and direction; GPU: speech synthesis)
carry them out. The parts share one Postgres database, BullMQ queues and flags
in Redis, and an object store. Nothing holds a lock across two of these: every
command is a row in Postgres, then a message in Redis, then work that commits
its results in a later transaction. What can go wrong happens in between, and
that is what most of these modules are about. The others are about the pure
algorithms between the transactions, where a lost word or a wrong number is
heard only in the finished book.

Paths below are relative to `src/`. `PROJECT.json` has, for every definition,
the lines it models; for every property, a mutation of the code that violates
it; and the list of hazards.

## 1. Inventory

| Component | State | Operations | What makes it correct |
|---|---|---|---|
| Job commands, `apps/api/src/jobs`, `packages/queue/src/dispatch.ts` | `processing_job` rows: status, queued_at, cancellation, attempts, envelope | create, enqueue, mark; cancel; replay | a committed job is dispatched; an outcome stands |
| Sweeper, `apps/worker-cpu/src/processing-job-sweeper.ts` | none | re-enqueues rows with queued_at null | no job is lost between Postgres and Redis |
| Queue manager, `packages/queue/src` | BullMQ messages, dead-letter queue, cancellation flags with a TTL | add, remove, retry, dead-letter | the row, the message and the flag agree |
| Cancellation gate and ingestion worker, `apps/worker-cpu/src` | the job row; book versions, chapters, sections, paragraphs | check, load, start, persist, fail | at-least-once delivery records one outcome; the current version stays |
| Ingestion library, `packages/ingestion` | none | parse, clean, split, number, assess | no text is lost silently; the numbering is one |
| Uploads and books, `apps/api/src/books`; purge, `processors/maintenance.ts` | upload sessions (Redis), files, objects, books, storage counters | start, complete, abort, ingest, delete, restore, purge | a key is answered with work that was done; an object stays until a purge; a current version has its chapters; a purge ends |
| Idempotency, `apps/api/src/common` | records of Idempotency-Keys | begin, complete, release | one key, one effect |
| Analysis, `apps/api/src/analysis`, `python/worker-ai` | scene rows, story bible versions, characters, relationships, locations | analyse, integrate, continue, finalise; alias, merge, split | version chains have one complete current member; evidence is kept |
| Direction, `apps/api/src/director`, `python/worker-ai` | audio scripts and their chunks | generate, finalise, revise, edit | the same; a frozen chunk does not change; a chapter's text is covered |
| Voice, `apps/api/src/voice` | profile versions, previews, assignments | create, approve, lock, retire, assign, clear | a locked version was approved; an assignment ends only by a request that saw it |
| TTS, `apps/api/src/tts`, `python/worker-gpu` | tts jobs, audio chunks, objects | plan, freeze, synthesise, upload, record | rows find their own bytes; a result is of the job's voice |
| Python runtime, `python/workers-common` | worker state machine, deliveries | start, drain, stop, consume | a shutdown loses no delivery and pulls nothing away from a handler |
| Chapter assembly, `processors/assembly-chapter.ts`, and `startAssembly` | `chapter_audio` versions, job rows | plan, build, commit, fan-in | a result is of the chunks that were read; the last chapter asks for the book |
| Book assembly, `processors/assembly-audiobook.ts` | `audiobook` versions, master objects | resume or build, commit, create encode jobs | one newest version is current; results name what was hashed |
| Encoding and publication, `processors/assembly-encode.ts` | renditions, audiobook status, book pointer | encode, gate, publish, fail | READY means encoded; an audiobook does not hang |
| Events, `apps/api/src/events`, `apps/web/src/lib/query/useEventStream.ts` | outbox rows; stream cursors and counters | write; open, resume, poll, close | a connected tab misses nothing |
| Progress and studio, `apps/api/src/progress`, `apps/web/src/lib` | none | derive | what is shown agrees with the rows |

They interact in three ways: by rows (a worker's transaction inserts the next
command, or an event into the outbox), by messages (BullMQ, at least once, any
number of slots), and by objects whose keys are computed from version numbers.
The hard behaviours are the crash between a commit and the message that should
follow; the message delivered again after its outcome; values read outside the
transaction that uses them (`max(version) + 1`, a job's status, an approval
state, the set of existing rows); gates evaluated concurrently by the last
finishers; handlers of failures that themselves fail; and requests that read,
decide and then write by id.

## 2. Modules

```
JobLifecycle <-- JobLifecycleProofs, MCJobLifecycle
Library      <-- CatalogProofs, MCLibrary
JobChain     <-- StoryBible <-- StoryBibleProofs, MCStoryBible
             <-- Direction  <-- DirectionProofs, MCDirection
VersionChain     implemented by StoryBible and by Direction
Casting      <-- CatalogProofs, MCCasting
WorkerRuntime <-- TtsGeneration <-- TtsGenerationProofs, MCTtsGeneration
ChapterAssembly <-- ChapterAssemblyProofs, MCChapterAssembly
Publication  <-- PublicationProofs, MCPublication
EventStream  <-- EventStreamProofs, MCEventStream
Lists        <-- Ingestion, Analysis
Ingestion, Analysis, Performance, Rendering, ReadModels
             <-- MCAlgorithms <-- EventStreamProofs
```

The arrows are EXTENDS. The pipeline modules meet at rows. `JobLifecycle` says
how a CREATED row becomes a delivered message and how often; the other modules
take from it that a created row with an envelope gets a message, that a message
is in one slot at a time, and that a death returns it to the queue. `Library`
ends with a current version, whose chapters `StoryBible` and `Direction` go
through; `Direction`'s current script is what `TtsGeneration` synthesises, with
the voices `Casting` hands out; `ChapterAssembly` begins with synthesised
chunks and ends with a CREATED assemble_audiobook row, where `Publication`
begins.

A step is one transaction, one query or command, or a decision between two of
them, so that processes interleave and die wherever the program awaits.
Transactions run at READ COMMITTED (`packages/database/src/client.ts:60-62`):
one that reads, decides and writes is one step only where a unique index or the
exclusivity of the message makes it so, and several steps elsewhere.

### JobLifecycle

The life of a `parse_book` job. Rows: `status`, `queuedAt`, `cancelRequested`,
`effectiveAt`, `attemptCount`, `entityId`. Also written by the transactions:
`cancelledEvents` (the `job.cancelled` outbox rows) and `results`. BullMQ:
`mqState`, `attemptsMade`, `stalledCount`, `dlq`. Redis: `flag`.

* `Create`, `Enqueue`, `Mark`: completeUploadSession's job row, then
  enqueueProcessingJob's two steps. `EnqueueFails`: Redis rejects.
* `CancelRead`, `CancelCommitImmediate` or `CancelCommitRequest`,
  `RemoveQueuedJob`, `SetFlag`: cancelJob. The status is read once, before the
  transaction, as in the code.
* `Sweep`, `SweepCrash`: ProcessingJobSweeper.pollOnce for one row.
* `GateRead`, `GateFlag`, `Halt`: haltIfCancelled. `Load`, `Start`, `Work`,
  `Persist`, `HandleFailure`: processIngestionJob. `Ack`, `Nack`: BullMQ's
  settlement, with the dead-letter copy. `Fetch`, `StallCheck`, `Evict` are
  external, modelled from the options the code passes.

### Library

One book, upload sessions with their objects, and the requests around them. A
request looks its Idempotency-Key up (`Lookup`), claims it (`Claim`), runs its
handler in the steps of the code (`CheckUpload`, `Admit`, `MarkAdmitted`;
`CheckIngestion`, `RequestIngestion`; `CheckPurge`, `PurgeBook`) and settles the
record (`Settle`); it may be refused, fail or stop at every step (`Refuse`,
`CallFails`, `Crash`). A completion whose check fails (`CheckFails`) writes the
session later, from what it had read (`RejectSession`); so does an abortion
(`ReadForAbortion`, `AbortUploadSession`). `Upload` is the client's PUT to the
signed URL, which nothing revokes: it may come at any time, before or after the
check, the admission, the parse or the purge. `Parse`, `MergeVersion`,
`PersistVersion`, `ParseFails` are the rows ingestion writes, `CheckDeletion`,
`DeleteBook`, `RestoreBook` the bin, and the `Purge...` actions with
`DeleteBookRow` the purge, a transaction each. The storage counters, whose
updates no other step reads, are left out.

### JobChain, StoryBible, Direction, VersionChain

`JobChain` has what the two chains of the AI worker share: rows, messages, the
gate, retries, deaths and failing calls, cancellations, the child that is
committed and then enqueued, and the row of the chain's first job that its last
one sets to SUCCEEDED (`FinalizeRootJob`).

In `StoryBible` a run is a request (`Check`, `Commit`) and its jobs: `Gather`,
`Analyze`, `GetNextVersionNumber`, `PersistAnalysis` are analyze_scene,
`ContinueDelta`, `FinishDelta` and `DeltaConflict` build_story_bible_delta.
A version's `integrated` chapters are its content, `registry` the characters.

In `Direction`, `ReadVersion`, `CreateDraftAudioScript`, `Load`, `Continue`,
`FinalizeRun` and their refusals are generate_director_ir; `ReviseDirector`,
`LoadRevision`, `Revise` the revision; `ReadForEdit`, `UpdateAudioScriptChunk`
the user's edit; `Lock` the claim by the TTS worker.

`VersionChain` is the abstract specification of both: versions are opened one
after the other, filled in the order of their plan, and made current when
complete, never to change again. `VersionsKept` and `ScriptsKept` say that the
detailed specifications implement it, under the mappings `Bible` and `Script`.

### Casting

Every request of VoiceService and AnalysisService on the cast is two steps:
`ReadFor...`, which keeps what the code read, and the write by id. Between them
come other requests, the director (`PreloadVoiceBindings`, `Direct`) and the
claim of a chunk (`BeginTtsJob`), which locks the voice version. A merge has one
step more, since the statements of its transaction see what others commit
between them: `MoveAliases` takes the aliases the loser has at that moment,
`Merge` marks the loser and commits. The rows it has written are locked until
then (`Held`), so that a deletion or another merge waits for them, but an alias
created in between is not among them and stays with the loser. `met` is a history
variable: the assignments and retirements of a version that were both between
their read and their write at some time.

### WorkerRuntime, TtsGeneration

`WorkerRuntime` is the Python runtime: the states of WorkerHealth, the start
and shutdown tasks, the signal, the grace period, fetching, the gate, and what
a handler's result means to BullMQ. `TtsGeneration` adds startTts
(`StartTts`, `FilterTargets`, `CommitJobs`, `CommitConflict`) and the handler:
`Load`, `LoadSkips`, `LoadTerminal` are the first transaction, `Freeze` the
claim, `Synthesize`, `Upload`, then `Persist` or `PersistRefused`, and
`RecordFailure`. `overlapped` is a history variable.

### ChapterAssembly

A chapter's ordered chunks with their current audio are its *take*; the
manifest hash is the take. `RRead`, `RDecide`, `RCommit`, `RBook` are
startAssembly; `Load`, `Lookup`, `Noop` or `Start`, `Build`, `Commit` are
processAssembleChapterJob; `FanIn`, `InFlight`, `Trigger`, `Enqueue` are
maybeTriggerAudiobookFanIn, of which each query is a step. The partial unique
index on idempotency keys is `KeyFree`, those of `chapter_audio` are `RowFree`.
`Synthesise` and `Withdraw` are what the TTS and director workers do to the
chunks meanwhile. `jInTry` remembers whether an exception reaches
handleChapterAssemblyFailure, which only guards the part after RUNNING.

### Publication

Audiobook versions (`abStatus`, `abManifest`, `abFormats`, `master`,
`current`), the book's `pointer`, `rendition`s, `completed` events. Actions with
`A` are processAssembleAudiobookJob: `ALoad` with `Reusable` is its lookup by
manifest, `AResume` the resumption, `ABuild` the version read outside the
transaction and the upload, `ACommit` the transaction, `AEnqueue` one turn of
enqueueEncodeJobs, `AFail` the failure handler. Actions with `E` are
processEncodeDeliveryFormatJob and maybePublishAudiobook: `EPublish` collects
the requested formats from rows (`RequestedFormats`), `EGatePasses` compares
them with renditions, `ERecheck` and `EFlip` are the two halves of the
publishing transaction, `EFailFinal` and `ERecord` those of the failing one.

### EventStream

One principal, one book. Rows get `createdAt` when written and are seen when
committed; the Python workers' clocks are off by up to `Skew`; a JavaScript
`Date` holds `Resolution` database instants (`Js`). `ReadTail` is the query;
`StartPoll` and `EndPoll` are the two ends of the timer's asynchronous function,
and several may be out. `Open`, `OpenRefused`, `Resume`, `StartNow`,
`StartFails`, `Close`, `Lifetime`, `Disconnect` are the life of a stream;
`attached`, `lastId`, `refused`, `received` the tab. `base`, `high` and `late`
are history variables that only the properties read.

### Ingestion, Analysis, Performance, Rendering, ReadModels

Pure algorithms as operators on small abstract inputs.

* `Ingestion`: the PDF, EPUB and image parsers, removal of page furniture,
  paragraphs from lines, chapters and sections, numbering, the quality report
  and the version's status (`RunIngestionPipeline`), and the rows
  (`PersistStructure`). Words carry the place they were read from.
* `Analysis`: characters and their short forms, scenes, relationships and
  locations of the deterministic analyser, and their integration into the story
  bible over several chapters.
* `Performance`: the chunker, validate_coverage, attribution of speech (names
  and tags have their places in the paragraph, and a quote is given to the first
  tag in the window around it, whichever quote that tag belongs to), the
  performance decision, the chunk rows with their flags, the negotiation with
  an engine.
* `Rendering`: encoding, measuring and checking what an engine returns, trimming
  and joining chunks and chapters, their start times and markers. Time is in
  sample frames, three to a millisecond, so that rounding happens; the limits
  and the trim policy are scaled to frames.
* `ReadModels`: the progress read model, the assembly and audiobook pages, and
  what the studio derives from them. Ratios are in ten-thousandths and rounded, as
  the code's are to four decimals. Encode jobs are apart from the other assembly
  jobs, because the progress counts them and the assembly page does not.

`MCAlgorithms` grows an input by one element per step, so that the reachable
states are the inputs up to the bounds, and compares the results with reference
definitions that do not use the algorithm.

## 3. Runs

| Run | Instance | Shows |
|---|---|---|
| `lifecycle` | 1 job, 2 requests, 2 slots, 2 attempts, 1 stall, 1 crash, 1 Redis failure, 1 failing transaction | dispatch, counting, outcome and settlement of a job |
| `library` | 2 clients, 2 sessions, 2 contents, 3 requests, 1 trouble, 2 attempts | answers, objects and versions against retries, late uploads, deletion and purge |
| `purge_completes` | 1 client, 1 session, 3 requests, no trouble, fair purge | *violation*: a purge never removes the book |
| `story_bible` | 2 runs, 2 chapters (both or the second), 1 name, 2 attempts, 1 trouble, 1 cancellation | one current version, refinement of VersionChain, progress |
| `direction` | 2 runs, 2 chapters (both or the second), 1 chunk revised and edited, 2 attempts, 1 trouble | refinement of VersionChain, progress, frozen chunks |
| `casting` | 2 users, 6 requests, 2 characters and a narrator, 1 name, 2 versions | versions, locks, assignments, merges |
| `tts_generation` | 1 chunk, 2 voices, 2 workers (one with both models), 2 jobs, 2 attempts, 1 trouble, 1 intervention | bytes, lineage, acknowledgement, shutdown |
| `chapter_assembly` | 2 chapters, 3 takes in all, 3 kinds of request, 2 requests, 2 attempts, 1 trouble | racing chapter jobs and the fan-in |
| `publication_assembly` | 2 commands, 1 format, 2 versions, 2 manifests, 2 attempts, up to 2 troubles | versions, results and outcomes of racing assemblies |
| `publication_gate` | 1 command, a single-file and a per-chapter format, 2 chapters, 2 attempts, up to 2 troubles | encoding, publication, progress |
| `event_stream` | 3 events (1 from a worker, 2 public), 3 instants, 2 overlapping polls, batches of 2, skew 1, 2 instants per Date, a resume window of 1, 1 break | nothing skipped, delivery |
| `algorithms` | PDFs of 4 text items, EPUBs of 3 elements in 2 spine items, image sets, books of 3 paragraphs in up to 3 chapters, paragraphs of 5 characters with chunks of 2, scenes of up to 4 spans and speech tags in a window of 4 characters, requests of 3 cues and capabilities, engine answers of 5 samples, chunks of 9 frames, books of 3 chunks, snapshots of 3 facts | the algorithms against reference definitions |

**Bounds.** The races are between two: two requests, two slots, two versions,
two finishers, two polls, two runs. One crash is all BullMQ forgives
(`maxStalledCount` 1 by default; `MaxStalled`, and `MaxCrashes \in 0..1` in
Publication), and a second failing step after the first is a longer path to a
state the failure handler already produced; two attempts give one retry, so
"not final" and "final" both occur (the code has 3). Two manifests or takes are
needed for a stale result, and a third would be newer than both in the same
way. A plan of two chapters has a first, a next and a last job, and the plan
with the second chapter alone meets a longer run's key and version in the
middle. Six requests on the cast allow a version to be created, approved,
assigned, cleared and retired with one more request between any two. In the
stream run a batch of two with three rows ends between rows of one instant.
A tag of speech can lie inside the attribution window of 4 (the code has 80),
across its edge or outside it, and between two quotes that both have it within
reach. In `library` every object may be overwritten at every moment.
Constants named `Max...` that are bounds and not the code's are marked so in
the modules. Symmetry is used for the commands of `publication_assembly`, the
users of `casting` and the clients, sessions and contents of `library`; none of
these runs has a liveness property.

`CHECK_DEADLOCK FALSE` throughout: the bounded counters and the finite number
of commands let every model stop when all is done; that nothing stops too early
is what `Settles`, `Publishes`, `RunEnds`, `DirectionEnds` and `Delivers` say.

**Properties worth explaining.**

* `DispatchRecoverable`: enqueue-then-mark. A CREATED row with queued_at set has
  a message. With mark-then-enqueue, or an enqueue failure swallowed, a job is
  invisible to the sweeper and absent from Redis.
* `AttemptBudget`: three parties count attempts. The bound is the database's own
  CHECK, which would refuse the start of one more attempt.
* `OutcomeStands`, `ResultOnce`: what at-least-once delivery needs of the gate
  and of the processor's early returns.
* `AnsweredIsDone`: two requests race for a key, or one takes it over after a
  failure, or a request stops between its commit and its record; what the key
  answers from then on is a response whose job exists. `ObjectsKept`: the session
  that a crash left open can be aborted after its file was admitted. It says that
  there is an object, not which bytes it has: see section 5.
  `VersionStaysWhole`: the rows that a parse deletes and the version it creates
  are one transaction, whatever bytes it was given and however often it runs. It
  says nothing about which version is current in the end; the second one, which
  the code means to supersede the first, is refused (section 5).
* `VersionsKept`, `ScriptsKept`: the refinements. They fail if a redelivered job
  integrates a chapter twice, a retry writes to an abandoned draft, or a chain
  is finalised early. `OneCurrent` is about two runs that finish, with no unique
  index to keep them apart; the audio script has one, and the second run's last
  job is refused, which `DirectionEnds` names.
* `RunEnds`, `DirectionEnds`: an accepted run publishes; the clauses name the
  ways it may not.
* `FrozenOnceSeen`: what an edit that read a chunk before its claim may still do.
* `SupersededOnlyIfSeen`: two users change the voice of one character. The one
  who read first must not end the assignment that the other has made since, whose
  impact nobody was shown. It allows a reassignment that replaces what it has
  read; that the code never completes one is a separate matter (section 5).
* `RetiredOnlyByRace`: retirement looks for assignments, and assignment for an
  approved version, but neither looks again when it writes. Whichever lands last,
  a character keeps a retired voice only if the two requests overlapped, and in
  the run they do.
* `FormsPassByMerge`: a merge moves rows it has selected in an earlier statement.
  A form that was deleted and given to a third character meanwhile would be taken
  from that one, if the rows were not locked from the first statement on.
* `LockedWasApproved`: across approvals that undo a retirement. The locked
  version is what speech was made with.
* `BytesOfRows`, `ResultLineage`: the rendering a row names is in the store under
  that name, and a job's result is of its own voice, although chunks are
  rebound, attempts die after their upload and other jobs render meanwhile.
* `AckedIsSettled`, `NoWorkAfterRelease`: the runtime's shutdown against a
  message fetched a moment ago.
* `AudioOfResult`, `ResultOfManifest`: the result a job reports is an audio of
  what it read, not merely some current audio.
* `NoJobLeftBehind`: the loser of a race for a version or a manifest still
  records an outcome. `FanInNotLost`: concurrent last chapters cannot each leave
  the audiobook to the other, nor can a no-op.
* `CurrentIsNewest`: the version is read outside the transaction, and only the
  unique key makes it safe.
* `SucceededIsEncoded`, `AdvertisedReady`: across retries that resume in the
  middle of the chapters, and other jobs' failures.
* `NothingSkipped`, `Delivers`: the cursor of a live stream never passes a
  committed public event that the tab did not get, and catches up.
* `SpeechAccounted`: speech that is not flagged is given to a character whom a
  tag within reach names, and when all the tags within reach name one character it
  is given to that one. That the tag is the quote's own cannot be said: in
  '"Stop!" said Ann. "Never," said Bob.' the second quote goes to Ann, unflagged.
* `StagesTold`: a stage shown as active has a job that moves, and the assembly
  page agrees, unless the job is an encode; progress shows 100% only when at most
  one part in twenty thousand is missing.
* `TextKept`, `SpineNumbered`, `EvidenceKept`, `ChunksPartition`,
  `SpeechAccounted`, `SynthesisAccounted`, `StagesTold`: each compares a whole
  algorithm with what its result is used for, through the places of the words,
  the characters covered, the frames heard or the rows behind a status.

**Fairness.** Weak fairness of each request and delivery that has begun (Node
and asyncio run their pending continuations), of the sweeper per row and of
BullMQ's stalled check (both are timers that always restart), of handing some
waiting message to some free slot, of each step of a chain's jobs and of the
dispatch of its first, of the EventSource's reconnection, of the poll timer and
of a poll's return; in `purge_completes`, of the purge's steps and its
redelivery. None is assumed of requests, cancellations, faults, clocks or the
writing of events. Where a fault makes progress impossible the liveness property
says so (`dbFaults > 0`, `crashes + faults > 0`, `troubles # 0`, `Crowded`,
`refused`): no code recovers from these, see section 5.

## 4. Proofs

Eight modules hold theorems. Each has `Invariance` (`Spec => []IInv`), `TypeCorrect`
and the theorems below (`CatalogProofs` one of each for its two components), for
every value of the constants that satisfies the module's assumptions: any number
of jobs, runs, requests, attempts and faults.
The `IInv` of each component is the last section of its module, and TLC checked
it on the run's instance before it was proved.

| Module | Theorems | of the run's property |
|--------|----------|-----------------------|
| `JobLifecycleProofs` | `DispatchIsRecoverable`, `AttemptsStayInBudget`, `ResultIsRecordedOnce`, `OutcomesStand` | `DispatchRecoverable`, `AttemptBudget`, `ResultOnce`, `OutcomeStands` |
| | `CancellationIsAnnounced`, `CancelIsHonoured`, `DeadLettersAreFailed` | none lists them |
| `CatalogProofs` | `AnswersAreDone`, `ObjectsAreKept`, `VersionsStayWhole` | `AnsweredIsDone`, `ObjectsKept`, `VersionStaysWhole` |
| | `BookRowStays` | the negation of what `purge_completes` expects |
| | `LockedVersionsWereApproved`, `AssignmentsAreSuperseded`, `RetirementsRace`, `FormsStay` | `LockedWasApproved`, `SupersededOnlyIfSeen`, `RetiredOnlyByRace`, `FormsPassByMerge` |
| `ChapterAssemblyProofs` | `AudiosMatchTheirJobs`, `JobsHaveOutcomes`, `FanInIsNotLost` | `AudioOfResult`, `NoJobLeftBehind`, `FanInNotLost` |
| `PublicationProofs` | `CurrentVersionIsNewest`, `ResultsMatchTheirManifest`, `SucceededJobsAreEncoded`, `AdvertisedFormatsAreReady`, `AssemblyOutcomesStand` | `CurrentIsNewest`, `ResultOfManifest`, `SucceededIsEncoded`, `AdvertisedReady`, `AssemblyOutcomeStands` |
| `StoryBibleProofs` | `OneVersionIsCurrent`, `ChainImplementsVersions` | `OneCurrent`, `VersionsKept` |
| `DirectionProofs` | `ClaimedChunksAreFrozen`, `ScriptsImplementVersions` | `FrozenOnceSeen`, `ScriptsKept` |
| `TtsGenerationProofs` | `RowsFindTheirBytes`, `ResultsHaveTheirVoice`, `AcknowledgedJobsAreSettled`, `ReleasedWorkersAreQuiet` | `BytesOfRows`, `ResultLineage`, `AckedIsSettled`, `NoWorkAfterRelease` |
| `EventStreamProofs` | `NothingIsSkipped` | `NothingSkipped` |
| | `StagesAreTold`, `SynthesisIsAccounted`, `SpeechIsAccounted`, `PartitionIsExact`, `SpineIsNumbered`, `EvidenceIsKept` | `StagesTold`, `SynthesisAccounted`, `SpeechAccounted`, `ChunksPartition`, `SpineNumbered`, `EvidenceKept` |
| | `StreamsStayLimited`, `SnapshotIsTold`, `SoundIsJudged`, `WishesAreAnswered`, `ChapterIsAccounted` | none lists them |

The common shape: a handler reads, waits and writes by id, so a property is
seldom inductive; what has to be added is what the process knows at each step
and that nobody else has moved the rows since. The proofs have one lemma per
action or group of actions that change the same state, and under it one step per
conjunct that the action disturbs. Where an action moves one job only, a lemma
(`MovePreserves`, `OneAssemblyMoves`, `JobsKept`, ...) says once that the others
stay in step.

**JobLifecycle.** A delivery writes the row from what it learnt several steps
ago. `IInv` is the conjunction of `InHand` (a process holds a job exactly while
busy), `Exclusive` (the message in a slot is active in BullMQ and in no other
slot: the mutual exclusion everything rests on), `Knowledge` (what each program
counter implies about the row), `Messages` (a completed message belongs to a
finished row; a request about to remove a message has committed the
cancellation), `Counting` (attempts in the row against attemptsMade and
stalledCount) and the properties that need no strengthening. Assumptions: `NoJob`
is no job, `MaxAttempts` is positive, `MaxStalled` is 0 or 1 (with 2 the code's
CHECK would be exceeded).

**Library.** `CommittedHasJob` is what `AnsweredIsDone` needs: a request past its
commit has its job, and `Numbered` says that a record names a request there has
been. `CheckedBytesKept` is behind `ObjectsKept`: an object that a completion has
found is there when it commits, with those bytes or others. `ChaptersOfCurrent`
ties the chapters to the current version, and `PurgeAskedFor` the purge's steps to
its request. `RowStays` is the surprising part of the invariant: the purge, a job of
the book itself, never gets to delete the book's row, which the run
`purge_completes` shows as a counterexample to the documentation.

**Casting.** `VoicesHeard` says that every use of a version follows a preview;
`ReadingStands`, that what a request has read of a version outlives the requests
that come between its read and its write. `RacesNoted` is what each request under
way can still do: a retirement whose version has been assigned since, or an
assignment whose version has been retired since, has met the other one. `MovesHold`
says that the forms a merge has selected stay the loser's until it commits, and
that no other merge has selected them.

**ChapterAssembly.** `RowsNumbered` and `DeliveryInStep` tie a delivery to the
take it has read and to the rows of its chapter. That a version number is left
for every build is a counting argument, proved with the cardinality theorems:
rows with different takes are fewer than the takes. `FanInPending` is the
invariant behind `FanInNotLost`: of jobs that cover the book, one has yet to look
for the fan-in, unless one has found it.

**Publication.** `VersionReserved` says that the version read outside the
transaction is the next one or was taken since, `ResultNamed` what an assembly's
result is from the moment it is found or made, and `GateStands` that while no
query fails a rendition which a failure handler is going to mark was not READY
and that what the gate has seen stays so until the flip. Assumption: at most one
crash of an encode worker (`MaxCrashes` is 0 or 1).

**StoryBible.** `RowInStep` says how far the chain of a run is: rows are of
chapters up to the first that is not integrated, and a row whose work is
committed is SUCCEEDED, or was CANCELLED by a redelivery and never runs again; the
first job's row, if it was, is set to SUCCEEDED by the last (`RootSettled`, and
`RootEnded` for `Direction`).
`MessageInStep` says that a handler which is about to enqueue has a successor
with a row and without a message. `VersionsNumbered` and `VersionsFilled` are about
the versions; that a run without one has a number left is again a counting
argument. With it `ChainImplementsVersions` is the refinement of `VersionChain`,
step by step: the second transaction of a run's first analysis opens a version
(`PersistImplements`), a delta adds a chapter and the last one publishes
(`DeltaImplements`), everything else is invisible (`Invisible`).

**Direction.** The chain has one job per chapter, and a redelivered first job opens
another script instead of finding its own, so the invariant of `StoryBible` does not
carry over. `RowInStep` and `MessageInStep` tie rows and handlers to the place of
their chapter in the plan (`Place`) and to the number of chapters committed
(`Count`). `ScriptsNumbered` and `ScriptsFilled` are about the scripts: those
opened have the numbers 1 to n, one holds a beginning of its run's plan, an
abandoned one nothing. That the number read outside the transaction is always a
version there may be is again a counting argument, and the hard one: `ScriptsCounted`
is an injection of the scripts opened into the attempts used up. An attempt at work
pays for its script with the try that it will be charged; a worker's death gives
the try back, so from then on the trouble pays for the script (`DieCounted`), and a
new script finds an attempt that none has used (`DraftCounted`, `RoomLeft`).
`ScriptsImplementVersions` follows as for the story bible (`DraftImplements`,
`ChunksImplement`, `Invisible`). `ClaimedChunksAreFrozen` needs no more than the types.
Assumptions: those the module declares, among them that a plan names a chapter
once.

**WorkerRuntime and TtsGeneration.** `Lifecycle` ties a worker's state to its start
and shutdown tasks (it takes messages once it is up, and a shutdown leaves that
state for good), `Delivery` the locks to the jobs at hand: a worker loses a lock by
a death or a forced close only. `Numbering` is behind `BytesOfRows`: handlers that
are at work on a chunk one at a time have a generation_version to themselves, the
first one while the chunk has no audio and the second one afterwards, and `Stored`
says that what is recorded next is in the store. Lemmas on the end of a handler
(`FinishRuntime`) and on a step inside one (`WorkRuntime`) are proved once for all
of them. Assumption: none beyond those the module declares for TLC.

**EventStream.** The cursor is written by polls that overlap, so `NothingSkipped`
alone is not inductive: a poll that ends may move the cursor back or forward to a
row it read long ago. `PollsInStep` says that an outstanding poll leaves out
nothing owed up to any of its rows, `LastIdInStep` that the tab can resume from
its Last-Event-ID, and `CursorInStep` that a cursor is where the stream began or
at a row which somebody has read: then whatever commits behind it later also
commits behind `high`, the furthest position read, and is one of the `late` rows
that no stream promises. That a batch leaves out nothing before its last row is
a cardinality argument (`BatchIsPrefix`); that a batch has a last row at all
(`LastIs`) is that a finite set of numbers has a greatest one, which
`FiniteIsBounded` derives from the well-foundedness of the numbers.
`StreamsStayLimited` rests on `SlotsHeld`: the counter covers every stream that is
not over. Assumption: finitely many rows and connections.

**Algorithms.** Most of the pure algorithms are proved correct for inputs of any
size, not only for those that `MCAlgorithms` grows; the theorems about `InputSpec`
follow from them with `InputTyped`, which says that a grown input is one of those.
`SnapshotIsTold` is about every snapshot of a book, with any cast, jobs and counts:
one lemma per stage derives the status that is shown from jobs and rows, and the
progress bars need the arithmetic of rounded ratios (19999 of 20000 shows 100, and
no smaller share does). `SoundIsJudged` is about any samples: that silence longer than
the limit is always found is an argument about the sounding frames next to it
(`SilenceIsFound`), that silence has no power one about the sum of squares.
`WishesAreAnswered` goes through the wishes one by one. `ChapterIsAccounted` is about
a chapter of any length. What directing the spans one after the other gives is a
recursive function, and the prover has no induction on data; the induction is
therefore done by hand, with the least counterexample (`SmallestNumber`): the run
exists (`DirectedRun`), it makes one chunk per span (`ListGrows`) and a mood lasts
until the next one (`MoodLasts`). `SpanIsAccounted` is the step, and `AttributedIs`
says whom the first tag in the window may name. Hypotheses: ids are unique and no
speaking character has a sentinel's id (`SpeakersApart`); a voice belongs to one
character (`OwnVoices`).
`PartitionIsExact` rests on one notion, a `Chain` of non-empty pieces that follow
each other within a budget: chains that meet make a chain (`ChainConcat`), so what
the search for quotes, the split at sentences and the hard split return is one
(`QuotesAre`, `SplitIs`, `HardSplitIs`, `FlattenIs`), each by the least place where
it is not, and validate_coverage accepts a chain (`ChainIsAccepted`). Conversely what
it accepts covers every character once (`AcceptedSpansCover`): of the spans that end
behind a character the one sorted first begins at or before it. Joining is
arithmetic on running sums: each rounded duration is off by half a millisecond, so
a start drifts by half a millisecond for each piece before it (`DriftIs`), and a
trimmed chunk loses no loud frame beyond the tolerance and the rounding of the
probed length (`CutIsQuiet`).
`SpineIsNumbered` goes through the whole pipeline. The parsers are stated on positions:
what a loop keeps (`Pick`) and where it opens a new group (`Cut`) are sets of positions,
so that each result is a list again (`PickedIsList`, `CutIsLists`) whatever the text
says, and the three parsers give lists of blocks (`PdfGivesBlocks`, `XhtmlGivesBlocks`,
`EpubGivesBlocks`, `ImagesGiveBlocks`). Flattening puts an element at the sum of the
lengths before its part (`FlatteningPlaces`), and a chapter's first number is that same
sum (`SpineBeforeIs`), so a paragraph's place in the book is its number
(`ChaptersAreNumbered`, `StoredIsNumbered`). An empty chapter has no range of its own;
READY excludes it (`ReadyHasParagraphs`).

`EvidenceIsKept` goes through a book chapter by chapter and through a chapter's claims
one by one, again by the least counterexample (`BookIsUpTo`). Integrating a claim only
extends the rows (`Extends`), leaves one row per pair and type (`OneRowPerPair`) and
adds evidence that makes the claim (`Supported`), so that a claim found once stays
found and a lowered confidence stays low. Scenes are cuts of the prose, which keeps
its order (`ChapterKept`). That an id names one paragraph is from `ChaptersRise`: ids
rise through the book.

Only model-checked: the liveness properties `Settles`, `Publishes`, `Delivers`,
`RunEnds` and `DirectionEnds` (the prover does not handle fairness); and `TextKept`,
which says what a long chain of folds over the words of a book computes: the folds
take an operator as a parameter, which the prover cannot instantiate.

## 5. Where the code differs from its documents, and known limits

Checked by a violation run:

* The last statement of a purge is refused by the purge's own job row, which
  references the book (`maintenance.ts:180`, migration 0001:2773); the handler
  of the failure writes FAILED without an error code, which a CHECK refuses too
  (3093). Every attempt ends the same way, the job stays RUNNING, the book
  DELETED with its content gone, against "re-running this function ... resumes
  correctly" (`maintenance.ts:95-96`).

Seen in the models, where the properties leave them out by a named clause or
speak of what the code does keep:

*Jobs.*

* cancelJob decides from a status read before its transaction
  (`jobs.service.ts:271`), so a delivery starting in between turns a reported
  CANCELLED into RUNNING, against "A cancelled job is terminal"
  (`cancellation-gate.ts:41`). A redelivered message of a finished job can turn
  it CANCELLED (`cancellation-gate.ts:66`).
* A cancellation is lost when the flag was not stored or expired: the column
  `cancellation_requested` is consulted only when Redis throws
  (`packages/queue/src/cancellation.ts:86`, against `jobs.service.ts:307-311`).
* A replay's envelope keeps the original's entity_id (`jobs.service.ts:397-400`,
  against "A replay is a NEW attempt at the same work", 417); the delivery finds
  the original FAILED and skips, and the replay's row stays CREATED.
* A failing transaction in the final attempt's failure handler, or a second
  stall, leaves a row RUNNING for good.

*Library.*

* Two first requests with one key both run the handler
  (`idempotency.service.ts:79`), so that one key may make two ingestion jobs; a late
  write of IN_PROGRESS reopens a COMPLETED key, and after a crash IN_PROGRESS stays,
  since expiresAt is never consulted.
* The signed URL of an upload (`s3-provider.ts:112-122`, `books.service.ts:554`) is
  good until it expires: the bytes can be replaced after completeUploadSession has
  read and hashed them (626-641) and after the admission. Parsing does not compare
  the hash again, so that a version may be of other bytes than its file declares;
  no property speaks of the bytes.
* A wrong size or format rejects bytes that may be good, and rejection writes the
  whole session (780-784), whatever it has become since it was read (616): an
  ADMITTED or aborted one becomes REJECTED.
* `allow_duplicate` is always refused by an index (migration 0001:2924). "Supersede
  any previous "current" version of this book" (`ingestion.ts:300`) never happens:
  the version is created current first (267) and `book_version_current_key` (2927)
  refuses a second one, so that another file's version or a forced re-ingestion
  fails and leaves the book PARSING. `VersionStaysWhole` would hold either way.
* Two first ingestions that race write the same canonical text object, the loser
  perhaps last.
* A restored book is purged if a purge was queued; deleteBook does not see
  CREATED jobs; restoring bypasses the quota.

*Analysis and direction.*

* A child job is committed without a dispatch envelope and enqueued afterwards
  (`writes_scene.py:84`): if the worker dies in between, the sweeper skips it and
  the run stops.
* A chapter's analysis key has no run in it (`build_story_bible_delta.py:151`): a
  later run in the same mode that would continue with that chapter ends there.
* A retried first job of a direction leaves an abandoned draft
  (`generate_director_ir.py:112`); while a script is current no other direction
  can be finalised (`writes_director.py:276`), and its last job stays RUNNING. A
  failing revision rolls its own failure back (`revise_director_ir.py:176`).
* A short form and a long form that first appear in one chapter become two
  characters, and a character known by its short form is created again when its
  long form appears; "He said" makes a character "He". A location that is known
  already, and a claim repeated within a chapter, lose their later evidence.
* A chain's first job that a redelivery has CANCELLED is set to SUCCEEDED by the
  last one, whose update spares only SUCCEEDED and FAILED rows
  (`build_story_bible_delta.py:304-315`, `generate_director_ir.py:531-541`).
* "A speech tag immediately adjacent to this quoted span"
  (`speaker_resolver.py:94-95`) is the first tag in 80 characters on either side
  (89-103): another quote's, if that comes first, with confidence 0.95 and without
  a flag.
* An alias shared by two characters goes to the one registered last; an
  edit or a revision that read a chunk before it was claimed changes it
  afterwards (`writes_director.py:366`).

*Voices and synthesis.*

* approve writes by id after its check, so that it can undo a retirement
  (`voice.service.ts:362`; `database-schema.md:3106` speaks of FOR UPDATE).
  Retirement and assignment check each other's rows before and not when they write,
  so that a character may keep, or be given, a RETIRED voice (`met`).
* "Reassignment itself ... only reports impact" (641-642), and "provide a replacement
  assignment instead of clearing" (716-717): a replacement is always refused, since
  the previous row is pointed at the new one before that exists (664) and the
  foreign key is checked at once. No property asserts that it is refused, or that it
  is not; `SupersededOnlyIfSeen` would hold of one that replaces what it has read.
* An alias created between the first statement of a merge (`analysis.service.ts:622`)
  and its commit (676) stays with the merged character. Two merges of one loser, each
  of which has read it unmerged, both commit: its aliases are the first winner's,
  `merged_into` is the second's.
* A non-retryable error before the final attempt leaves the tts job RUNNING
  (`generate_tts_chunk.py:338`, against "a failed `TtsJob` is preserved, never
  silently dropped"). A second rendering of a chunk cannot be recorded: the
  superseded row is pointed at a row that does not exist yet (`writes_tts.py:209`).
  Two handlers of one chunk share a generation_version and its object
  (`overlapped`). The coordinator row of a generation is created SUCCEEDED
  (`tts.service.ts:156`), so that it cannot be cancelled.

*Assembly.*

* The formats required for READY are derived from the job rows that exist
  (`assembly-shared.ts:193`), which the enqueue loop creates one by one: READY
  may come before the second format has a row (`assembly-encode.ts:9-10` says
  otherwise).
* A worker that dies after the assembly is SUCCEEDED and before its encode jobs
  exist (`assembly-audiobook.ts:343`), or between an encode's SUCCEEDED and the
  publication (`assembly-encode.ts:192`), leaves the audiobook ASSEMBLING: the
  redelivery skips a terminal job.
* The final failure of MP3_PER_CHAPTER writes a rendition without a chapter,
  which a CHECK refuses (`assembly-encode.ts:698`, migration 0001:3183).
* A unique-key conflict ends the enqueue loop, and later formats have no job
  (`assembly-audiobook.ts:540`). A failing query after the rendition is READY
  marks it FAILED (`assembly-encode.ts:694`). A late encode of an older version
  moves the book's pointer back (603). Two concurrent publishers both emit
  `audiobook.completed` (586-589).
* The loser of a version race has already uploaded over the winner's master
  (`assembly-audiobook.ts:220`) or chapter object (`assembly-chapter.ts:227`; that
  object is not modelled).
* The fan-in's key is constant per book version (`assembly-chapter.ts:688`). A
  comment there (628-635) accepts two rows; the index refuses the second, the
  chapter job throws, and on its last attempt a SUCCEEDED chapter job becomes
  FAILED. After one fan-in row SUCCEEDED, later audiobook requests that
  reassemble a chapter never reach the audiobook by fan-in. That is why
  `FanInNotLost` asks for some request of the book, not one per assembly.
* A chunk that is quiet throughout (under -50 dBFS, above the worker's -60) is
  one silence; if its length is rounded up the silence ends before it and the
  whole chunk is trimmed away (`assembly-chapter.ts:536`), otherwise none of it.
  Up to 50 ms of sound outside an edge silence go with it.
* `force` meets the key of the SUCCEEDED row it wants to repeat. A job of an
  older take may commit after one of a newer take and be current; the newer
  take's key is then taken. A no-op accepts an audio that is no longer current.

*Events and read models.*

* Rows that commit behind the tail are never delivered
  (`event-stream.service.ts:272`; `late`); as many rows in one millisecond as a
  batch holds stall it (281; `Crowded`); a start that fails keeps its slot (160);
  a reconnection before the first frame starts from now; a 429 closes the
  EventSource for good (`refused`).
* Encodes count as assembly for the progress (`progress.service.ts:47`) and not for
  the assembly page (`assembly.service.ts:458-463`): while they run, the one shows a
  stage at work and the other does not. Progress is rounded to four decimals
  (462-466), so that 19999 of 20000 is 100%.
* One success outweighs every failure of a stage (`progress.service.ts:419`; the
  comment at 405-411 says the last word counts). "Nothing here reports `COMPLETED`
  on the strength of job state alone" (409-410), but assemblyStatus (397) and
  stageStatus (402) do: one assembled chapter of two, with no job left, is a
  COMPLETED stage, where ttsStatus would say PARTIAL. PARTIAL_OCR is unknown to the
  studio's table of statuses and keeps the analysis blocked.

*Ingestion.*

* minCharsPerPageForDigitalText is not used; noise is counted over first and
  last lines together and removed wherever it occurs; one-word paragraphs that
  are roman numerals are dropped; nested block tags of an EPUB discard the outer
  text; an empty chapter shares the position of the next one's first paragraph
  (such a version is NEEDS_REVIEW); a section without paragraphs is absent from
  the Markdown.

Abstractions to keep in mind: one job type stands for all in `JobLifecycle` (no
child jobs, so cancelJob's cascade is empty); a slot that BullMQ takes for dead
is dead there (`WorkerRuntime` has the lock lost by a live worker); commits of
`TtsGeneration` enqueue at once; one delivery format per book in
`ChapterAssembly`; chapters are complete or not, and mixed director versions
count as not; voice inconsistency and clipping are faults; the book's status
column is kept only where a property reads it; lengths in `Ingestion` are
counted in words and thresholds scaled to the bounds; so are those of
`Rendering`, where samples are magnitudes and loudness is an input.

**Not modelled.** The storage counters and usage; the counts of failed and
flagged units, the list of jobs and the tones of the chips in the read models;
replayJob; voice previews' audio; edits of titles, metadata, pronunciations,
covers and covers' upload sessions; the retention sweeper (single statements by
age; its branch for REJECTED files is never reached); the outbox relay and the
inbox (the streams read the table itself, and the relay forwards only the
job.created rows of cleanup_artifacts); quota limits and the audit trail; the
language-model providers, OCR, synthesis and ffmpeg's signal processing, which
are external; authentication, users and administration; listings and other
reads; the web application's rendering; configuration, logging, contracts and
infrastructure. `PROJECT.json` has the reason for each component.
