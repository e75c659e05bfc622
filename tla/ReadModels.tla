----------------------------- MODULE ReadModels ------------------------------
(***************************************************************************)
(* What a user is told: the progress read model of the API, derived from   *)
(* one snapshot of the rows, the ingestion, casting and assembly states,   *)
(* and what the studio makes of them (status chips, the generation plan,   *)
(* the next thing to do).  Nothing here changes state; every operator is   *)
(* a function of a snapshot.                                               *)
(*                                                                         *)
(* A snapshot's jobs is, for each stage, the set of statuses that at least *)
(* one of the stage's jobs has; the encodes, which the progress counts as  *)
(* assembly and the assembly page does not, are apart.  Unknown numbers    *)
(* are -1.  The counts of failed and flagged units, the list of jobs and   *)
(* the tones of the chips are left out.                                    *)
(***************************************************************************)
EXTENDS Integers, SequencesExt

Stages == <<"ingestion", "analysis", "director", "tts", "assembly">>

Moving == {"CREATED", "QUEUED", "RUNNING", "RETRYING"}
Terminal == {"SUCCEEDED", "FAILED", "CANCELLED", "DEAD_LETTERED"}

Least(a, b) == IF a < b THEN a ELSE b

\* The first of the stages named, in the order of the pipeline.
FirstStage(names) ==
    LET places == {i \in DOMAIN Stages : Stages[i] \in names}
    IN IF places = {} THEN "none" ELSE Stages[Min(places)]

JobStatuses == Moving \cup Terminal \cup {"BLOCKED"}
BookStatuses ==
    {"CREATED", "UPLOADED", "PARSING", "PARSED", "STRUCTURED", "ANALYZING", "ANALYZED", "CASTING",
     "SCRIPTING", "SCRIPTED", "GENERATING", "ASSEMBLING", "COMPLETED", "FAILED", "CANCELLED",
     "NEEDS_REVIEW"}
Approvals == {"DRAFT", "PREVIEW_GENERATED", "APPROVED", "LOCKED", "RETIRED"}

\* What a snapshot of a book with a cast may hold.  A script that is current
\* is VALIDATED: finalize_director_run makes it both at once.
Snapshots(cast) ==
    [jobs : [ToSet(Stages) -> SUBSET JobStatuses], encodes : SUBSET JobStatuses,
     version : {"none", "READY", "PARTIAL_OCR", "NEEDS_REVIEW", "FAILED"},
     pagesOk : Nat, pagesReview : Nat, pagesTotal : Nat \cup {-1},
     scenes : Nat, semantics : Nat, script : {"none", "VALIDATED"}, chunks : Nat,
     audioDone : Nat, chapters : Nat, assembled : Nat,
     elapsed : Int, book : BookStatuses, lastParse : JobStatuses \cup {"none"},
     voices : [cast -> Approvals \cup {"none"}],
     audiobook : {"none", "DRAFT_METADATA", "ASSEMBLING", "READY", "FAILED", "SUPERSEDED"},
     outdated : BOOLEAN]

----------------------------------------------------------------------------
(* Progress *)

\* Mutation of JobDerivedStatus: a finished job hides one that still runs.
DerivedSucceededFirst(statuses) ==
    CASE "SUCCEEDED" \in statuses -> "COMPLETED"
      [] statuses \cap {"RUNNING", "RETRYING"} # {} /\ "SUCCEEDED" \notin statuses -> "RUNNING"
      [] OTHER -> IF statuses \cap {"CREATED", "QUEUED"} # {} THEN "QUEUED" ELSE "NOT_STARTED"

\* The first line that applies.  One success outweighs every failure.
JobDerivedStatus(statuses) ==
    LET rules == << <<{"RUNNING", "RETRYING"}, "RUNNING">>,
                    <<{"CREATED", "QUEUED"}, "QUEUED">>,
                    <<{"BLOCKED"}, "BLOCKED">>,
                    <<{"SUCCEEDED"}, "COMPLETED">>,
                    <<{"FAILED", "DEAD_LETTERED"}, "FAILED">>,
                    <<{"CANCELLED"}, "CANCELLED">> >>
        applying == {i \in DOMAIN rules : rules[i][1] \cap statuses # {}}
    IN IF applying = {} THEN "NOT_STARTED" ELSE rules[Min(applying)][2]

IngestionStatus(statuses, version) ==
    CASE version = "READY" -> "COMPLETED"
      [] version \in {"PARTIAL_OCR", "NEEDS_REVIEW", "FAILED"} -> version
      [] OTHER -> JobDerivedStatus(statuses)

\* A stage whose own rows are complete is complete whatever its jobs do.
StageStatus(statuses, complete) ==
    IF complete THEN "COMPLETED" ELSE JobDerivedStatus(statuses)

DirectorStatus(statuses, script) ==
    LET derived == JobDerivedStatus(statuses) IN
    CASE script = "VALIDATED" -> "COMPLETED"
      [] script = "DRAFT" /\ derived = "COMPLETED" -> "VALIDATING"
      [] OTHER -> derived

TtsStatus(statuses, done, total) ==
    LET derived == JobDerivedStatus(statuses) IN
    CASE total <= 0 -> derived
      [] total > 0 /\ done >= total -> "COMPLETED"
      [] OTHER -> IF derived = "COMPLETED" THEN "PARTIAL" ELSE derived

AssemblyStatus(statuses, assembled, total) ==
    LET derived == JobDerivedStatus(statuses) IN
    CASE total > 0 /\ assembled >= total -> "COMPLETED"
      [] ~(total > 0 /\ assembled >= total) /\ derived = "NOT_STARTED" /\ "BLOCKED" \in statuses ->
             "BLOCKED"
      [] OTHER -> derived

\* The jobs that the progress of a stage counts.
StageJobs(s, n) == IF n = "assembly" THEN s.jobs[n] \cup s.encodes ELSE s.jobs[n]

\* Progress is in ten-thousandths.
Full == 10000

\* To the nearest number, a half up.
Rounded(a, b) == (2 * a + b) \div (2 * b)

\* Only the version itself may say that a book without pages is complete.
Ratio(done, total, version) ==
    IF total <= 0 THEN IF version = "READY" THEN Full ELSE -1
    ELSE Rounded(Full * Least(done, total), total)

Known(total) == IF total > 0 THEN total ELSE -1

Stage(status, progress, completed, total) ==
    [status |-> status, progress |-> progress, completed |-> completed, total |-> total]

IngestionStage(s) ==
    LET done == s.pagesOk + s.pagesReview
    IN Stage(IngestionStatus(s.jobs.ingestion, s.version), Ratio(done, s.pagesTotal, s.version),
             done, s.pagesTotal)

AnalysisStage(s) ==
    LET done == Least(s.semantics, s.scenes)
    IN Stage(StageStatus(s.jobs.analysis, s.semantics > 0 /\ s.semantics >= s.scenes),
             Ratio(done, s.scenes, "none"), done, Known(s.scenes))

DirectorStage(s) ==
    LET valid == s.script = "VALIDATED"
    IN Stage(DirectorStatus(s.jobs.director, s.script),
             IF s.script = "none" THEN -1 ELSE IF valid THEN Full ELSE 0,
             IF valid THEN s.chunks ELSE 0,
             IF s.script = "none" THEN -1 ELSE s.chunks)

\* Counted against the script's chunks, so it cannot fall as work is queued.
TtsStage(s) ==
    Stage(TtsStatus(s.jobs.tts, s.audioDone, Known(s.chunks)),
          Ratio(s.audioDone, s.chunks, "none"), s.audioDone, Known(s.chunks))

AssemblyStage(s) ==
    Stage(AssemblyStatus(StageJobs(s, "assembly"), s.assembled, Known(s.chapters)),
          Ratio(s.assembled, s.chapters, "none"), s.assembled, Known(s.chapters))

ComputeStages(s) ==
    [ingestion |-> IngestionStage(s), analysis |-> AnalysisStage(s),
     director |-> DirectorStage(s), tts |-> TtsStage(s), assembly |-> AssemblyStage(s)]

\* The first moving stage's own rate, or no estimate at all.
EstimateFor(stage, elapsed) ==
    LET remaining == stage.total - stage.completed
    IN IF stage.total = -1 \/ stage.completed <= 0 \/ remaining <= 0 THEN -1
       ELSE Rounded(elapsed * remaining, stage.completed)

Estimate(s, stages) ==
    LET active == FirstStage({n \in ToSet(Stages) : stages[n].status \in {"RUNNING", "QUEUED"}})
    IN IF active = "none" \/ s.elapsed <= 0 THEN -1 ELSE EstimateFor(stages[active], s.elapsed)

\* The mean over the stages that can be measured.
Overall(stages) ==
    LET known(n) == IF stages[n].progress = -1 THEN 0 ELSE 1
        share(n) == IF stages[n].progress = -1 THEN 0 ELSE stages[n].progress
        count == known("ingestion") + known("analysis") + known("director") + known("tts")
                     + known("assembly")
        sum == share("ingestion") + share("analysis") + share("director") + share("tts")
                     + share("assembly")
    IN IF count = 0 THEN -1 ELSE Rounded(sum, count)

BookProgress(s, stages) ==
    [stages |-> stages, estimate |-> Estimate(s, stages), overall |-> Overall(stages)]

GetBookProgress(s) == BookProgress(s, ComputeStages(s))

GetStageSummary(s) ==
    LET stages == ComputeStages(s) IN
    [n \in ToSet(Stages) |-> [status |-> stages[n].status, progress |-> stages[n].progress,
                              completed |-> stages[n].completed, total |-> stages[n].total]]

----------------------------------------------------------------------------
(* The ingestion state of a book *)

DeriveIngestionState(book, version, job) ==
    CASE version = "READY" -> "COMPLETED"
      [] version = "PARTIAL_OCR" -> "PARTIAL_OCR"
      [] version \notin {"READY", "PARTIAL_OCR"}
            /\ (version = "NEEDS_REVIEW" \/ book = "NEEDS_REVIEW") -> "NEEDS_REVIEW"
      [] OTHER ->
           CASE book = "FAILED" \/ job = "FAILED" -> "FAILED"
             [] book # "FAILED" /\ job = "CANCELLED" -> "CANCELLED"
             [] OTHER -> IF book = "PARSING" \/ job = "RUNNING" THEN "PARSING"
                         ELSE IF job \in {"QUEUED", "CREATED"} THEN "QUEUED" ELSE "NOT_STARTED"

\* The newest parse job speaks for the book.
GetIngestionStatus(s) == DeriveIngestionState(s.book, s.version, s.lastParse)

----------------------------------------------------------------------------
(* Casting *)

\* Every speaking character needs an active assignment of an approved voice.
CastingBlock(voice) ==
    CASE voice = "none" -> "NO_ASSIGNMENT"
      [] voice \in {"APPROVED", "LOCKED"} -> "none"
      [] OTHER -> "ASSIGNMENT_NOT_APPROVED"

CastingReady(voices) == \A c \in DOMAIN voices : CastingBlock(voices[c]) = "none"

----------------------------------------------------------------------------
(* Assembly *)

DeriveGenerationStatus(audiobook, chapters, assembled) ==
    CASE audiobook = "READY" -> "COMPLETED"
      [] audiobook \in {"FAILED", "ASSEMBLING"} -> audiobook
      [] audiobook = "DRAFT_METADATA" -> "BLOCKED"
      [] OTHER -> IF chapters = 0 \/ assembled = 0 THEN "NOT_STARTED" ELSE "ASSEMBLING"

\* Chapters without an assembled current audio, and whether there is a current job: one that
\* assembles, and not one that encodes.
GetAssemblyState(s) ==
    [status |-> DeriveGenerationStatus(s.audiobook, s.chapters, s.assembled),
     blocking |-> s.chapters - Least(s.assembled, s.chapters),
     working |-> s.jobs.assembly \cap (Moving \cup {"BLOCKED"}) # {}]

\* An audiobook of another text or story bible than the current one is stale.
GetAudiobookProject(s) ==
    [status |-> IF s.audiobook # "none" /\ s.outdated THEN "STALE"
                ELSE DeriveGenerationStatus(s.audiobook, s.chapters, s.assembled),
     blocking |-> s.chapters - Least(s.assembled, s.chapters)]

----------------------------------------------------------------------------
(* The studio *)

\* What a chip shows to be at work.
StageShownActive(status) == status \in {"QUEUED", "RUNNING", "VALIDATING"}
BookShownActive(status) ==
    status \in {"PARSING", "ANALYZING", "SCRIPTING", "GENERATING", "ASSEMBLING"}
JobShownActive(status) == status \in {"CREATED", "QUEUED", "RUNNING", "RETRYING"}

IsTerminalJobStatus(status) == status \in Terminal

IsCancellable(status) == ~IsTerminalJobStatus(status)

(* What stands in the way of a stage, as the studio sees it.  The script   *)
(* is loaded by a request of its own and may be missing; casting too.      *)
BlockedReasonFor(stage, stages, script, casting) ==
    CASE stage = "analysis" /\ stages.ingestion.status # "COMPLETED" -> "read_first"
      [] stage = "director" /\ stages.analysis.status # "COMPLETED" -> "analyse_first"
      [] stage = "tts" /\ script # "none" /\ script # "VALIDATED" -> "script_not_validated"
      [] stage = "tts" /\ script = "none" /\ stages.director.status # "COMPLETED" -> "script_first"
      [] stage = "tts" /\ casting # "unknown" /\ casting # "ready"
            /\ (script = "VALIDATED" \/ (script = "none" /\ stages.director.status = "COMPLETED")) ->
             "casting_incomplete"
      [] stage = "assembly" /\ stages.tts.completed = 0 -> "no_audio"
      [] OTHER -> "none"

BuildGenerationPlan(stages, script, casting) ==
    LET entry(n) ==
            [complete |-> stages[n].status = "COMPLETED",
             running |-> stages[n].status \in {"QUEUED", "RUNNING", "VALIDATING"},
             blocked |-> BlockedReasonFor(n, stages, script, casting)]
        entries == [n \in ToSet(Stages) |-> entry(n)]
        open == {n \in ToSet(Stages) : ~entries[n].complete /\ ~entries[n].running}
    IN [entries |-> entries, next |-> FirstStage(open)]

\* A review waiting for the user outranks the position in the pipeline.
NextActionForBook(status, needsReview, hasSourceFile) ==
    CASE needsReview \/ status = "NEEDS_REVIEW" -> "review"
      [] ~needsReview /\ status = "CREATED" -> IF hasSourceFile THEN "overview" ELSE "book"
      [] ~needsReview /\ status = "STRUCTURED" -> "book"
      [] ~needsReview /\ status \in {"ANALYZED", "CASTING"} -> "voices"
      [] ~needsReview /\ status \in {"SCRIPTED", "GENERATING", "ASSEMBLING", "CANCELLED"} ->
             "generation"
      [] ~needsReview /\ status = "COMPLETED" -> "audiobook"
      [] ~needsReview /\ status = "FAILED" -> "jobs"
      [] OTHER -> "overview"
=============================================================================
