----------------------------- MODULE StoryBible -----------------------------
(***************************************************************************)
(* The analysis of a book and its story bible: the API's startAnalysis,    *)
(* and the chain analyze_scene -> build_story_bible_delta ->               *)
(* analyze_scene -> ... by which the AI worker goes through the chapters   *)
(* and builds one story_bible_version.                                     *)
(*                                                                         *)
(* A version's content is the sequence of chapters whose relationships and *)
(* locations were integrated; of the registry of characters, which belongs *)
(* to the book, the names are kept that have one.  A run is one accepted   *)
(* startAnalysis with its plan, the chapters in order, and its mode.       *)
(***************************************************************************)
EXTENDS JobChain, Sequences, FiniteSetsExt

CONSTANTS
  Runs,        \* analyses requested of the book
  Chapters,    \* the chapters of its current version
  Plans,       \* the chapters of a run, in order
  Modes,       \* INCREMENTAL, REBUILD
  Names,       \* surface forms of characters
  Mentions     \* those each chapter mentions

ASSUME RunsAssumption == Runs \subseteq Nat /\ IsFiniteSet(Runs) /\ IsFiniteSet(Chapters)
ASSUME JobsAssumption ==
  /\ Jobs = Runs \X Chapters \X {"analyze", "delta"}
  /\ Plans \subseteq Seq(Chapters) \ {<<>>}
  \* a chapter is in a plan once
  /\ \A p \in Plans : \A i, k \in DOMAIN p : p[i] = p[k] => i = k
  /\ Mentions \in [Chapters -> SUBSET Names]

VARIABLES
  rPc, plan, mode,       \* a run: its request, its chapters and its mode
  version,               \* its story_bible_version, 0 before there is one
  next,                  \* the version number its first job has read as the next
  known,                 \* the names its job at work knows the characters of
  scenes, integrated,    \* of a version: chapters with scenes, chapters integrated
  isCurrent, superseded, \* of a version: is_current, superseded_at
  registry,              \* the names with a character and its alias
  bible,                 \* story_bible: status, current_version_id, chapters_analyzed
  book                   \* book.status

runVars == <<rPc, plan, mode>>
versionVars == <<version, next, known, scenes, integrated, isCurrent, superseded>>
bookVars == <<registry, bible, book>>
vars == <<chainVars, runVars, versionVars, bookVars>>

Versions == 1..Cardinality(Runs)
NoPlan == <<>>
NoMode == "no mode"

Run(j) == j[1]
Chapter(j) == j[2]
IsAnalyze(j) == j[3] = "analyze"
Root(r) == <<r, plan[r][1], "analyze">>
Opened == {version[r] : r \in Runs} \ {0}

\* the place of its chapter in the plan
Place(j) == CHOOSE i \in DOMAIN plan[Run(j)] : plan[Run(j)][i] = Chapter(j)

\* remaining_chapter_ids, which every payload hands on
Remaining(j) == SubSeq(plan[Run(j)], Place(j) + 1, Len(plan[Run(j)]))

Successor(j) ==
  IF IsAnalyze(j) THEN <<Run(j), Chapter(j), "delta">> ELSE <<Run(j), Head(Remaining(j)), "analyze">>

Init ==
  /\ ChainInit
  /\ rPc = [r \in Runs |-> "idle"]
  /\ plan = [r \in Runs |-> NoPlan]
  /\ mode = [r \in Runs |-> NoMode]
  /\ version = [r \in Runs |-> 0]
  /\ next = [r \in Runs |-> 0]
  /\ known = [r \in Runs |-> {}]
  /\ scenes = [v \in Versions |-> <<>>]
  /\ integrated = [v \in Versions |-> <<>>]
  /\ isCurrent = {} /\ superseded = {}
  /\ registry = {}
  /\ bible = [status |-> "ABSENT", current |-> 0, analyzed |-> 0]
  /\ book = "INGESTED"

-----------------------------------------------------------------------------
(* AnalysisService.startAnalysis *)

\* No job of an analysis is active, as a query says; the chapters in scope
Check(r, p, m) ==
  /\ rPc[r] = "idle"
  /\ \A q \in Runs : q < r => rPc[q] # "idle"
  /\ \A j \in Jobs : status[j] \notin Active
  /\ rPc' = [rPc EXCEPT ![r] = "commit"]
  /\ plan' = [plan EXCEPT ![r] = p]
  /\ mode' = [mode EXCEPT ![r] = m]
  /\ UNCHANGED <<chainVars, versionVars, bookVars>>

\* The first job and the book's status; the enqueue is DispatchRoot
Commit(r) ==
  /\ rPc[r] = "commit"
  /\ rPc' = [rPc EXCEPT ![r] = "done"]
  /\ status' = [status EXCEPT ![Root(r)] = "CREATED"]
  /\ book' = "ANALYZING"
  /\ UNCHANGED <<cancel, messageVars, bounds, plan, mode, versionVars, registry, bible>>

-----------------------------------------------------------------------------
(* handle_analyze_scene *)

\* First transaction: the inputs, and RUNNING
Gather(j) ==
  /\ IsAnalyze(j) /\ pc[j] = "load" /\ ~Over(j)
  /\ known' = [known EXCEPT ![Run(j)] = registry]
  /\ status' = MarkJobRunning(status, j)
  /\ Goto(j, "analyze")
  /\ UNCHANGED <<cancel, msg, tries, bounds, runVars, bookVars>>
  /\ UNCHANGED <<version, next, scenes, integrated, isCurrent, superseded>>

\* Outside any transaction
Analyze(j) ==
  /\ pc[j] = "analyze"
  /\ Goto(j, IF version[Run(j)] = 0 THEN "number" ELSE "persist")
  /\ UNCHANGED <<rowVars, msg, tries, bounds, runVars, versionVars, bookVars>>

\* A TerminalJobError or a TransientJobError: FAILED on the final attempt only, and raised
AnalyzeFails(j) ==
  /\ pc[j] = "analyze"
  /\ Trouble
  /\ status' = IF Final(j) THEN MarkJobFailed(status, j) ELSE status
  /\ \E outcome \in {"failed", "retry"} : Finish(j, outcome)
  /\ UNCHANGED <<cancel, cancels, runVars, versionVars, bookVars>>

\* Second transaction.  The first chapter of a run reads the newest version number ...
GetNextVersionNumber(j) ==
  /\ pc[j] = "number"
  /\ next' = [next EXCEPT ![Run(j)] = Max(Opened \cup {0}) + 1]
  /\ Goto(j, "persist")
  /\ UNCHANGED <<rowVars, msg, tries, bounds, runVars>>
  /\ UNCHANGED <<version, known, scenes, integrated, isCurrent, superseded, bookVars>>

\* ... and creates the version, with the book's story_bible BUILDING.
CreateStoryBibleVersion(r) ==
  /\ next[r] \notin Opened
  /\ version' = [version EXCEPT ![r] = next[r]]
  /\ bible' = [bible EXCEPT !.status = "BUILDING"]

\* The mentions no known character answers to become characters, each with an alias, which the
\* exclusion constraint on surface forms admits once
Discovered(j) == Mentions[Chapter(j)] \ known[Run(j)]

CreateCharacters(j) ==
  /\ Discovered(j) \cap registry = {}
  /\ registry' = registry \cup Discovered(j)

\* create_scene, create_scene_semantics, create_scene_participant, create_narrative_state
CreateScenes(v, c) == scenes' = [scenes EXCEPT ![v] = Append(@, c)]

\* Characters, scenes and narrative state, the row of the delta, SUCCEEDED
PersistAnalysis(j) ==
  LET r == Run(j)
  IN  /\ IsAnalyze(j) /\ pc[j] = "persist"
      /\ IF version[r] = 0 THEN CreateStoryBibleVersion(r) ELSE UNCHANGED <<version, bible>>
      /\ CreateCharacters(j)
      /\ CreateScenes(version'[r], Chapter(j))
      /\ status' = MarkJobSucceeded(CreateChildJob(status, Successor(j)), j)
      /\ Goto(j, "enqueue")
  /\ UNCHANGED <<cancel, msg, tries, bounds, runVars>>
  /\ UNCHANGED <<next, known, integrated, isCurrent, superseded, book>>

\* Another run has committed that version number or one of the names meanwhile
PersistConflict(j) ==
  /\ IsAnalyze(j) /\ pc[j] = "persist"
  /\ \/ version[Run(j)] = 0 /\ next[Run(j)] \in Opened
     \/ Discovered(j) \cap registry # {}
  /\ Finish(j, "retry")
  /\ UNCHANGED <<rowVars, bounds, runVars, versionVars, bookVars>>

-----------------------------------------------------------------------------
(* handle_build_story_bible_delta: one transaction, in which record_chapter_progress locks *)
(* the book's story_bible row                                                              *)

\* _integrate_relationships, _integrate_locations, record_chapter_progress
Integrates(j) ==
  LET v == version[Run(j)]
  IN  integrated' = [integrated EXCEPT ![v] = Append(@, Chapter(j))]

\* Mutation of FinalizeStoryBible: the previous version is left current
FinalizeStoryBible_KeepsOld(v) ==
  /\ isCurrent' = isCurrent \cup {v}
  /\ superseded' = superseded
  /\ bible' = [status |-> "READY", current |-> v, analyzed |-> bible.analyzed + 1]

FinalizeStoryBible(v) ==
  /\ isCurrent' = {v}
  /\ superseded' = superseded \cup (isCurrent \ {v})
  /\ bible' = [status |-> "READY", current |-> v, analyzed |-> bible.analyzed + 1]

\* The last chapter: the version is current and the book ANALYZED
FinishDelta(j) ==
  /\ ~IsAnalyze(j) /\ pc[j] = "load" /\ ~Over(j)
  /\ Remaining(j) = <<>>
  /\ Integrates(j)
  /\ FinalizeStoryBible(version[Run(j)])
  /\ status' = FinalizeRootJob(MarkJobSucceeded(status, j), Root(Run(j)))
  /\ book' = "ANALYZED"
  /\ Finish(j, "completed")
  /\ UNCHANGED <<cancel, bounds, runVars, version, next, known, scenes, registry>>

\* The key analyze_scene:{book version}:{chapter}:{mode} of a job that is not the first
KeyTaken(j) ==
  \E k \in Jobs : Live(k) /\ k # j /\ IsAnalyze(k) /\ k # Root(Run(k))
                  /\ Chapter(k) = Chapter(j) /\ mode[Run(k)] = mode[Run(j)]

\* Mutation of ContinueDelta: the job of the next chapter is created after the commit
ContinueDelta_Later(j) ==
  /\ ~IsAnalyze(j) /\ pc[j] = "load" /\ ~Over(j)
  /\ Remaining(j) # <<>> /\ ~KeyTaken(Successor(j))
  /\ Integrates(j)
  /\ bible' = [bible EXCEPT !.analyzed = @ + 1]
  /\ status' = MarkJobSucceeded(status, j)
  /\ Finish(j, "completed")
  /\ UNCHANGED <<cancel, bounds, runVars, version, next, known, scenes>>
  /\ UNCHANGED <<isCurrent, superseded, registry, book>>

\* Any other chapter: the job of the next one
ContinueDelta(j) ==
  /\ ~IsAnalyze(j) /\ pc[j] = "load" /\ ~Over(j)
  /\ Remaining(j) # <<>> /\ ~KeyTaken(Successor(j))
  /\ Integrates(j)
  /\ bible' = [bible EXCEPT !.analyzed = @ + 1]
  /\ status' = MarkJobSucceeded(CreateChildJob(status, Successor(j)), j)
  /\ Goto(j, "enqueue")
  /\ UNCHANGED <<cancel, msg, tries, bounds, runVars, version, next, known, scenes>>
  /\ UNCHANGED <<isCurrent, superseded, registry, book>>

\* ... which an earlier run in that mode has had: everything is rolled back, RUNNING too
DeltaConflict(j) ==
  /\ ~IsAnalyze(j) /\ pc[j] = "load" /\ ~Over(j)
  /\ Remaining(j) # <<>> /\ KeyTaken(Successor(j))
  /\ Finish(j, "retry")
  /\ UNCHANGED <<rowVars, bounds, runVars, versionVars, bookVars>>

-----------------------------------------------------------------------------
Works(j) ==
  \/ Gather(j) \/ Analyze(j) \/ GetNextVersionNumber(j) \/ PersistAnalysis(j) \/ PersistConflict(j)
  \/ FinishDelta(j) \/ ContinueDelta(j) \/ DeltaConflict(j)
  \/ /\ Delivers(j) \/ Enqueue(j, Successor(j))
     /\ UNCHANGED <<runVars, versionVars, bookVars>>

Disturbs(j) ==
  \/ AnalyzeFails(j)
  \/ Faults(j) /\ UNCHANGED <<runVars, versionVars, bookVars>>

Dispatches(r) ==
  /\ rPc[r] = "done"
  /\ DispatchRoot(Root(r))
  /\ UNCHANGED <<runVars, versionVars, bookVars>>

Next ==
  \/ \E r \in Runs : (\E p \in Plans, m \in Modes : Check(r, p, m)) \/ Commit(r) \/ Dispatches(r)
  \/ \E j \in Jobs : Works(j) \/ Disturbs(j)

\* The sweeper and the worker never stop for good: a job with a message is taken, a handler
\* that runs goes on
Fairness ==
  /\ \A r \in Runs : WF_vars(Dispatches(r))
  /\ \A j \in Jobs : WF_vars(Works(j))

Spec == Init /\ [][Next]_vars /\ Fairness

-----------------------------------------------------------------------------
(* Properties *)

Steps == {"idle", "load", "analyze", "number", "persist", "enqueue"}

\* The types of rows, messages, runs and versions.
TypeOK ==
  /\ ChainTypeOK
  /\ pc \in [Jobs -> Steps]
  /\ rPc \in [Runs -> {"idle", "commit", "done"}]
  /\ plan \in [Runs -> Plans \cup {NoPlan}] /\ mode \in [Runs -> Modes \cup {NoMode}]
  /\ version \in [Runs -> Versions \cup {0}] /\ next \in [Runs -> Versions \cup {0}]
  /\ known \in [Runs -> SUBSET Names] /\ registry \subseteq Names
  /\ scenes \in [Versions -> Seq(Chapters)] /\ integrated \in [Versions -> Seq(Chapters)]
  /\ isCurrent \subseteq Versions /\ superseded \subseteq Versions
  /\ bible \in [status : {"ABSENT", "BUILDING", "READY"}, current : Versions \cup {0}, analyzed : Nat]
  /\ book \in {"INGESTED", "ANALYZING", "ANALYZED"}

\* finalize_story_bible leaves one version current, the one story_bible points to, however
\* many runs end and in whatever order: there is no unique index to say so.
OneCurrent ==
  /\ isCurrent = {bible.current} \ {0}
  /\ superseded \cap isCurrent = {}

\* What readers of the story bible are promised
PlanOf(v) == IF \E r \in Runs : version[r] = v
             THEN plan[CHOOSE r \in Runs : version[r] = v] ELSE <<>>

Bible == INSTANCE VersionChain WITH
  opened <- Opened, content <- integrated, current <- bible.current,
  plan <- [v \in Versions |-> PlanOf(v)]

\* The chain implements it: versions are numbered in order, a version holds the chapters of
\* its run in order and once each, however often a job is redelivered, and becomes the
\* current one when it is complete and never changes again.
VersionsKept == Bible!Spec

Completed(r) == version[r] \in isCurrent \cup superseded
GivenUp(r) == \E j \in Jobs : /\ Run(j) = r /\ ~IsAnalyze(j) /\ msg[j] = "failed"
                              /\ KeyTaken(Successor(j))

\* A run that is accepted publishes its version, unless the worker met a trouble, a user
\* cancelled, or an earlier run in its mode holds the key of one of its chapters.
RunEnds ==
  \A r \in Runs :
    rPc[r] = "done" ~> (Completed(r) \/ GivenUp(r) \/ troubles # 0 \/ cancels # 0)

-----------------------------------------------------------------------------
(* The inductive invariant *)

\* A run has its plan from the check on.
RunsPlanned == \A r \in Runs : rPc[r] # "idle" => plan[r] \in Plans

\* The chapters of a run whose deltas are committed, in number.
Count(r) == IF version[r] = 0 THEN 0 ELSE Len(integrated[version[r]])

\* The transaction that does a job's work is committed.
Settled(j) ==
  IF IsAnalyze(j) THEN status[<<Run(j), Chapter(j), "delta">>] # "ABSENT" ELSE Place(j) <= Count(Run(j))

\* The chain of a run: its rows are of chapters of the plan, up to the first that is not
\* integrated; a row whose work is done is SUCCEEDED, or was CANCELLED by a redelivery and is
\* never run again.
RowInStep(j) ==
  /\ rPc[Run(j)] = "done"
  /\ \E i \in DOMAIN plan[Run(j)] : plan[Run(j)][i] = Chapter(j)
  /\ Place(j) <= Count(Run(j)) + 1
  /\ Place(j) <= Count(Run(j)) => Settled(j)
  /\ Settled(j) => status[j] \in {"SUCCEEDED", "CANCELLED"} /\ (pc[j] # "idle" => status[j] = "SUCCEEDED")
  /\ status[j] = "SUCCEEDED" => Settled(j)
  /\ ~IsAnalyze(j) => version[Run(j)] # 0 /\ status[<<Run(j), Chapter(j), "analyze">>] # "ABSENT"

\* A message is of a row that there is, and one to come has an attempt left.
MessageInStep(j) ==
  /\ msg[j] # "none" => status[j] # "ABSENT"
  /\ msg[j] \in {"none", "wait", "active"} => tries[j] < MaxAttempts
  /\ pc[j] \in {"analyze", "number", "persist"} => IsAnalyze(j) /\ status[j] = "RUNNING"
  /\ pc[j] = "number" => version[Run(j)] = 0
  /\ pc[j] = "persist" /\ version[Run(j)] = 0 => next[Run(j)] # 0
  /\ pc[j] = "enqueue" =>
       /\ status[j] = "SUCCEEDED" /\ (IsAnalyze(j) \/ Place(j) < Len(plan[Run(j)]))
       /\ msg[Successor(j)] = "none" /\ status[Successor(j)] # "ABSENT"

ChainInStep == \A j \in Jobs : status[j] # "ABSENT" => RowInStep(j)
MessagesInStep == \A j \in Jobs : MessageInStep(j)

\* Versions are numbered without gaps, one for each run; the number a job has read is the next
\* one, or was taken since.
VersionsNumbered ==
  /\ \A r \in Runs : version[r] # 0 => /\ rPc[r] = "done"
                                       /\ \A v \in 1..version[r] : v \in Opened
                                       /\ \A q \in Runs : version[q] = version[r] => q = r
  /\ \A r \in Runs : next[r] # 0 => \A v \in 1..(next[r] - 1) : v \in Opened

\* A version holds a beginning of its run's plan, all of it once it has been current.
VersionsFilled ==
  /\ \A v \in Versions : v \notin Opened => integrated[v] = <<>>
  /\ \A r \in Runs : version[r] # 0 =>
       /\ Len(integrated[version[r]]) <= Len(plan[r])
       /\ \A i \in 1..Len(integrated[version[r]]) : integrated[version[r]][i] = plan[r][i]
       /\ Completed(r) => Len(integrated[version[r]]) = Len(plan[r])
  /\ isCurrent \cup superseded \subseteq Opened

IInv ==
  /\ TypeOK /\ RunsPlanned /\ ChainInStep /\ MessagesInStep /\ VersionsNumbered /\ VersionsFilled
  /\ OneCurrent
=============================================================================
