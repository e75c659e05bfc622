------------------------------ MODULE Direction ------------------------------
(***************************************************************************)
(* The direction of a book: DirectorService.startDirector, the chain of    *)
(* generate_director_ir jobs that writes the chunks of an audio_script     *)
(* chapter by chapter and makes it the book's script, and the ways a chunk *)
(* is changed afterwards: revise_director_ir, a user's edit, and the claim *)
(* of the TTS worker that freezes it.                                      *)
(*                                                                         *)
(* A chapter stands for its chunks.  Of the chunks of the current script   *)
(* the state is kept, OPEN for DRAFT and VALIDATED, and the number of      *)
(* decisions made on them (row_version).                                   *)
(***************************************************************************)
EXTENDS JobChain, Sequences, FiniteSetsExt

CONSTANTS
  Runs,        \* directions requested of the book
  Chapters,
  Plans,       \* the chapters of a run, in order: the book's, or one
  Revised,     \* chapters whose chunks are looked at after the script is current
  MaxEdits     \* bound: edits of chunks

ASSUME DirectionAssumption ==
  /\ Runs \subseteq Nat \ {0} /\ IsFiniteSet(Runs)
  /\ Plans \subseteq Seq(Chapters) \ {<<>>}
  \* a chapter is in a plan once
  /\ \A p \in Plans : \A i, k \in DOMAIN p : p[i] = p[k] => i = k
  /\ Revised \subseteq Chapters
  /\ Jobs = (Runs \X Chapters) \cup ({0} \X Revised)
  /\ MaxEdits \in Nat

VARIABLES
  rPc, plan,            \* a run: its request and its chapters
  script,               \* the audio_script its jobs write to, 0 before there is one
  next,                 \* the version number its first job has read as the next
  owner,                \* of an audio_script: the run of its job_id, 0 if there is none
  content,              \* the chapters with chunks
  current,              \* the one with is_current, book.current_audio_script_id
  book,                 \* book.status
  chunkState, decided,  \* the current script's chunks
  seen,                 \* the chunk state that the revision at work has read
  ePc, edits            \* the chapter whose chunk a user's request has read, and a bound

runVars == <<rPc, plan, script, next>>
scriptVars == <<owner, content, current, book>>
chunkVars == <<chunkState, decided, seen, ePc, edits>>
vars == <<chainVars, runVars, scriptVars, chunkVars>>

\* One per attempt, as an attempt on a first chapter begins with a new draft
Versions == 1..(Cardinality(Runs) * MaxAttempts + MaxTroubles)

Run(j) == j[1]
Chapter(j) == j[2]
Generates(j) == Run(j) # 0
Root(r) == <<r, plan[r][1]>>
IsRoot(j) == j = Root(Run(j))
Opened == {v \in Versions : owner[v] # 0}

\* the place of its chapter in the plan
Place(j) == CHOOSE i \in DOMAIN plan[Run(j)] : plan[Run(j)][i] = Chapter(j)

Remaining(j) == SubSeq(plan[Run(j)], Place(j) + 1, Len(plan[Run(j)]))

Successor(j) == <<Run(j), Head(Remaining(j))>>

Init ==
  /\ ChainInit
  /\ rPc = [r \in Runs |-> "idle"] /\ plan = [r \in Runs |-> <<>>]
  /\ script = [r \in Runs |-> 0] /\ next = [r \in Runs |-> 0]
  /\ owner = [v \in Versions |-> 0] /\ content = [v \in Versions |-> <<>>]
  /\ current = 0 /\ book = "ANALYZED"
  /\ chunkState = [c \in Revised |-> "none"] /\ decided = [c \in Revised |-> 0]
  /\ seen = [c \in Revised |-> "none"]
  /\ ePc = "idle" /\ edits = 0

-----------------------------------------------------------------------------
(* DirectorService.startDirector, of a book that is ingested and analyzed *)

\* No director job is active, as a query says; the chapters in scope
Check(r, p) ==
  /\ rPc[r] = "idle" /\ \A q \in Runs : q < r => rPc[q] # "idle"
  /\ \A j \in Jobs : status[j] \notin Active
  /\ rPc' = [rPc EXCEPT ![r] = "commit"]
  /\ plan' = [plan EXCEPT ![r] = p]
  /\ UNCHANGED <<chainVars, script, next, scriptVars, chunkVars>>

Commit(r) ==
  /\ rPc[r] = "commit"
  /\ rPc' = [rPc EXCEPT ![r] = "done"]
  /\ status' = [status EXCEPT ![Root(r)] = "CREATED"]
  /\ book' = "SCRIPTING"
  /\ UNCHANGED <<cancel, messageVars, bounds, plan, script, next, owner, content, current, chunkVars>>

-----------------------------------------------------------------------------
(* handle_generate_director_ir *)

\* First transaction.  The job that has no script reads the newest version number ...
ReadVersion(j) ==
  /\ Generates(j) /\ pc[j] = "load" /\ ~Over(j) /\ IsRoot(j)
  /\ next' = [next EXCEPT ![Run(j)] = Max(Opened \cup {0}) + 1]
  /\ Goto(j, "draft")
  /\ UNCHANGED <<rowVars, msg, tries, bounds, rPc, plan, script, scriptVars, chunkVars>>

\* Mutation of CreateDraftAudioScript: the chain goes on with the script of an earlier attempt
CreateDraftAudioScript_Reuses(j) ==
  LET r == Run(j)
  IN  /\ pc[j] = "draft" /\ next[r] \notin Opened
      /\ owner' = [owner EXCEPT ![next[r]] = r]
      /\ script' = [script EXCEPT ![r] = Max({current, 1})]
      /\ next' = [next EXCEPT ![r] = 0]
      /\ status' = MarkJobRunning(status, j)
      /\ Goto(j, "decide")
  /\ UNCHANGED <<cancel, msg, tries, bounds, rPc, plan, content, current, book, chunkVars>>

\* ... and creates a draft, of which a retry knows nothing: it creates another.
CreateDraftAudioScript(j) ==
  LET r == Run(j)
  IN  /\ pc[j] = "draft" /\ next[r] \notin Opened
      /\ owner' = [owner EXCEPT ![next[r]] = r]
      /\ script' = [script EXCEPT ![r] = next[r]]
      /\ next' = [next EXCEPT ![r] = 0]
      /\ status' = MarkJobRunning(status, j)
      /\ Goto(j, "decide")
  /\ UNCHANGED <<cancel, msg, tries, bounds, rPc, plan, content, current, book, chunkVars>>

\* Another run has committed that number meanwhile
DraftConflict(j) ==
  /\ pc[j] = "draft" /\ next[Run(j)] \in Opened
  /\ Finish(j, "retry")
  /\ UNCHANGED <<rowVars, bounds, runVars, scriptVars, chunkVars>>

\* The other chapters' jobs carry the script
Load(j) ==
  /\ Generates(j) /\ pc[j] = "load" /\ ~Over(j) /\ ~IsRoot(j)
  /\ status' = MarkJobRunning(status, j)
  /\ Goto(j, "decide")
  /\ UNCHANGED <<cancel, msg, tries, bounds, runVars, scriptVars, chunkVars>>

\* A TerminalJobError or a TransientJobError: FAILED on the final attempt only, and raised
DecideFails(j) ==
  /\ pc[j] = "decide"
  /\ Trouble
  /\ status' = IF Final(j) THEN MarkJobFailed(status, j) ELSE status
  /\ \E outcome \in {"failed", "retry"} : Finish(j, outcome)
  /\ UNCHANGED <<cancel, cancels, runVars, scriptVars, chunkVars>>

InsertChunks(j) == content' = [content EXCEPT ![script[Run(j)]] = Append(@, Chapter(j))]

\* Mutation of Continue: the row of the next chapter is left to the enqueue
Continue_Later(j) ==
  /\ Generates(j) /\ pc[j] = "decide" /\ Remaining(j) # <<>>
  /\ InsertChunks(j)
  /\ status' = MarkJobSucceeded(status, j)
  /\ Finish(j, "completed")
  /\ UNCHANGED <<cancel, bounds, runVars, owner, current, book, chunkVars>>

\* The decisions, chunk by chunk and outside any transaction.  Second transaction: the chunks,
\* and the job of the next chapter
Continue(j) ==
  /\ Generates(j) /\ pc[j] = "decide" /\ Remaining(j) # <<>>
  /\ InsertChunks(j)
  /\ status' = MarkJobSucceeded(CreateChildJob(status, Successor(j)), j)
  /\ Goto(j, "enqueue")
  /\ UNCHANGED <<cancel, msg, tries, bounds, runVars, owner, current, book, chunkVars>>

\* validate_coverage reads the chapters of the whole run back
Covers(v, r) == content'[v] = plan[r]

FinalizeAudioScript(v) ==
  /\ current' = v
  /\ book' = "SCRIPTED"
  /\ chunkState' = [c \in Revised |-> IF \E i \in DOMAIN content'[v] : content'[v][i] = c
                                       THEN "OPEN" ELSE "none"]

\* _finalize_run, on the last chapter.  It sets is_current before it clears the previous
\* script's, which audio_script_current_key admits when there is none.  A validation that fails,
\* of the coverage, of the rate of unknown speakers or of the voices, is an exception: see Raise.
FinalizeRun(j) ==
  LET r == Run(j)
  IN  /\ Generates(j) /\ pc[j] = "decide" /\ Remaining(j) = <<>>
      /\ current = 0
      /\ InsertChunks(j)
      /\ Covers(script[r], r)
      /\ FinalizeAudioScript(script[r])
      /\ status' = FinalizeRootJob(MarkJobSucceeded(status, j), Root(r))
      /\ Finish(j, "completed")
  /\ UNCHANGED <<cancel, bounds, runVars, owner, decided, seen, ePc, edits>>

\* Any other time the transaction is rolled back, and the row stays RUNNING
FinalizeRefused(j) ==
  /\ Generates(j) /\ pc[j] = "decide" /\ Remaining(j) = <<>>
  /\ current # 0
  /\ Finish(j, "retry")
  /\ UNCHANGED <<rowVars, bounds, runVars, scriptVars, chunkVars>>

-----------------------------------------------------------------------------
(* The current script's chunks *)

\* begin_tts_job, when the TTS worker claims a chunk of the chapter
Lock(c) ==
  /\ chunkState[c] = "OPEN"
  /\ chunkState' = [chunkState EXCEPT ![c] = "LOCKED"]
  /\ UNCHANGED <<chainVars, runVars, scriptVars, decided, seen, ePc, edits>>

\* DirectorService.reviseDirector: the key of a revision is taken while its row is live
ReviseDirector(j) ==
  /\ ~Generates(j)
  /\ chunkState[Chapter(j)] # "none"
  /\ ~Live(j) /\ status[j] = "ABSENT"
  /\ status' = [status EXCEPT ![j] = "CREATED"]
  /\ UNCHANGED <<cancel, messageVars, bounds, runVars, scriptVars, chunkVars>>

\* handle_revise_director_ir, first transaction: the chunks with their state
LoadRevision(j) ==
  /\ ~Generates(j) /\ pc[j] = "load" /\ ~Over(j)
  /\ status' = MarkJobRunning(status, j)
  /\ seen' = [seen EXCEPT ![Chapter(j)] = chunkState[Chapter(j)]]
  /\ Goto(j, "revise")
  /\ UNCHANGED <<cancel, msg, tries, bounds, runVars, scriptVars, chunkState, decided, ePc, edits>>

\* update_chunk_in_place, by id: the chunk is DRAFT whatever it was
UpdateInPlace(c) ==
  /\ decided' = [decided EXCEPT ![c] = @ + 1]
  /\ chunkState' = [chunkState EXCEPT ![c] = "OPEN"]

\* Mutation of Revise: whatever the chunk's state was
Revise_Frozen(j) ==
  /\ pc[j] = "revise"
  /\ UpdateInPlace(Chapter(j))
  /\ status' = MarkJobSucceeded(status, j)
  /\ Finish(j, "completed")
  /\ UNCHANGED <<cancel, bounds, runVars, scriptVars, seen, ePc, edits>>

\* Second transaction, the decision of the model included
Revise(j) ==
  /\ pc[j] = "revise" /\ seen[Chapter(j)] = "OPEN"
  /\ UpdateInPlace(Chapter(j))
  /\ status' = MarkJobSucceeded(status, j)
  /\ Finish(j, "completed")
  /\ UNCHANGED <<cancel, bounds, runVars, scriptVars, seen, ePc, edits>>

\* A frozen chunk gets a new version, supersede_locked_chunk, which is inserted while the old
\* one is current, against audio_script_chunk_sequence_current_key
RevisionRefused(j) ==
  /\ pc[j] = "revise" /\ seen[Chapter(j)] = "LOCKED"
  /\ Finish(j, "retry")
  /\ UNCHANGED <<rowVars, bounds, runVars, scriptVars, chunkVars>>

\* An error of the model: FAILED is written in the transaction that the raise rolls back
RevisionFails(j) ==
  /\ pc[j] = "revise"
  /\ Trouble
  /\ \E outcome \in {"failed", "retry"} : Finish(j, outcome)
  /\ UNCHANGED <<rowVars, cancels, runVars, scriptVars, chunkVars>>

\* DirectorService.updateAudioScriptChunk: a read and an update by id
ReadForEdit(c) ==
  /\ ePc = "idle" /\ edits < MaxEdits
  /\ chunkState[c] = "OPEN"
  /\ ePc' = c
  /\ edits' = edits + 1
  /\ UNCHANGED <<chainVars, runVars, scriptVars, chunkState, decided, seen>>

UpdateAudioScriptChunk(c) ==
  /\ ePc = c
  /\ UpdateInPlace(c)
  /\ ePc' = "idle"
  /\ UNCHANGED <<chainVars, runVars, scriptVars, seen, edits>>

-----------------------------------------------------------------------------
Elsewhere == UNCHANGED <<runVars, scriptVars, chunkVars>>

Works(j) ==
  \/ ReadVersion(j) \/ CreateDraftAudioScript(j) \/ DraftConflict(j) \/ Load(j)
  \/ Continue(j) \/ FinalizeRun(j) \/ FinalizeRefused(j)
  \/ LoadRevision(j) \/ Revise(j) \/ RevisionRefused(j)
  \/ (Delivers(j) /\ Elsewhere)
  \/ (Generates(j) /\ Enqueue(j, Successor(j)) /\ Elsewhere)

Disturbs(j) == DecideFails(j) \/ RevisionFails(j) \/ (Faults(j) /\ Elsewhere)

Dispatches(j) ==
  /\ Generates(j) => rPc[Run(j)] = "done" /\ IsRoot(j)
  /\ DispatchRoot(j)
  /\ Elsewhere

Next ==
  \/ \E r \in Runs : (\E p \in Plans : Check(r, p)) \/ Commit(r)
  \/ \E j \in Jobs : ReviseDirector(j) \/ Dispatches(j) \/ Works(j) \/ Disturbs(j)
  \/ \E c \in Revised : Lock(c) \/ ReadForEdit(c) \/ UpdateAudioScriptChunk(c)

\* The sweeper and the worker never stop for good
Fairness == \A j \in Jobs : WF_vars(Dispatches(j)) /\ WF_vars(Works(j))

Spec == Init /\ [][Next]_vars /\ Fairness

-----------------------------------------------------------------------------
(* Properties *)

Steps == {"idle", "load", "draft", "decide", "enqueue", "revise"}

RowsTyped ==
  /\ ChainTypeOK /\ pc \in [Jobs -> Steps] /\ troubles \in 0..MaxTroubles
  /\ rPc \in [Runs -> {"idle", "commit", "done"}] /\ plan \in [Runs -> Plans \cup {<<>>}]
  /\ script \in [Runs -> Versions \cup {0}] /\ next \in [Runs -> Versions \cup {0}]
  /\ owner \in [Versions -> Runs \cup {0}] /\ content \in [Versions -> Seq(Chapters)]
  /\ current \in Opened \cup {0}
  /\ book \in {"ANALYZED", "SCRIPTING", "SCRIPTED"}

ChunksTyped ==
  /\ chunkState \in [Revised -> {"none", "OPEN", "LOCKED"}] /\ decided \in [Revised -> Nat]
  /\ seen \in [Revised -> {"none", "OPEN", "LOCKED"}]
  /\ ePc \in Revised \cup {"idle"} /\ edits \in 0..MaxEdits

\* The types of rows, messages, runs, scripts and chunks.
TypeOK == RowsTyped /\ ChunksTyped

PlanOf(v) == IF owner[v] = 0 THEN <<>> ELSE plan[owner[v]]

Script == INSTANCE VersionChain WITH
  opened <- Opened, content <- content, current <- current,
  plan <- [v \in Versions |-> PlanOf(v)]

\* The chain implements VersionChain: a script, an abandoned draft too, holds a prefix of its
\* run's chapters, each once, and it is the book's script only when it holds them all.
ScriptsKept == Script!Spec

\* getDirectorState, without its look at review flags: the status of the newest root, which is a
\* run's as long as no revision has been asked for
Newest == Max({r \in Runs : rPc[r] = "done"} \cup {0})

RevisionAsked == \E j \in Jobs : ~Generates(j) /\ status[j] # "ABSENT"

DirectorState ==
  IF Newest = 0 THEN "NOT_STARTED"
  ELSE CASE status[Root(Newest)] \in {"FAILED", "CANCELLED"} -> status[Root(Newest)]
         [] status[Root(Newest)] = "SUCCEEDED" -> IF current = 0 THEN "VALIDATING" ELSE "COMPLETED"
         [] status[Root(Newest)] = "RUNNING" -> "RUNNING"
         [] OTHER -> "QUEUED"

\* The run's last job was refused for good because another run's script is the current one
LeftRunning(r) ==
  /\ current # 0 /\ owner[current] # r
  /\ \E j \in Jobs : Run(j) = r /\ msg[j] = "failed" /\ status[j] = "RUNNING" /\ Remaining(j) = <<>>

\* Drafts of other runs took the number it had read, at every attempt
OutOfTries(r) == rPc[r] = "done" /\ msg[Root(r)] = "failed" /\ script[r] = 0

\* A direction that is accepted becomes the book's script, and is shown as COMPLETED, unless
\* there was one already, two began at a time, the worker met a trouble or a user cancelled.
DirectionEnds ==
  \A r \in Runs : rPc[r] = "done" ~>
    \/ current # 0 /\ owner[current] = r /\ (Newest = r /\ ~RevisionAsked => DirectorState = "COMPLETED")
    \/ LeftRunning(r) \/ OutOfTries(r) \/ troubles # 0 \/ cancels # 0

\* A chunk the TTS worker has claimed is changed only by a request that read it before: a
\* revision or an edit that finds it LOCKED leaves it as it is.
FrozenOnceSeen ==
  [][\A c \in Revised :
       chunkState[c] = "LOCKED" /\ decided'[c] # decided[c]
         => \/ ePc = c
            \/ pc[<<0, c>>] = "revise" /\ seen[c] = "OPEN"]_vars

-----------------------------------------------------------------------------
(* The inductive invariant *)

\* A run has its plan from the check on.
RunsPlanned == \A r \in Runs : rPc[r] # "idle" => plan[r] \in Plans

\* The chapters of a run whose chunks are committed, in number.
Count(r) == IF script[r] = 0 THEN 0 ELSE Len(content[script[r]])

\* The transaction that does a job's work is committed.
Done(j) == Place(j) <= Count(Run(j))

\* The chain of a run: its rows are of chapters of the plan, up to the first without chunks; a
\* row whose work is done is SUCCEEDED, or was CANCELLED by a redelivery and is never run again.
RowInStep(j) ==
  /\ rPc[Run(j)] = "done"
  /\ \E i \in DOMAIN plan[Run(j)] : plan[Run(j)][i] = Chapter(j)
  /\ Place(j) <= Count(Run(j)) + 1
  /\ Done(j) => /\ status[j] \in {"SUCCEEDED", "CANCELLED"}
                /\ pc[j] # "idle" => status[j] = "SUCCEEDED"

\* A message is of a row that there is, and one to come has an attempt left.
MessageInStep(j) ==
  /\ msg[j] # "none" => status[j] # "ABSENT"
  /\ msg[j] \in {"none", "wait", "active"} => tries[j] < MaxAttempts
  /\ pc[j] \in {"draft", "decide", "enqueue"} => Generates(j)
  /\ pc[j] = "revise" => ~Generates(j)
  /\ pc[j] = "draft" => IsRoot(j) /\ ~Over(j) /\ next[Run(j)] # 0
  /\ pc[j] = "decide" => status[j] = "RUNNING" /\ script[Run(j)] # 0
  /\ pc[j] = "enqueue" =>
       /\ status[j] = "SUCCEEDED" /\ Place(j) < Len(plan[Run(j)])
       /\ msg[Successor(j)] = "none" /\ status[Successor(j)] # "ABSENT"

ChainInStep == \A j \in Jobs : Generates(j) /\ status[j] # "ABSENT" => RowInStep(j)
MessagesInStep == \A j \in Jobs : MessageInStep(j)

\* Scripts are numbered without gaps; the number a job has read is the next one, or was taken
\* since.  The script of a run is its own.
ScriptsNumbered ==
  /\ \A v \in Opened : rPc[owner[v]] = "done" /\ \A u \in 1..v : u \in Opened
  /\ \A r \in Runs : /\ script[r] # 0 => owner[script[r]] = r
                     /\ \A u \in 1..(next[r] - 1) : u \in Opened

\* A script holds a beginning of its run's plan; one that was abandoned holds nothing.
ScriptsFilled ==
  \A v \in Versions :
    /\ content[v] # <<>> => owner[v] # 0 /\ script[owner[v]] = v
    /\ owner[v] # 0 => /\ Len(content[v]) <= Len(plan[owner[v]])
                       /\ \A i \in 1..Len(content[v]) : content[v][i] = plan[owner[v]][i]

\* An attempt opens one script: there is one for each attempt that a run's first job has used
\* up, one for each trouble, which may end an attempt that is not counted, and one for the
\* attempt at work.
Attempts == (Runs \X (1..MaxAttempts)) \cup ({0} \X (1..MaxTroubles))

Used(a) ==
  IF a[1] = 0 THEN a[2] <= troubles
  ELSE /\ rPc[a[1]] = "done"
       /\ \/ a[2] <= tries[Root(a[1])]
          \/ a[2] = tries[Root(a[1])] + 1 /\ pc[Root(a[1])] \in {"decide", "enqueue"}

ScriptsCounted ==
  \E f \in [Opened -> Attempts] :
    /\ \A v, w \in Opened : f[v] = f[w] => v = w
    /\ \A v \in Opened : Used(f[v])

Core ==
  /\ RowsTyped /\ RunsPlanned /\ ChainInStep /\ MessagesInStep
  /\ ScriptsNumbered /\ ScriptsFilled /\ ScriptsCounted

IInv == Core /\ ChunksTyped
=============================================================================
