-------------------------- MODULE ChapterAssembly --------------------------
(***************************************************************************)
(* From synthesised chunks to a command for the whole book: the API's      *)
(* startAssembly, the assemble_chapter jobs it plans (assembly-chapter.ts) *)
(* and the fan-in by which the last chapter asks for the audiobook, for    *)
(* one book version.                                                       *)
(*                                                                         *)
(* A chapter's ordered chunks and their current audio are a take; a new    *)
(* take never brings an old one back, since every synthesis makes a new    *)
(* audio_chunk row.  That a chapter has a second take at all is an         *)
(* assumption: insert_audio_chunk as it stands (see TtsGeneration) never   *)
(* replaces a row.  The manifest hash is the take.  A job is named by its *)
(* idempotency key assemble_chapter:{chapter}:{take}, which one live row   *)
(* may have.  What becomes of an assemble_audiobook row is Publication's   *)
(* subject; dispatch, retries and cancellation are JobLifecycle's.         *)
(***************************************************************************)
EXTENDS Naturals, FiniteSets

CONSTANTS
  Chapters,     \* the chapters of the book's current version
  Clients,      \* concurrent startAssembly requests
  Requests,     \* the bodies of startAssembly: chapters, whole, preview, force
  MaxTake,      \* bound: takes of each chapter
  MaxRequests,  \* bound: startAssembly requests
  MaxAttempts,  \* ASSEMBLY_MAX_ATTEMPTS
  MaxTroubles   \* bound: worker deaths and failing queries, uploads and ffmpeg runs

ASSUME ChaptersAssumption == IsFiniteSet(Chapters) /\ Chapters # {}
ASSUME RequestsAssumption ==
  Requests \subseteq [chapters : SUBSET Chapters, whole : BOOLEAN, preview : BOOLEAN, force : BOOLEAN]
ASSUME NumbersAssumption ==
  MaxTake \in [Chapters -> Nat] /\ MaxRequests \in Nat /\ MaxAttempts \in Nat \ {0} /\ MaxTroubles \in Nat

VARIABLES
  take, complete,      \* the chapter's take, and whether all its chunks are VALIDATED
  audio,               \* chapter_audio rows: the take of each version, 0 where there is none
  current,             \* the version with is_current, 0 before the first
  book,                \* assemble_audiobook rows by idempotency key
  \* startAssembly: step, scope, force, the takes read and the chapters planned
  rPc, rWhole, rForce, rTake, rPlan,
  \* assemble_chapter: the row with its scope, and the delivery of its message
  jStatus, jWhole, jPc, jTries, jTake, jVersion, jInTry,
  requests, troubles   \* counted for their bounds

sourceVars == <<take, complete>>
audioVars == <<audio, current>>
requestVars == <<rPc, rWhole, rForce, rTake, rPlan, requests>>
jobVars == <<jStatus, jWhole, jPc, jTries, jTake, jVersion, jInTry>>
vars == <<sourceVars, audioVars, book, requestVars, jobVars, troubles>>

Takes == UNION {1..MaxTake[c] : c \in Chapters}
\* a version is a take that was assembled
Versions == Takes
Jobs == {j \in Chapters \X Takes : j[2] <= MaxTake[j[1]]}
\* the fan-in's key, and startAssembly's, which holds the audio of every chapter
BookKeys == {<<"fanin">>} \cup ({"api"} \X [Chapters -> Versions])

RequestPcs == {"idle", "decide", "commit", "book"}
JobPcs == {"absent", "wait", "lookup", "noop", "start", "build", "commit",
           "fanin", "inflight", "trigger", "enqueue", "fail", "done"}

Init ==
  /\ take = [c \in Chapters |-> 0]
  /\ complete = [c \in Chapters |-> FALSE]
  /\ audio = [c \in Chapters |-> [v \in Versions |-> 0]]
  /\ current = [c \in Chapters |-> 0]
  /\ book = [k \in BookKeys |-> "ABSENT"]
  /\ rPc = [r \in Clients |-> "idle"]
  /\ rWhole = [r \in Clients |-> FALSE]
  /\ rForce = [r \in Clients |-> FALSE]
  /\ rTake = [r \in Clients |-> [c \in Chapters |-> 0]]
  /\ rPlan = [r \in Clients |-> {}]
  /\ jStatus = [j \in Jobs |-> "ABSENT"]
  /\ jWhole = [j \in Jobs |-> FALSE]
  /\ jPc = [j \in Jobs |-> "absent"]
  /\ jTries = [j \in Jobs |-> 0]
  /\ jTake = [j \in Jobs |-> 0]
  /\ jVersion = [j \in Jobs |-> 0]
  /\ jInTry = [j \in Jobs |-> FALSE]
  /\ requests = 0
  /\ troubles = 0

Trouble == troubles < MaxTroubles /\ troubles' = troubles + 1

\* The partial unique index on (tenant_id, idempotency_key)
KeyFree(status) == status \in {"ABSENT", "FAILED"}

Ready == \A c \in Chapters : current[c] # 0

\* the version of a chapter's audio that holds a take, 0 when none does
VersionOf(c, t) ==
  IF \E v \in Versions : audio[c][v] = t THEN CHOOSE v \in Versions : audio[c][v] = t ELSE 0

-----------------------------------------------------------------------------
(* The chunks, and the audiobook job *)

\* The last chunk of a chapter is synthesised and VALIDATED
Synthesise(c) ==
  /\ take[c] < MaxTake[c]
  /\ take' = [take EXCEPT ![c] = @ + 1]
  /\ complete' = [complete EXCEPT ![c] = TRUE]
  /\ UNCHANGED <<audioVars, book, requestVars, jobVars, troubles>>

\* A new director run inserts its chunks of the chapter, current ones without audio (bounded
\* by the takes left)
Withdraw(c) ==
  /\ complete[c]
  /\ take[c] < MaxTake[c]
  /\ complete' = [complete EXCEPT ![c] = FALSE]
  /\ UNCHANGED <<take, audioVars, book, requestVars, jobVars, troubles>>

BookJobEnds(k) ==
  /\ book[k] = "CREATED"
  /\ \E outcome \in {"SUCCEEDED", "FAILED"} : book' = [book EXCEPT ![k] = outcome]
  /\ UNCHANGED <<sourceVars, audioVars, requestVars, jobVars, troubles>>

-----------------------------------------------------------------------------
(* AssemblyService.startAssembly *)

RGoto(r, pc) == rPc' = [rPc EXCEPT ![r] = pc]

\* The chunks of the chapters are read.  Scope AUDIOBOOK targets all of them; incomplete ones
\* are left out under allow_partial_preview and refused otherwise.
RRead(r, body) ==
  LET candidates == {c \in body.chapters : complete[c]}
  IN  /\ rPc[r] = "idle"
      /\ body.whole => body.chapters = Chapters
      /\ candidates # {} /\ (body.preview \/ candidates = body.chapters)
      /\ requests < MaxRequests /\ requests' = requests + 1
      /\ RGoto(r, "decide")
      /\ rWhole' = [rWhole EXCEPT ![r] = body.whole]
      /\ rForce' = [rForce EXCEPT ![r] = body.force]
      /\ rTake' = [rTake EXCEPT ![r] =
                     [c \in Chapters |-> IF c \in candidates THEN take[c] ELSE 0]]
      /\ UNCHANGED rPlan
      /\ UNCHANGED <<sourceVars, audioVars, book, jobVars, troubles>>

\* What the plan leaves to do: chapters whose current audio is not of the take read
Outdated(r) ==
  {c \in Chapters : rTake[r][c] # 0 /\
     (rForce[r] \/ current[c] = 0 \/ audio[c][current[c]] # rTake[r][c])}

REnd(r) ==
  /\ RGoto(r, "idle")
  /\ rWhole' = [rWhole EXCEPT ![r] = FALSE]
  /\ rForce' = [rForce EXCEPT ![r] = FALSE]
  /\ rTake' = [rTake EXCEPT ![r] = [c \in Chapters |-> 0]]
  /\ rPlan' = [rPlan EXCEPT ![r] = {}]
  /\ UNCHANGED requests

\* Every chapter was complete and up to date, and the audiobook is asked for
AsksForBook(r) == rWhole[r] /\ \A c \in Chapters : rTake[r][c] # 0

RDecide(r) ==
  /\ rPc[r] = "decide"
  /\ IF Outdated(r) = {} /\ ~AsksForBook(r)
     THEN REnd(r)
     ELSE /\ RGoto(r, IF Outdated(r) = {} THEN "book" ELSE "commit")
          /\ rPlan' = [rPlan EXCEPT ![r] = Outdated(r)]
          /\ UNCHANGED <<rWhole, rForce, rTake, requests>>
  /\ UNCHANGED <<sourceVars, audioVars, book, jobVars, troubles>>

Planned(r) == {<<c, rTake[r][c]>> : c \in rPlan[r]}

\* One transaction creates the rows of all planned chapters (once the message of a FAILED
\* row with the same key has gone)
RCommit(r) ==
  /\ rPc[r] = "commit"
  /\ \A j \in Planned(r) : KeyFree(jStatus[j]) /\ jPc[j] \in {"absent", "done"}
  /\ jStatus' = [j \in Jobs |-> IF j \in Planned(r) THEN "CREATED" ELSE jStatus[j]]
  /\ jWhole' = [j \in Jobs |-> IF j \in Planned(r) THEN rWhole[r] ELSE jWhole[j]]
  /\ jPc' = [j \in Jobs |-> IF j \in Planned(r) THEN "wait" ELSE jPc[j]]
  /\ jTries' = [j \in Jobs |-> IF j \in Planned(r) THEN 0 ELSE jTries[j]]
  /\ REnd(r)
  /\ UNCHANGED <<sourceVars, audioVars, book, jTake, jVersion, jInTry, troubles>>

\* One key is taken: the transaction is rolled back, and the request ends with the error
RCommitConflict(r) ==
  /\ rPc[r] = "commit"
  /\ \E j \in Planned(r) : ~KeyFree(jStatus[j])
  /\ REnd(r)
  /\ UNCHANGED <<sourceVars, audioVars, book, jobVars, troubles>>

\* maybeEnqueueAssembleAudiobook: the row, or nothing when a READY audiobook has the
\* formats, or the unique index's refusal
RBook(r) ==
  /\ rPc[r] = "book"
  /\ book' \in {book} \cup
       (IF Ready /\ KeyFree(book[<<"api", current>>])
        THEN {[book EXCEPT ![<<"api", current>>] = "CREATED"]} ELSE {})
  /\ REnd(r)
  /\ UNCHANGED <<sourceVars, audioVars, jobVars, troubles>>

-----------------------------------------------------------------------------
(* processAssembleChapterJob, for the job j of chapter j[1] *)

Goto(j, pc) == jPc' = [jPc EXCEPT ![j] = pc]

\* The end of a delivery: what it read is forgotten, unless the row recorded it as its result
Leave(j, pc, status) ==
  /\ Goto(j, pc)
  /\ jStatus' = [jStatus EXCEPT ![j] = status]
  /\ jTake' = [jTake EXCEPT ![j] = IF status = "SUCCEEDED" THEN @ ELSE 0]
  /\ jVersion' = [jVersion EXCEPT ![j] = IF status = "SUCCEEDED" THEN @ ELSE 0]
  /\ jInTry' = [jInTry EXCEPT ![j] = FALSE]

\* The processor threw: another attempt, or none left
Nack(j, status) ==
  /\ jTries' = [jTries EXCEPT ![j] = @ + 1]
  /\ Leave(j, IF jTries[j] + 1 >= MaxAttempts THEN "done" ELSE "wait", status)

\* A redelivered terminal job is skipped
Skip(j) ==
  /\ jPc[j] = "wait"
  /\ jStatus[j] \in {"SUCCEEDED", "FAILED"}
  /\ Leave(j, "done", jStatus[j])
  /\ UNCHANGED <<jWhole, jTries>>
  /\ UNCHANGED <<sourceVars, audioVars, book, requestVars, troubles>>

\* handleChapterManifestIncomplete (or handleDirectorVersionMixing): FAILED, no throw
Incomplete(j) ==
  /\ jPc[j] = "wait"
  /\ jStatus[j] \notin {"SUCCEEDED", "FAILED"}
  /\ ~complete[j[1]]
  /\ Leave(j, "done", "FAILED")
  /\ UNCHANGED <<jWhole, jTries>>
  /\ UNCHANGED <<sourceVars, audioVars, book, requestVars, troubles>>

\* The chunks are read as they are now, whatever the take the request saw
Load(j) ==
  /\ jPc[j] = "wait"
  /\ jStatus[j] \notin {"SUCCEEDED", "FAILED"}
  /\ complete[j[1]]
  /\ jTake' = [jTake EXCEPT ![j] = take[j[1]]]
  /\ Goto(j, "lookup")
  /\ UNCHANGED <<jStatus, jWhole, jTries, jVersion, jInTry>>
  /\ UNCHANGED <<sourceVars, audioVars, book, requestVars, troubles>>

\* Mutation of Lookup: the current audio will do, whatever its manifest
Lookup_AnyManifest(j) ==
  /\ jPc[j] = "lookup"
  /\ jVersion' = [jVersion EXCEPT ![j] = current[j[1]]]
  /\ Goto(j, IF current[j[1]] = 0 THEN "start" ELSE "noop")
  /\ UNCHANGED <<jStatus, jWhole, jTries, jTake, jInTry>>
  /\ UNCHANGED <<sourceVars, audioVars, book, requestVars, troubles>>

\* An audio of the same manifest, current or not, makes the job a no-op
Lookup(j) ==
  /\ jPc[j] = "lookup"
  /\ jVersion' = [jVersion EXCEPT ![j] = VersionOf(j[1], jTake[j])]
  /\ Goto(j, IF VersionOf(j[1], jTake[j]) = 0 THEN "start" ELSE "noop")
  /\ UNCHANGED <<jStatus, jWhole, jTries, jTake, jInTry>>
  /\ UNCHANGED <<sourceVars, audioVars, book, requestVars, troubles>>

\* Mutation of Noop: a job that built nothing does not look for the fan-in
Noop_Quiet(j) ==
  /\ jPc[j] = "noop"
  /\ Leave(j, "done", "SUCCEEDED")
  /\ UNCHANGED <<jWhole, jTries>>
  /\ UNCHANGED <<sourceVars, audioVars, book, requestVars, troubles>>

Noop(j) ==
  /\ jPc[j] = "noop"
  /\ jStatus' = [jStatus EXCEPT ![j] = "SUCCEEDED"]
  /\ Goto(j, "fanin")
  /\ UNCHANGED <<jWhole, jTries, jTake, jVersion, jInTry>>
  /\ UNCHANGED <<sourceVars, audioVars, book, requestVars, troubles>>

Start(j) ==
  /\ jPc[j] = "start"
  /\ jStatus' = [jStatus EXCEPT ![j] = "RUNNING"]
  /\ jInTry' = [jInTry EXCEPT ![j] = TRUE]
  /\ Goto(j, "build")
  /\ UNCHANGED <<jWhole, jTries, jTake, jVersion>>
  /\ UNCHANGED <<sourceVars, audioVars, book, requestVars, troubles>>

\* one more than the latest version of a chapter's audio
NextVersion(c) ==
  LET versions == {v \in Versions : audio[c][v] # 0}
  IN  IF versions = {} THEN 1 ELSE (CHOOSE v \in versions : \A w \in versions : w <= v) + 1

\* The next version is read, outside the transaction that takes it; then assembleChapterAudio
\* and the upload, which change no row
Build(j) ==
  /\ jPc[j] = "build"
  /\ jVersion' = [jVersion EXCEPT ![j] = NextVersion(j[1])]
  /\ Goto(j, "commit")
  /\ UNCHANGED <<jStatus, jWhole, jTries, jTake, jInTry>>
  /\ UNCHANGED <<sourceVars, audioVars, book, requestVars, troubles>>

\* chapter_audio_chapter_id_version_key and chapter_audio_manifest_key
RowFree(c, v, t) == VersionOf(c, t) = 0 /\ audio[c][v] = 0

\* The transaction that demotes the current audio and creates the new one
Commit(j) ==
  /\ jPc[j] = "commit"
  /\ RowFree(j[1], jVersion[j], jTake[j])
  /\ audio' = [audio EXCEPT ![j[1]][jVersion[j]] = jTake[j]]
  /\ current' = [current EXCEPT ![j[1]] = jVersion[j]]
  /\ jStatus' = [jStatus EXCEPT ![j] = "SUCCEEDED"]
  /\ Goto(j, "fanin")
  /\ UNCHANGED <<jWhole, jTries, jTake, jVersion, jInTry>>
  /\ UNCHANGED <<sourceVars, book, requestVars, troubles>>

\* Mutation of CommitConflict: the violation is taken to mean that the work is done
CommitConflict_Swallowed(j) ==
  /\ jPc[j] = "commit"
  /\ ~RowFree(j[1], jVersion[j], jTake[j])
  /\ Leave(j, "done", jStatus[j])
  /\ UNCHANGED <<jWhole, jTries>>
  /\ UNCHANGED <<sourceVars, audioVars, book, requestVars, troubles>>

CommitConflict(j) ==
  /\ jPc[j] = "commit"
  /\ ~RowFree(j[1], jVersion[j], jTake[j])
  /\ Goto(j, "fail")
  /\ UNCHANGED <<jStatus, jWhole, jTries, jTake, jVersion, jInTry>>
  /\ UNCHANGED <<sourceVars, audioVars, book, requestVars, troubles>>

-----------------------------------------------------------------------------
(* maybeTriggerAudiobookFanIn *)

\* Ends the delivery, or goes on with it
Proceed(j, on, pc) ==
  IF on THEN Goto(j, pc) /\ UNCHANGED <<jStatus, jTake, jVersion, jInTry>>
        ELSE Leave(j, "done", jStatus[j])

\* Only for scope AUDIOBOOK, and once every chapter has a current audio
FanIn(j) ==
  /\ jPc[j] = "fanin"
  /\ Proceed(j, jWhole[j] /\ Ready, "inflight")
  /\ UNCHANGED <<jWhole, jTries>>
  /\ UNCHANGED <<sourceVars, audioVars, book, requestVars, troubles>>

InFlight(j) ==
  /\ jPc[j] = "inflight"
  /\ Proceed(j, \A k \in BookKeys : book[k] # "CREATED", "trigger")
  /\ UNCHANGED <<jWhole, jTries>>
  /\ UNCHANGED <<sourceVars, audioVars, book, requestVars, troubles>>

Trigger(j) ==
  /\ jPc[j] = "trigger"
  /\ KeyFree(book[<<"fanin">>])
  /\ book' = [book EXCEPT ![<<"fanin">>] = "CREATED"]
  /\ Goto(j, "enqueue")
  /\ UNCHANGED <<jStatus, jWhole, jTries, jTake, jVersion, jInTry>>
  /\ UNCHANGED <<sourceVars, audioVars, requestVars, troubles>>

\* enqueueProcessingJob; when it fails the row is left to the sweeper, and the chapter job
\* has thrown
Enqueue(j) ==
  /\ jPc[j] = "enqueue"
  /\ Leave(j, "done", jStatus[j])
  /\ UNCHANGED <<jWhole, jTries>>
  /\ UNCHANGED <<sourceVars, audioVars, book, requestVars, troubles>>

\* The step throws: into the failure handler when an audio was built, past it when not
Throws(j) ==
  IF jInTry[j] THEN Goto(j, "fail") /\ UNCHANGED <<jStatus, jTries, jTake, jVersion, jInTry>>
               ELSE Nack(j, jStatus[j])

\* A fan-in row of this book version is CREATED or SUCCEEDED: the index refuses another
TriggerConflict(j) ==
  /\ jPc[j] = "trigger"
  /\ ~KeyFree(book[<<"fanin">>])
  /\ Throws(j)
  /\ UNCHANGED jWhole
  /\ UNCHANGED <<sourceVars, audioVars, book, requestVars, troubles>>

-----------------------------------------------------------------------------
(* handleChapterAssemblyFailure, faults *)

\* Recorded on the final attempt, over a SUCCEEDED too when the fan-in threw
Fail(j) ==
  /\ jPc[j] = "fail"
  /\ Nack(j, IF jTries[j] + 1 >= MaxAttempts THEN "FAILED" ELSE jStatus[j])
  /\ UNCHANGED jWhole
  /\ UNCHANGED <<sourceVars, audioVars, book, requestVars, troubles>>

\* A query, an upload, an enqueue or ffmpeg fails, the mastered audio clips, or the voice of
\* a character is not consistent, which a CHECK of chapter_audio refuses
Fault(j) ==
  /\ jPc[j] \notin {"absent", "done"}
  /\ Trouble
  /\ IF jPc[j] = "fail" THEN Nack(j, jStatus[j]) ELSE Throws(j)
  /\ UNCHANGED jWhole
  /\ UNCHANGED <<sourceVars, audioVars, book, requestVars>>

\* The worker dies; BullMQ finds the job stalled and delivers it again (the first time)
Crash(j) ==
  /\ jPc[j] \notin {"absent", "wait", "done"}
  /\ Trouble
  /\ Leave(j, "wait", jStatus[j])
  /\ UNCHANGED <<jWhole, jTries>>
  /\ UNCHANGED <<sourceVars, audioVars, book, requestVars>>

-----------------------------------------------------------------------------
JobStep(j) ==
  \/ Skip(j) \/ Incomplete(j) \/ Load(j) \/ Lookup(j) \/ Noop(j)
  \/ Start(j) \/ Build(j) \/ Commit(j) \/ CommitConflict(j)
  \/ FanIn(j) \/ InFlight(j) \/ Trigger(j) \/ TriggerConflict(j) \/ Enqueue(j) \/ Fail(j)

Next ==
  \/ \E c \in Chapters : Synthesise(c) \/ Withdraw(c)
  \/ \E k \in BookKeys : BookJobEnds(k)
  \/ \E r \in Clients :
       \/ \E body \in Requests : RRead(r, body)
       \/ RDecide(r) \/ RCommit(r) \/ RCommitConflict(r) \/ RBook(r)
  \/ \E j \in Jobs : JobStep(j) \/ Fault(j) \/ Crash(j)

Spec == Init /\ [][Next]_vars

-----------------------------------------------------------------------------
(* Properties *)

\* The types of the rows, the objects, the requests and the deliveries.
TypeOK ==
  /\ take \in [Chapters -> Takes \cup {0}]
  /\ complete \in [Chapters -> BOOLEAN]
  /\ audio \in [Chapters -> [Versions -> Takes \cup {0}]]
  /\ current \in [Chapters -> Versions \cup {0}]
  /\ book \in [BookKeys -> {"ABSENT", "CREATED", "SUCCEEDED", "FAILED"}]
  /\ rPc \in [Clients -> RequestPcs]
  /\ rWhole \in [Clients -> BOOLEAN] /\ rForce \in [Clients -> BOOLEAN]
  /\ rTake \in [Clients -> [Chapters -> Takes \cup {0}]]
  /\ rPlan \in [Clients -> SUBSET Chapters]
  /\ jStatus \in [Jobs -> {"ABSENT", "CREATED", "RUNNING", "SUCCEEDED", "FAILED"}]
  /\ jWhole \in [Jobs -> BOOLEAN] /\ jInTry \in [Jobs -> BOOLEAN]
  /\ jPc \in [Jobs -> JobPcs]
  /\ jTries \in [Jobs -> 0..MaxAttempts]
  /\ jTake \in [Jobs -> Takes \cup {0}]
  /\ jVersion \in [Jobs -> {0} \cup Versions \cup {v + 1 : v \in Versions}]
  /\ requests \in 0..MaxRequests /\ troubles \in 0..MaxTroubles

\* A chapter job that SUCCEEDED names an audio of exactly the chunks it read, whether it
\* built that version or found it, and whatever other jobs of the chapter ran meanwhile.
AudioOfResult ==
  \A j \in Jobs : jStatus[j] = "SUCCEEDED" =>
    jVersion[j] # 0 /\ audio[j[1]][jVersion[j]] = jTake[j]

\* A job whose message is gone has an outcome, also when it lost its version or its manifest
\* to another job of the chapter; only a fault or a death leaves a row behind.
NoJobLeftBehind ==
  troubles = 0 => \A j \in Jobs : jPc[j] = "done" => jStatus[j] \in {"SUCCEEDED", "FAILED"}

\* When the deliveries of jobs that cover every chapter as part of the audiobook are over,
\* the audiobook has been asked for: the last two chapters cannot each leave it to the
\* other, nor a no-op to the job that did its work for another request.
FanInNotLost ==
  /\ troubles = 0
  /\ \A c \in Chapters : \E t \in 1..MaxTake[c] :
       jStatus[<<c, t>>] = "SUCCEEDED" /\ jWhole[<<c, t>>] /\ jPc[<<c, t>>] = "done"
  => \E k \in BookKeys : book[k] # "ABSENT"

-----------------------------------------------------------------------------
(* The inductive invariant *)

\* The chunks that there are; a complete chapter has a take.
TakesCounted ==
  \A c \in Chapters : take[c] \in 0..MaxTake[c] /\ (complete[c] => take[c] # 0)

\* The audio rows of a chapter are numbered without gaps up to the current one, and no two are
\* of one take.
RowsNumbered ==
  \A c \in Chapters :
    /\ current[c] \in 0..take[c]
    /\ \A v \in Versions :
         /\ audio[c][v] \in 0..take[c]
         /\ audio[c][v] # 0 <=> v <= current[c]
         /\ \A w \in Versions : audio[c][v] = audio[c][w] => v = w \/ audio[c][v] = 0

\* What a delivery knows at each place, and that it has an attempt left.
DeliveryInStep ==
  \A j \in Jobs :
    /\ jPc[j] \in {"lookup", "noop", "start", "build", "commit"} =>
         jTake[j] \in 1..take[j[1]] /\ jStatus[j] \notin {"SUCCEEDED", "FAILED"}
    /\ jPc[j] = "noop" => jVersion[j] \in Versions /\ audio[j[1]][jVersion[j]] = jTake[j]
    /\ jPc[j] = "commit" => jVersion[j] \in 1..current[j[1]] + 1
    /\ jPc[j] \in {"fanin", "inflight", "trigger", "enqueue"} => jStatus[j] = "SUCCEEDED"
    /\ jPc[j] # "done" => jTries[j] < MaxAttempts

\* The result of a job is a row of its chapter.
ResultNamed ==
  \A j \in Jobs : jStatus[j] = "SUCCEEDED" =>
    jVersion[j] \in Versions /\ jTake[j] # 0 /\ audio[j[1]][jVersion[j]] = jTake[j]

\* The audiobook has been asked for.
BookAsked == \E k \in BookKeys : book[k] # "ABSENT"

\* A choice of one SUCCEEDED job with scope AUDIOBOOK for each chapter.
Covers(s) ==
  \A c \in Chapters :
    s[c] <= MaxTake[c] /\ jStatus[<<c, s[c]>>] = "SUCCEEDED" /\ jWhole[<<c, s[c]>>]

\* Of jobs that cover the book, one has yet to look for the fan-in, unless one has found it.
FanInPending ==
  troubles = 0 => \A s \in [Chapters -> Takes] : Covers(s) =>
    BookAsked \/ \E c \in Chapters : jPc[<<c, s[c]>>] \in {"fanin", "inflight", "trigger"}

IInv ==
  /\ TypeOK /\ TakesCounted /\ RowsNumbered /\ DeliveryInStep /\ ResultNamed
  /\ NoJobLeftBehind /\ FanInPending
=============================================================================
