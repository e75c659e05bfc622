--------------------------- MODULE TtsGeneration ---------------------------
(***************************************************************************)
(* The synthesis of a VALIDATED audio script, for one book: the API's      *)
(* startTts, the generate_tts_chunk handler of the GPU worker on top of    *)
(* the worker runtime, and what happens to chunks and voices meanwhile     *)
(* (updateAudioScriptChunk, retireVoiceProfileVersion).                    *)
(*                                                                         *)
(* A chunk's performance is an edition, its text is fixed.  The bytes of a *)
(* rendering are its voice and the edition it spoke, and the stored object *)
(* is named by chunk and generation_version.  A job is a processing_job    *)
(* row with its tts_job row; commits enqueue at once (the dispatch between *)
(* them is JobLifecycle's subject).                                        *)
(***************************************************************************)
EXTENDS WorkerRuntime, Sequences, FiniteSetsExt

CONSTANTS
  Chunks,      \* script chunks of the current audio script
  Voices,      \* voice profile versions with their model
  FirstVoice,  \* the voice every chunk is bound to at first
  Loaded,      \* the voices whose model each worker has loaded
  MaxEditions  \* bound: editions of a chunk

ASSUME TtsAssumption ==
  /\ Jobs \subseteq Nat /\ IsFiniteSet(Jobs)
  /\ FirstVoice \in Voices
  /\ Loaded \in [Workers -> SUBSET Voices]
  /\ MaxEditions \in Nat

VARIABLES
  \* audio_script_chunk: is_current, LOCKED, the edition and the bound voice
  cLocked, cEdition, cVoice,
  retired,            \* voice versions with approval_state RETIRED
  audio,              \* audio_chunk rows of a chunk
  object,             \* the stored bytes of each generation_version
  overlapped,         \* history: two handlers of the chunk were at work at a time
  \* tts_job with its lineage, and the audio the processing_job names as its result
  jChunk, jVoice, jForced, jTts, jResult,
  \* the handler: what it read of the chunk, its generation_version and the outcome
  wEdition, wGen, wOutcome,
  \* startTts and updateAudioScriptChunk, a request of each at a time
  rPc, rForce, rVoice, ePc, eChunk

chunkVars == <<cLocked, cEdition, cVoice, retired>>
audioVars == <<audio, object, overlapped>>
jobVars == <<jChunk, jVoice, jForced, jTts, jResult>>
handlerVars == <<wEdition, wGen, wOutcome>>
requestVars == <<rPc, rForce, rVoice>>
editVars == <<ePc, eChunk>>
vars == <<runtimeVars, chunkVars, audioVars, jobVars, handlerVars, requestVars, editVars>>

NoVoice == "no voice"
NoChunk == "no chunk"
NoBytes == <<NoVoice, 0>>

\* the first generation_version of a chunk, and the one after the row it may have
Generations == 1..2

Init ==
  /\ RuntimeInit
  /\ cLocked = [c \in Chunks |-> FALSE]
  /\ cEdition = [c \in Chunks |-> 0]
  /\ cVoice = [c \in Chunks |-> FirstVoice]
  /\ retired = {}
  /\ audio = [c \in Chunks |-> <<>>]
  /\ object = [c \in Chunks |-> [g \in Generations |-> NoBytes]]
  /\ overlapped = [c \in Chunks |-> FALSE]
  /\ jChunk = [j \in Jobs |-> NoChunk]
  /\ jVoice = [j \in Jobs |-> NoVoice]
  /\ jForced = [j \in Jobs |-> FALSE]
  /\ jTts = [j \in Jobs |-> "ABSENT"]
  /\ jResult = [j \in Jobs |-> 0]
  /\ wEdition = [w \in Workers |-> 0]
  /\ wGen = [w \in Workers |-> 0]
  /\ wOutcome = [w \in Workers |-> "none"]
  /\ rPc = "idle" /\ rForce = FALSE
  /\ rVoice = [c \in Chunks |-> NoVoice]
  /\ ePc = "idle" /\ eChunk = NoChunk

Approved(v) == v \notin retired

\* the current audio of a chunk, when it has a usable one
Current(c) == Len(audio[c])
Usable(c) == Current(c) # 0 /\ audio[c][Current(c)].ok

-----------------------------------------------------------------------------
(* Chunks and voices while the script is rendered *)

\* updateAudioScriptChunk reads the chunk, and refuses one that is LOCKED
EditRead(c) ==
  /\ ePc = "idle"
  /\ ~cLocked[c]
  /\ cEdition[c] < MaxEditions
  /\ ePc' = "write" /\ eChunk' = c
  /\ Intervene
  /\ UNCHANGED <<workerVars, deliveryVars, rowVars, troubles, chunkVars, audioVars, jobVars, handlerVars, requestVars>>

\* ... and writes it by its id: a new performance, perhaps another voice, and DRAFT
EditWrite ==
  /\ ePc = "write"
  /\ cEdition' = [cEdition EXCEPT ![eChunk] = @ + 1]
  /\ \E v \in {cVoice[eChunk]} \cup (Voices \ retired) : cVoice' = [cVoice EXCEPT ![eChunk] = v]
  /\ cLocked' = [cLocked EXCEPT ![eChunk] = FALSE]
  /\ ePc' = "idle" /\ eChunk' = NoChunk
  /\ UNCHANGED <<retired, runtimeVars, audioVars, jobVars, handlerVars, requestVars>>

\* retireVoiceProfileVersion, once no character is assigned the voice any more
Retire(v) ==
  /\ Approved(v)
  /\ retired' = retired \cup {v}
  /\ Intervene
  /\ UNCHANGED <<cLocked, cEdition, cVoice>>
  /\ UNCHANGED <<workerVars, deliveryVars, rowVars, troubles, audioVars, jobVars, handlerVars, requestVars, editVars>>

-----------------------------------------------------------------------------
(* TtsService.startTts *)

\* The chunks in scope with their voices, all of them approved
StartTts(scope, force) ==
  /\ rPc = "idle"
  /\ scope # {}
  /\ \A c \in scope : Approved(cVoice[c])
  /\ rPc' = "filter" /\ rForce' = force
  /\ rVoice' = [c \in Chunks |-> IF c \in scope THEN cVoice[c] ELSE NoVoice]
  /\ UNCHANGED <<runtimeVars, chunkVars, audioVars, jobVars, handlerVars, editVars>>

RequestEnds ==
  /\ rPc' = "idle" /\ rForce' = FALSE
  /\ rVoice' = [c \in Chunks |-> NoVoice]

\* filterAlreadyGenerated: a usable current audio in the voice the chunk was read with
AlreadyGenerated(c) == Usable(c) /\ audio[c][Current(c)].bytes[1] = rVoice[c]

FilterTargets ==
  LET targets == {c \in Chunks : rVoice[c] # NoVoice /\ (rForce \/ ~AlreadyGenerated(c))}
  IN  /\ rPc = "filter"
      /\ IF targets = {}
         THEN RequestEnds
         ELSE /\ rPc' = "commit"
              /\ rVoice' = [c \in Chunks |-> IF c \in targets THEN rVoice[c] ELSE NoVoice]
              /\ UNCHANGED rForce
  /\ UNCHANGED <<runtimeVars, chunkVars, audioVars, jobVars, handlerVars, editVars>>

Targets == {c \in Chunks : rVoice[c] # NoVoice}

\* The partial unique index over live rows of tts:{chunk}:{voice...}, and the unique index
\* over dedupe_key, which a forced request makes its own
KeyFree(c) ==
  \A j \in Jobs : jChunk[j] = c /\ jVoice[j] = rVoice[c] =>
    /\ jStatus[j] \in {"FAILED", "CANCELLED"}
    /\ rForce \/ jForced[j]

\* The transaction: the coordinator, recorded as SUCCEEDED, and a job for every target
CommitJobs ==
  LET free == {j \in Jobs : jStatus[j] = "ABSENT"}
  IN  /\ rPc = "commit"
      /\ \A c \in Targets : KeyFree(c)
      /\ \E new \in [Targets -> free] :
           /\ \A c, d \in Targets : c # d => new[c] # new[d]
           /\ \A j \in free : (\E i \in free : i < j /\ \A c \in Targets : new[c] # i) =>
                                \A c \in Targets : new[c] # j
           /\ LET made == {new[c] : c \in Targets}
                  For(j) == CHOOSE c \in Targets : new[c] = j
              IN  /\ jStatus' = [j \in Jobs |-> IF j \in made THEN "QUEUED" ELSE jStatus[j]]
                  /\ msg' = [j \in Jobs |-> IF j \in made THEN "wait" ELSE msg[j]]
                  /\ jChunk' = [j \in Jobs |-> IF j \in made THEN For(j) ELSE jChunk[j]]
                  /\ jVoice' = [j \in Jobs |-> IF j \in made THEN rVoice[For(j)] ELSE jVoice[j]]
                  /\ jForced' = [j \in Jobs |-> IF j \in made THEN rForce ELSE jForced[j]]
                  /\ jTts' = [j \in Jobs |-> IF j \in made THEN "PENDING" ELSE jTts[j]]
      /\ RequestEnds
  /\ UNCHANGED <<jResult, jCancel, wJob, wPc, wTry, tries, owner, workerVars, bounds>>
  /\ UNCHANGED <<chunkVars, audioVars, handlerVars, editVars>>

\* One key is taken: nothing is created
CommitConflict ==
  /\ rPc = "commit"
  /\ \E c \in Targets : ~KeyFree(c)
  /\ RequestEnds
  /\ UNCHANGED <<runtimeVars, chunkVars, audioVars, jobVars, handlerVars, editVars>>

-----------------------------------------------------------------------------
(* handle_generate_tts_chunk, first transaction *)

Forget(w) ==
  /\ wEdition' = [wEdition EXCEPT ![w] = 0]
  /\ wGen' = [wGen EXCEPT ![w] = 0]
  /\ wOutcome' = [wOutcome EXCEPT ![w] = "none"]

\* load_job, load_tts_job: what is over already
JobOver(j) == jStatus[j] \in {"SUCCEEDED", "FAILED"}
TtsJobOver(j) == jTts[j] = "SUCCEEDED"

\* resolve_model_version_id: the model this worker has loaded is the job's
HasModel(w, j) == jVoice[j] \in Loaded[w]

\* Mutation of Existing: any usable audio of the chunk will do
Existing_AnyVoice(w) == LET c == jChunk[wJob[w]] IN IF Usable(c) THEN Current(c) ELSE 0

\* find_current_audio_chunk: the current audio, when its lineage is the job's; 0 otherwise
Existing(w) ==
  LET c == jChunk[wJob[w]]
  IN  IF Usable(c) /\ audio[c][Current(c)].bytes[1] = jVoice[wJob[w]] THEN Current(c) ELSE 0

\* A job that is over, a tts_job that is (the result is then the tts_job), or an audio that
\* exists already: nothing to render
LoadSkips(w) ==
  LET j == wJob[w]
  IN  /\ wPc[w] = "load"
      /\ \/ /\ JobOver(j)
            /\ UNCHANGED <<jStatus, jResult>>
         \/ /\ ~JobOver(j) /\ TtsJobOver(j)
            /\ jStatus' = [jStatus EXCEPT ![j] = "SUCCEEDED"]
            /\ jResult' = [jResult EXCEPT ![j] = 0]
         \/ /\ ~JobOver(j) /\ ~TtsJobOver(j)
            /\ Existing(w) # 0
            /\ jStatus' = [jStatus EXCEPT ![j] = "SUCCEEDED"]
            /\ jResult' = [jResult EXCEPT ![j] = Existing(w)]
      /\ Finish(w, "completed")
  /\ UNCHANGED <<jCancel, bounds, jChunk, jVoice, jForced, jTts>>
  /\ UNCHANGED <<chunkVars, audioVars, handlerVars, requestVars, editVars>>

\* TerminalJobError: the voice was retired, or the model is not this worker's.  The transaction is rolled back and BullMQ told not to retry.
LoadTerminal(w) ==
  LET j == wJob[w]
  IN  /\ wPc[w] = "load"
      /\ ~JobOver(j) /\ ~TtsJobOver(j)
      /\ Existing(w) = 0 /\ ~(Approved(jVoice[j]) /\ HasModel(w, j))
      /\ Finish(w, "failed")
  /\ UNCHANGED <<rowVars, bounds, jobVars, chunkVars, audioVars, handlerVars, requestVars, editVars>>

\* Mutation of NextGeneration: the newest row's version
NextGeneration_Same(c) == Max({1} \cup {audio[c][i].gen : i \in DOMAIN audio[c]})

NextGeneration(c) == Max({0} \cup {audio[c][i].gen : i \in DOMAIN audio[c]}) + 1

\* Everything is in order: chunk and voice are read, and the next generation_version
Load(w) ==
  LET j == wJob[w]
      c == jChunk[j]
  IN  /\ wPc[w] = "load"
      /\ ~JobOver(j) /\ ~TtsJobOver(j)
      /\ Existing(w) = 0 /\ Approved(jVoice[j]) /\ HasModel(w, j)
      /\ Goto(w, "freeze")
      /\ wEdition' = [wEdition EXCEPT ![w] = cEdition[c]]
      /\ wGen' = [wGen EXCEPT ![w] = NextGeneration(c)]
      /\ overlapped' = [overlapped EXCEPT ![c] =
           @ \/ \E v \in Workers \ {w} :
                  wPc[v] \in {"freeze", "synth", "upload", "persist"} /\ jChunk[wJob[v]] = c]
  /\ UNCHANGED <<wOutcome, wJob, wTry, msg, tries, owner, workerVars, rowVars, bounds>>
  /\ UNCHANGED <<audio, object, chunkVars, jobVars, requestVars, editVars>>

\* mark_job_running and begin_tts_job: the job RUNNING, the chunk and its voice LOCKED
Freeze(w) ==
  /\ wPc[w] = "freeze"
  /\ jStatus' = [jStatus EXCEPT ![wJob[w]] = "RUNNING"]
  /\ jTts' = [jTts EXCEPT ![wJob[w]] = IF @ = "PENDING" THEN "RUNNING" ELSE @]
  /\ cLocked' = [cLocked EXCEPT ![jChunk[wJob[w]]] = TRUE]
  /\ Goto(w, "synth")
  /\ UNCHANGED <<jCancel, wJob, wTry, msg, tries, owner, workerVars, bounds>>
  /\ UNCHANGED <<cEdition, cVoice, retired, jChunk, jVoice, jForced, jResult>>
  /\ UNCHANGED <<audioVars, handlerVars, requestVars, editVars>>

-----------------------------------------------------------------------------
(* ... outside any transaction, and the second one *)

\* synthesize_and_check: audio that passes the checks or not, or an error, which is worth a
\* retry or is not
Synthesize(w) ==
  /\ wPc[w] = "synth"
  /\ \E outcome \in {"PASS", "FAIL", "retryable", "non_retryable"} :
       /\ wOutcome' = [wOutcome EXCEPT ![w] = outcome]
       /\ Goto(w, IF outcome \in {"PASS", "FAIL"} THEN "upload" ELSE "fail")
  /\ UNCHANGED <<wEdition, wGen, wJob, wTry, msg, tries, owner, workerVars, rowVars, bounds>>
  /\ UNCHANGED <<chunkVars, audioVars, jobVars, requestVars, editVars>>

\* _build_request: the voice of the job, the chunk as it was read
Bytes(w) == <<jVoice[wJob[w]], wEdition[w]>>

\* The object of this chunk and generation_version is written, over one that is there
Upload(w) ==
  /\ wPc[w] = "upload"
  /\ \/ /\ object' = [object EXCEPT ![jChunk[wJob[w]]][wGen[w]] = Bytes(w)]
        /\ Goto(w, "persist")
        /\ UNCHANGED wOutcome
     \/ /\ wOutcome' = [wOutcome EXCEPT ![w] = "retryable"]
        /\ Goto(w, "fail")
        /\ UNCHANGED object
  /\ UNCHANGED <<wEdition, wGen, wJob, wTry, msg, tries, owner, workerVars, rowVars, bounds>>
  /\ UNCHANGED <<audio, overlapped, chunkVars, jobVars, requestVars, editVars>>

\* insert_audio_chunk: the row, VALIDATED or INVALID, is the current one, and the tts_job has
\* SUCCEEDED.  It succeeds for a chunk without audio only: a current row is first made to point
\* to its successor, which does not exist yet and the foreign key refuses; where there was none
\* to supersede, the unique index on current rows admits one
InsertAudioChunk(w) ==
  /\ audio[jChunk[wJob[w]]] = <<>>
  /\ audio' = [audio EXCEPT ![jChunk[wJob[w]]] =
       Append(@, [gen |-> wGen[w], bytes |-> Bytes(w), ok |-> wOutcome[w] = "PASS"])]
  /\ jTts' = [jTts EXCEPT ![wJob[w]] = "SUCCEEDED"]

\* ... and is the job's result either way
Persist(w) ==
  LET j == wJob[w]
  IN  /\ wPc[w] = "persist"
      /\ InsertAudioChunk(w)
      /\ jStatus' = [jStatus EXCEPT ![j] = "SUCCEEDED"]
      /\ jResult' = [jResult EXCEPT ![j] = Current(jChunk[j]) + 1]
      /\ Finish(w, "completed")
      /\ Forget(w)
  /\ UNCHANGED <<object, overlapped, jCancel, bounds, jChunk, jVoice, jForced>>
  /\ UNCHANGED <<chunkVars, requestVars, editVars>>

\* ... and the integrity error is none of the handler's: nothing is on record, the message is
\* retried
PersistRefused(w) ==
  /\ wPc[w] = "persist"
  /\ audio[jChunk[wJob[w]]] # <<>>
  /\ Finish(w, "retry")
  /\ Forget(w)
  /\ UNCHANGED <<rowVars, bounds, jobVars, chunkVars, audioVars, requestVars, editVars>>

\* to_job_error: what BullMQ is told to do about it
JobError(outcome) == IF outcome = "retryable" THEN "retry" ELSE "failed"

\* Mutation of RecordFailure: the message is acknowledged, the failure is on record
RecordFailure_Acks(w) ==
  LET j == wJob[w]
      final == wTry[w] >= MaxAttempts
  IN  /\ wPc[w] = "fail"
      /\ jStatus' = [jStatus EXCEPT ![j] = IF final THEN "FAILED" ELSE @]
      /\ jTts' = [jTts EXCEPT ![j] = IF final THEN "FAILED" ELSE @]
      /\ Finish(w, "completed")
      /\ Forget(w)
  /\ UNCHANGED <<jCancel, bounds, jChunk, jVoice, jForced, jResult>>
  /\ UNCHANGED <<chunkVars, audioVars, requestVars, editVars>>

\* _record_failure writes on the final attempt only; then the error is raised as a transient
\* or as a terminal one
RecordFailure(w) ==
  LET j == wJob[w]
      final == wTry[w] >= MaxAttempts
  IN  /\ wPc[w] = "fail"
      /\ jStatus' = [jStatus EXCEPT ![j] = IF final THEN "FAILED" ELSE @]
      /\ jTts' = [jTts EXCEPT ![j] = IF final THEN "FAILED" ELSE @]
      /\ Finish(w, JobError(wOutcome[w]))
      /\ Forget(w)
  /\ UNCHANGED <<jCancel, bounds, jChunk, jVoice, jForced, jResult>>
  /\ UNCHANGED <<chunkVars, audioVars, requestVars, editVars>>

-----------------------------------------------------------------------------
\* The process of a worker dies with its handler
Die(w) ==
  /\ Restart(w)
  /\ Forget(w)
  /\ UNCHANGED <<chunkVars, audioVars, jobVars, requestVars, editVars>>

\* A step of the runtime alone
Runs(w) ==
  /\ RuntimeStep(w)
  /\ UNCHANGED <<chunkVars, audioVars, jobVars, handlerVars, requestVars, editVars>>

CancelJob(j) ==
  /\ Cancel(j)
  /\ UNCHANGED <<chunkVars, audioVars, jobVars, handlerVars, requestVars, editVars>>

Handle(w) ==
  \/ LoadSkips(w) \/ LoadTerminal(w) \/ Load(w) \/ Freeze(w)
  \/ Synthesize(w) \/ Upload(w) \/ Persist(w) \/ PersistRefused(w) \/ RecordFailure(w)

Next ==
  \/ \E c \in Chunks : EditRead(c)
  \/ EditWrite
  \/ \E v \in Voices : Retire(v)
  \/ \E scope \in SUBSET Chunks, force \in BOOLEAN : StartTts(scope, force)
  \/ FilterTargets \/ CommitJobs \/ CommitConflict
  \/ \E j \in Jobs : CancelJob(j)
  \/ \E w \in Workers : Runs(w) \/ Handle(w) \/ Die(w)

Spec == Init /\ [][Next]_vars

-----------------------------------------------------------------------------
(* Properties *)

\* A chunk has one rendering on record at most: insert_audio_chunk adds none to another
Renderings == (Voices \cup {NoVoice}) \X (0..MaxEditions)
Takes == {<<>>} \cup {<<r>> : r \in [gen : {1}, bytes : Renderings, ok : BOOLEAN]}

\* The types of the rows, the messages, the workers and the requests.
TypeOK ==
  /\ RuntimeTypeOK
  /\ wPc \in [Workers -> {"idle", "fetched", "gate", "halt", "load", "freeze", "synth",
                          "upload", "persist", "fail"}]
  /\ cLocked \in [Chunks -> BOOLEAN]
  /\ cEdition \in [Chunks -> 0..MaxEditions]
  /\ cVoice \in [Chunks -> Voices]
  /\ retired \subseteq Voices
  /\ audio \in [Chunks -> Takes]
  /\ object \in [Chunks -> [Generations -> Renderings]]
  /\ overlapped \in [Chunks -> BOOLEAN]
  /\ jChunk \in [Jobs -> Chunks \cup {NoChunk}]
  /\ jVoice \in [Jobs -> Voices \cup {NoVoice}]
  /\ jForced \in [Jobs -> BOOLEAN]
  /\ jTts \in [Jobs -> {"ABSENT", "PENDING", "RUNNING", "SUCCEEDED", "FAILED"}]
  /\ jResult \in [Jobs -> {0, 1}]
  /\ wEdition \in [Workers -> 0..MaxEditions]
  /\ wGen \in [Workers -> Generations \cup {0}]
  /\ wOutcome \in [Workers -> {"none", "PASS", "FAIL", "retryable", "non_retryable"}]
  /\ rPc \in {"idle", "filter", "commit"} /\ rForce \in BOOLEAN
  /\ rVoice \in [Chunks -> Voices \cup {NoVoice}]
  /\ ePc \in {"idle", "write"} /\ eChunk \in Chunks \cup {NoChunk}

\* The rendering a chunk has on record finds its own bytes in the store: a later rendering,
\* even one that is never recorded, is written under another name.  Where two handlers of a
\* chunk were at work at a time they share a generation_version, and with it the name.
BytesOfRows ==
  \A c \in Chunks : ~overlapped[c] =>
    \A i \in DOMAIN audio[c] : object[c][audio[c][i].gen] = audio[c][i].bytes

\* The audio a job names as its result speaks with the voice the job was created for,
\* whether the job rendered it or found it, and however the chunk was rebound meanwhile.
ResultLineage ==
  \A j \in Jobs : jResult[j] # 0 =>
    audio[jChunk[j]][jResult[j]].bytes[1] = jVoice[j]

\* A message that BullMQ counts as done belongs to a job with an outcome on record, through
\* retries, cancellation and skips; a death or a forced close may leave another.
AckedIsSettled ==
  troubles = 0 =>
    \A j \in Jobs : msg[j] = "completed" => jStatus[j] \in {"SUCCEEDED", "FAILED", "CANCELLED"}
-----------------------------------------------------------------------------
(* What the properties rest on *)

\* Between the claim of the chunk and the record of its audio
AtWork(w) == wPc[w] \in {"freeze", "synth", "upload", "persist"}

\* A job is created with its chunk, its voice and its message, and has no result before
JobsMade ==
  \A j \in Jobs :
    IF jStatus[j] = "ABSENT"
    THEN msg[j] = "none" /\ jResult[j] = 0
    ELSE msg[j] # "none" /\ jChunk[j] \in Chunks /\ jVoice[j] \in Voices

\* An edit that has read its chunk has an edition to write
EditOpen == ePc = "write" => eChunk \in Chunks /\ cEdition[eChunk] < MaxEditions

\* Handlers that are at work on a chunk one at a time have a generation_version to themselves:
\* the first one while the chunk has no audio, the second one afterwards
Numbering ==
  /\ \A w, v \in Workers :
       AtWork(w) /\ AtWork(v) /\ jChunk[wJob[w]] = jChunk[wJob[v]] =>
         w = v \/ overlapped[jChunk[wJob[w]]]
  /\ \A w \in Workers : AtWork(w) =>
       LET c == jChunk[wJob[w]]
       IN  /\ wGen[w] \in Generations
           /\ audio[c] = <<>> => wGen[w] = 1
           /\ audio[c] # <<>> => wGen[w] = 2 \/ overlapped[c]

\* What is recorded next is in the store
Stored ==
  \A w \in Workers : wPc[w] = "persist" =>
    overlapped[jChunk[wJob[w]]] \/ object[jChunk[wJob[w]]][wGen[w]] = Bytes(w)

\* A result names a rendering that is on record
ResultOnRecord == \A j \in Jobs : jResult[j] # 0 => audio[jChunk[j]] # <<>>

IInv ==
  /\ TypeOK /\ Lifecycle /\ Delivery /\ JobsMade /\ EditOpen /\ Numbering /\ Stored /\ ResultOnRecord
  /\ BytesOfRows /\ ResultLineage /\ AckedIsSettled /\ NoWorkAfterRelease
=============================================================================
