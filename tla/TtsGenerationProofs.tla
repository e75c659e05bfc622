------------------------ MODULE TtsGenerationProofs ------------------------
(***************************************************************************)
(* Proofs about TtsGeneration and the worker runtime below it, for every   *)
(* set of workers, chunks, voices and jobs and every bound.  IInv is       *)
(* inductive: Lifecycle and Delivery are about the runtime, the rest about *)
(* the handler.  Each safety property is one of its conjuncts.             *)
(***************************************************************************)
EXTENDS TtsGeneration, TLAPS

Statuses == {"ABSENT", "QUEUED", "RUNNING", "SUCCEEDED", "FAILED", "CANCELLED"}
Steps == {"idle", "fetched", "gate", "halt", "load", "freeze", "synth", "upload", "persist", "fail"}

-----------------------------------------------------------------------------
(* The runtime: a handler ends, a handler goes on *)

\* What the end of a handler leaves: the worker is idle, its message is settled if the worker
\* held the lock, and everybody else is where they were.
LEMMA FinishRuntime ==
  ASSUME IInv, NEW w \in Workers, wPc[w] # "idle",
         NEW outcome \in {"completed", "retry", "failed"}, Finish(w, outcome),
         jStatus' \in [Jobs -> Statuses], jCancel' \in [Jobs -> BOOLEAN],
         \A j \in Jobs : jStatus'[j] = "ABSENT" <=> jStatus[j] = "ABSENT",
         UNCHANGED bounds
  PROVE  /\ RuntimeTypeOK' /\ wPc' \in [Workers -> Steps]
         /\ Lifecycle' /\ Delivery' /\ NoWorkAfterRelease'
         /\ wJob[w] \in Jobs /\ jStatus[wJob[w]] # "ABSENT"
         /\ wPc'[w] = "idle"
         /\ \A v \in Workers : v # w => wPc'[v] = wPc[v] /\ wJob'[v] = wJob[v]
         /\ \A j \in Jobs : (msg'[j] = "none" <=> msg[j] = "none")
         /\ \A j \in Jobs : msg'[j] = "completed" =>
              msg[j] = "completed" \/ (j = wJob[w] /\ outcome = "completed")
<1> DEFINE i == wJob[w]
<1>1. i \in Jobs /\ jStatus[i] # "ABSENT"
  BY DEF IInv, Delivery, TypeOK, RuntimeTypeOK
<1>2. /\ wPc' = [wPc EXCEPT ![w] = "idle"] /\ wJob' = [wJob EXCEPT ![w] = NoJob]
      /\ wTry' = [wTry EXCEPT ![w] = 0]
      /\ wState' = [wState EXCEPT ![w] = IF @ = "PROCESSING" THEN "IDLE" ELSE @]
      /\ UNCHANGED <<wStart, wStop, wForced>>
  BY DEF Finish, Goto
<1>3. /\ wPc \in [Workers -> Steps] /\ RuntimeTypeOK /\ Lifecycle /\ Delivery /\ NoWorkAfterRelease
  BY DEF IInv, TypeOK, Steps
<1>4. /\ wPc'[w] = "idle" /\ wJob'[w] = NoJob /\ wPc' \in [Workers -> Steps]
      /\ \A v \in Workers : v # w => wPc'[v] = wPc[v] /\ wJob'[v] = wJob[v]
      /\ wJob' \in [Workers -> Jobs \cup {NoJob}]
  BY <1>2, <1>3 DEF Steps, RuntimeTypeOK
<1>5. /\ msg' \in [Jobs -> {"none", "wait", "active", "completed", "failed", "removed"}]
      /\ tries' \in [Jobs -> 0..MaxAttempts]
      /\ owner' \in [Jobs -> Workers \cup {NoWorker}]
      /\ \A j \in Jobs : j # i => msg'[j] = msg[j] /\ tries'[j] = tries[j] /\ owner'[j] = owner[j]
      /\ owner[i] = w => /\ owner'[i] = NoWorker /\ msg'[i] # "none" /\ msg[i] = "active"
                         /\ msg'[i] = "completed" => outcome = "completed"
                         /\ msg'[i] \in {"none", "wait", "active"} => tries'[i] < MaxAttempts
      /\ owner[i] # w => UNCHANGED <<msg, tries, owner>>
  <2>1. CASE owner[i] # w
    BY <1>1, <1>3, <2>1 DEF Finish, RuntimeTypeOK
  <2>2. CASE owner[i] = w
    <3>1. Deliver(i, outcome)
      BY <2>2 DEF Finish
    <3>2. msg[i] = "active" /\ tries[i] < MaxAttempts /\ tries[i] \in 0..MaxAttempts
      BY <1>1, <1>3, <2>2, RuntimeAssumption DEF Delivery, RuntimeTypeOK
    <3> QED
      BY <1>1, <1>3, <2>2, <3>1, <3>2, RuntimeAssumption DEF Deliver, RuntimeTypeOK
  <2> QED
    BY <2>1, <2>2
<1>6. RuntimeTypeOK'
  BY <1>2, <1>3, <1>4, <1>5, RuntimeAssumption DEF RuntimeTypeOK, bounds, Statuses, WorkerStates
<1>7. Lifecycle'
  BY <1>2, <1>3, <1>4 DEF Lifecycle, RuntimeTypeOK
<1>8. Delivery'
  <2>1. \A v \in Workers : wPc'[v] = "idle" <=> wJob'[v] = NoJob
    BY <1>3, <1>4 DEF Delivery
  <2>2. \A v \in Workers : wJob'[v] # NoJob => jStatus'[wJob'[v]] # "ABSENT"
    BY <1>3, <1>4 DEF Delivery, RuntimeTypeOK
  <2>3. \A j \in Jobs : owner'[j] # NoWorker => msg'[j] = "active" /\ wJob'[owner'[j]] = j
    BY <1>1, <1>3, <1>4, <1>5 DEF Delivery, RuntimeTypeOK
  <2>4. \A j \in Jobs : msg'[j] \in {"none", "wait", "active"} => tries'[j] < MaxAttempts
    BY <1>1, <1>3, <1>5 DEF Delivery
  <2>5. troubles' = 0 => \A v \in Workers : wJob'[v] # NoJob => owner'[wJob'[v]] = v
    BY <1>1, <1>3, <1>4, <1>5 DEF Delivery, bounds, RuntimeTypeOK
  <2> QED
    BY <2>1, <2>2, <2>3, <2>4, <2>5 DEF Delivery
<1>9. NoWorkAfterRelease'
  BY <1>2, <1>3, <1>4 DEF NoWorkAfterRelease, InFlight
<1> QED
  BY <1>1, <1>3, <1>4, <1>5, <1>6, <1>7, <1>8, <1>9

\* What a step inside a handler leaves.
LEMMA WorkRuntime ==
  ASSUME IInv, NEW w \in Workers, wPc[w] \in Steps \ {"idle", "fetched"},
         NEW pc \in Steps \ {"idle", "fetched"}, Goto(w, pc),
         UNCHANGED <<wJob, wTry, msg, tries, owner, workerVars, bounds>>,
         jStatus' \in [Jobs -> Statuses], jCancel' \in [Jobs -> BOOLEAN],
         \A j \in Jobs : jStatus'[j] = "ABSENT" <=> jStatus[j] = "ABSENT"
  PROVE  /\ RuntimeTypeOK' /\ wPc' \in [Workers -> Steps]
         /\ Lifecycle' /\ Delivery' /\ NoWorkAfterRelease'
         /\ wJob[w] \in Jobs /\ jStatus[wJob[w]] # "ABSENT"
         /\ wPc'[w] = pc
         /\ \A v \in Workers : v # w => wPc'[v] = wPc[v]
<1>1. /\ wPc \in [Workers -> Steps] /\ RuntimeTypeOK /\ Lifecycle /\ Delivery /\ NoWorkAfterRelease
  BY DEF IInv, TypeOK, Steps
<1>2. wPc' \in [Workers -> Steps] /\ wPc'[w] = pc /\ \A v \in Workers : v # w => wPc'[v] = wPc[v]
  BY <1>1 DEF Goto
<1>3. wJob[w] \in Jobs /\ jStatus[wJob[w]] # "ABSENT"
  BY <1>1 DEF Delivery, RuntimeTypeOK
<1>4. RuntimeTypeOK'
  BY <1>1 DEF RuntimeTypeOK, workerVars, bounds, Statuses
<1>5. Lifecycle'
  BY <1>1, <1>2 DEF Lifecycle, workerVars
<1>6. Delivery'
  BY <1>1, <1>2 DEF Delivery, RuntimeTypeOK, bounds
<1>7. NoWorkAfterRelease'
  BY <1>1, <1>2 DEF NoWorkAfterRelease, InFlight, workerVars
<1> QED
  BY <1>2, <1>3, <1>4, <1>5, <1>6, <1>7

-----------------------------------------------------------------------------
(* Steps that add no rendering and put no handler to work *)

\* Jobs, renderings and the objects in the store stay in step with the handlers at work when
\* a step adds to none of them.
LEMMA QuietPreserves ==
  ASSUME IInv, TypeOK', Lifecycle', Delivery', NoWorkAfterRelease', EditOpen',
         UNCHANGED <<audio, object, overlapped, jChunk, jVoice>>,
         \A v \in Workers : wPc'[v] \in {"freeze", "synth", "upload", "persist"} =>
           /\ wPc[v] \in {"freeze", "synth", "upload", "persist"}
           /\ wJob'[v] = wJob[v] /\ wGen'[v] = wGen[v] /\ wEdition'[v] = wEdition[v]
           /\ wPc'[v] = "persist" => wPc[v] = "persist",
         \A j \in Jobs : jStatus'[j] = "ABSENT" <=> jStatus[j] = "ABSENT",
         \A j \in Jobs : msg'[j] = "none" <=> msg[j] = "none",
         \A j \in Jobs : \/ jResult'[j] \in {0, jResult[j]}
                         \/ /\ jStatus[j] # "ABSENT" /\ audio[jChunk[j]] # <<>>
                            /\ audio[jChunk[j]][jResult'[j]].bytes[1] = jVoice[j],
         troubles' = 0 => troubles = 0,
         troubles = 0 => \A j \in Jobs : msg'[j] = "completed" =>
           \/ msg[j] = "completed" /\ jStatus'[j] = jStatus[j]
           \/ jStatus'[j] \in {"SUCCEEDED", "FAILED", "CANCELLED"}
  PROVE  IInv'
<1>1. /\ TypeOK /\ JobsMade /\ Numbering /\ Stored /\ ResultOnRecord
      /\ BytesOfRows /\ ResultLineage /\ AckedIsSettled /\ Delivery
  BY DEF IInv
<1>2. JobsMade'
  BY <1>1 DEF JobsMade
<1>3. Numbering'
  BY <1>1 DEF Numbering, AtWork
<1>4. Stored'
  BY <1>1 DEF Stored, Bytes
<1>5. ResultOnRecord' /\ ResultLineage'
  BY <1>1 DEF ResultOnRecord, ResultLineage
<1>6. BytesOfRows'
  BY <1>1 DEF BytesOfRows
<1>7. AckedIsSettled'
  BY <1>1 DEF AckedIsSettled
<1> QED
  BY <1>2, <1>3, <1>4, <1>5, <1>6, <1>7 DEF IInv

\* updateAudioScriptChunk, retireVoiceProfileVersion and the refusals of startTts leave the
\* worker alone.
LEMMA RequestsPreserve ==
  ASSUME IInv, \/ \E c \in Chunks : EditRead(c)
               \/ EditWrite
               \/ \E v \in Voices : Retire(v)
               \/ \E scope \in SUBSET Chunks, force \in BOOLEAN : StartTts(scope, force)
               \/ FilterTargets \/ CommitConflict
  PROVE  IInv'
<1> USE DEF workerVars, deliveryVars, rowVars, chunkVars, audioVars, jobVars, handlerVars,
            requestVars, editVars
<1>1. /\ TypeOK /\ Lifecycle /\ Delivery /\ NoWorkAfterRelease /\ EditOpen
  BY DEF IInv
<1>2. /\ UNCHANGED <<workerVars, deliveryVars, rowVars, troubles, audioVars, jobVars, handlerVars>>
      /\ interventions' \in 0..MaxInterventions
  <2>1. interventions \in 0..MaxInterventions
    BY <1>1 DEF TypeOK, RuntimeTypeOK
  <2> QED
    BY <2>1, RuntimeAssumption DEF EditRead, EditWrite, Retire, StartTts, FilterTargets, CommitConflict,
                runtimeVars, bounds, Intervene
<1>3. RuntimeTypeOK' /\ Lifecycle' /\ Delivery' /\ NoWorkAfterRelease'
  BY <1>1, <1>2 DEF TypeOK, RuntimeTypeOK, Lifecycle, Delivery, NoWorkAfterRelease, InFlight
<1>4. /\ cLocked' \in [Chunks -> BOOLEAN] /\ cEdition' \in [Chunks -> 0..MaxEditions]
      /\ cVoice' \in [Chunks -> Voices] /\ retired' \subseteq Voices
      /\ ePc' \in {"idle", "write"} /\ eChunk' \in Chunks \cup {NoChunk}
      /\ rPc' \in {"idle", "filter", "commit"} /\ rForce' \in BOOLEAN
      /\ rVoice' \in [Chunks -> Voices \cup {NoVoice}]
      /\ EditOpen'
  <2>1. ASSUME NEW c \in Chunks, EditRead(c) PROVE <1>4!:
    BY <1>1, <2>1 DEF EditRead, TypeOK, EditOpen
  <2>2. CASE EditWrite
    <3>1. eChunk \in Chunks /\ cEdition[eChunk] < MaxEditions /\ cEdition[eChunk] \in 0..MaxEditions
      BY <1>1, <2>2 DEF EditWrite, EditOpen, TypeOK
    <3>2. cEdition[eChunk] + 1 \in 0..MaxEditions
      BY <3>1, TtsAssumption
    <3>3. cVoice' \in [Chunks -> Voices]
      BY <1>1, <2>2, <3>1 DEF EditWrite, TypeOK
    <3>4. ePc' = "idle" /\ eChunk' = NoChunk /\ UNCHANGED <<retired, rPc, rForce, rVoice>>
      BY <2>2 DEF EditWrite
    <3>5. cEdition' \in [Chunks -> 0..MaxEditions] /\ cLocked' \in [Chunks -> BOOLEAN]
      BY <1>1, <2>2, <3>2 DEF EditWrite, TypeOK
    <3> QED
      BY <1>1, <3>3, <3>4, <3>5 DEF TypeOK, EditOpen
  <2>3. ASSUME NEW v \in Voices, Retire(v) PROVE <1>4!:
    BY <1>1, <2>3 DEF Retire, TypeOK, EditOpen
  <2>4. ASSUME NEW scope \in SUBSET Chunks, NEW force \in BOOLEAN, StartTts(scope, force) PROVE <1>4!:
    BY <1>1, <2>4 DEF StartTts, TypeOK, EditOpen
  <2>5. CASE FilterTargets \/ CommitConflict
    BY <1>1, <2>5 DEF FilterTargets, CommitConflict, RequestEnds, TypeOK, EditOpen
  <2> QED
    BY <2>1, <2>2, <2>3, <2>4, <2>5
<1>5. TypeOK'
  BY <1>1, <1>2, <1>3, <1>4 DEF TypeOK
<1> QED
  BY <1>2, <1>3, <1>4, <1>5, QuietPreserves

-----------------------------------------------------------------------------
(* The runtime's own steps *)

\* The start task, the shutdown task, the queue and the gate keep the runtime's invariants.
LEMMA RuntimeStepKeeps ==
  ASSUME IInv, NEW w \in Workers, RuntimeStep(w)
  PROVE  /\ RuntimeTypeOK' /\ wPc' \in [Workers -> Steps]
         /\ Lifecycle' /\ Delivery' /\ NoWorkAfterRelease'
         /\ wPc'[w] \notin {"freeze", "synth", "upload", "persist"} \/ wPc'[w] = wPc[w]
         /\ \A v \in Workers : v # w => wPc'[v] = wPc[v] /\ wJob'[v] = wJob[v]
         /\ wPc'[w] = wPc[w] => wJob'[w] = wJob[w]
         /\ \A j \in Jobs : jStatus'[j] = "ABSENT" <=> jStatus[j] = "ABSENT"
         /\ \A j \in Jobs : msg'[j] = "none" <=> msg[j] = "none"
         /\ troubles' = 0 => troubles = 0
         /\ troubles = 0 => \A j \in Jobs : msg'[j] = "completed" =>
              \/ msg[j] = "completed" /\ jStatus'[j] = jStatus[j]
              \/ jStatus'[j] \in {"SUCCEEDED", "FAILED", "CANCELLED"}
<1> USE DEF workerVars, deliveryVars, rowVars, bounds
<1>1. /\ wPc \in [Workers -> Steps] /\ RuntimeTypeOK /\ Lifecycle /\ Delivery /\ NoWorkAfterRelease
      /\ JobsMade
  BY DEF IInv, TypeOK, Steps
<1>2. troubles \in Nat /\ interventions \in Nat
  BY <1>1, RuntimeAssumption DEF RuntimeTypeOK
<1>3. CASE VerifyDependencies(w)
  <2>1. /\ wState' \in [Workers -> WorkerStates] /\ wStart' \in [Workers -> {"verify", "load", "up", "dead"}]
        /\ \A v \in Workers : v # w => wState'[v] = wState[v] /\ wStart'[v] = wStart[v]
        /\ \/ wState'[w] = "HEALTHY" /\ wStart'[w] = "load"
           \/ wState'[w] = "FAILED_START" /\ wStart'[w] = "dead"
        /\ UNCHANGED <<wStop, wForced, deliveryVars, rowVars, interventions>>
        /\ troubles' \in {troubles, troubles + 1} /\ troubles' \in 0..MaxTroubles
        /\ wState[w] = "STARTING"
    BY <1>1, <1>2, <1>3, RuntimeAssumption DEF VerifyDependencies, Move, Trouble, RuntimeTypeOK, WorkerStates, Lifecycle
  <2>2. RuntimeTypeOK' /\ Delivery' /\ NoWorkAfterRelease'
    BY <1>1, <1>2, <2>1 DEF RuntimeTypeOK, Delivery, NoWorkAfterRelease, InFlight
  <2>3. Lifecycle'
    BY <1>1, <2>1 DEF Lifecycle
  <2> QED
    BY <1>1, <1>2, <2>1, <2>2, <2>3
<1>4. CASE LoadModel(w)
  <2>0. wState[w] \in {"HEALTHY", "DRAINING", "STOPPED"}
    BY <1>1, <1>4 DEF LoadModel, Lifecycle
  <2>1. /\ wState' \in [Workers -> WorkerStates] /\ wStart' \in [Workers -> {"verify", "load", "up", "dead"}]
        /\ \A v \in Workers : v # w => wState'[v] = wState[v] /\ wStart'[v] = wStart[v]
        /\ wStart'[w] \in {"up", "dead"}
        /\ wState'[w] = wState[w] \/ (wState[w] = "HEALTHY" /\ wState'[w] \in {"IDLE", "FAILED_START"})
        /\ UNCHANGED <<wStop, wForced, deliveryVars, rowVars, interventions>>
        /\ troubles' \in {troubles, troubles + 1} /\ troubles' \in 0..MaxTroubles
    BY <1>1, <1>2, <1>4, <2>0, RuntimeAssumption DEF LoadModel, Move, Trouble, RuntimeTypeOK, WorkerStates, Allowed
  <2>2. RuntimeTypeOK' /\ Delivery' /\ NoWorkAfterRelease'
    BY <1>1, <1>2, <2>1 DEF RuntimeTypeOK, Delivery, NoWorkAfterRelease, InFlight
  <2>3. Lifecycle'
    BY <1>1, <2>0, <2>1 DEF Lifecycle
  <2> QED
    BY <1>1, <1>2, <2>1, <2>2, <2>3
<1>5. CASE Signal(w)
  <2>1. /\ wState' \in [Workers -> WorkerStates]
        /\ wStop' \in [Workers -> {"none", "drain", "release", "done"}]
        /\ \A v \in Workers : v # w => wState'[v] = wState[v] /\ wStop'[v] = wStop[v]
        /\ \/ wState[w] = "FAILED_START" /\ wState'[w] = "FAILED_START" /\ wStop'[w] = "release"
           \/ /\ wState[w] \in {"HEALTHY", "IDLE", "PROCESSING"}
              /\ wState'[w] = "DRAINING" /\ wStop'[w] = "drain"
        /\ UNCHANGED <<wStart, wForced, deliveryVars, rowVars, troubles>>
        /\ interventions' \in 0..MaxInterventions
    BY <1>1, <1>2, <1>5, RuntimeAssumption DEF Signal, Move, Intervene, RuntimeTypeOK, WorkerStates, Allowed
  <2>2. RuntimeTypeOK' /\ Delivery' /\ NoWorkAfterRelease'
    BY <1>1, <1>2, <2>1 DEF RuntimeTypeOK, Delivery, NoWorkAfterRelease, InFlight, Lifecycle
  <2>3. Lifecycle'
    BY <1>1, <2>1 DEF Lifecycle
  <2> QED
    BY <1>1, <1>2, <2>1, <2>2, <2>3
<1>6. CASE Drained(w)
  <2>1. RuntimeTypeOK' /\ Delivery' /\ NoWorkAfterRelease'
    BY <1>1, <1>6 DEF Drained, RuntimeTypeOK, Delivery, NoWorkAfterRelease, InFlight
  <2>2. Lifecycle'
    BY <1>1, <1>6 DEF Drained, Lifecycle, RuntimeTypeOK
  <2> QED
    BY <1>1, <1>2, <1>6, <2>1, <2>2 DEF Drained
<1>7. CASE GraceOver(w)
  <2>1. /\ wStop' \in [Workers -> {"none", "drain", "release", "done"}] /\ wForced' \in [Workers -> BOOLEAN]
        /\ \A v \in Workers : v # w => wStop'[v] = wStop[v] /\ wForced'[v] = wForced[v]
        /\ wStop[w] = "drain" /\ wForced'[w] = TRUE
        /\ UNCHANGED <<wState, wStart, wJob, wPc, wTry, tries, rowVars, interventions>>
        /\ troubles' = troubles + 1 /\ troubles' \in 0..MaxTroubles
        /\ msg' = [j \in Jobs |-> IF owner[j] = w THEN "wait" ELSE msg[j]]
        /\ owner' = [j \in Jobs |-> IF owner[j] = w THEN NoWorker ELSE owner[j]]
    BY <1>1, <1>2, <1>7, RuntimeAssumption DEF GraceOver, Trouble, Unlock, RuntimeTypeOK
  <2>2. RuntimeTypeOK'
    BY <1>1, <1>2, <2>1 DEF RuntimeTypeOK
  <2>3. Delivery'
    BY <1>1, <1>2, <2>1, RuntimeAssumption DEF Delivery, RuntimeTypeOK
  <2>4. Lifecycle' /\ NoWorkAfterRelease'
    BY <1>1, <2>1 DEF Lifecycle, NoWorkAfterRelease, InFlight
  <2>5. \A j \in Jobs : owner[j] = w => msg[j] = "active"
    BY <1>1, RuntimeAssumption DEF Delivery
  <2> QED
    BY <1>1, <1>2, <2>1, <2>2, <2>3, <2>4, <2>5
<1>8. CASE Release(w)
  <2>1. /\ wState' \in [Workers -> WorkerStates]
        /\ wStop' \in [Workers -> {"none", "drain", "release", "done"}]
        /\ \A v \in Workers : v # w => wState'[v] = wState[v] /\ wStop'[v] = wStop[v]
        /\ wStop[w] = "release" /\ wStop'[w] = "done"
        /\ IF wState[w] = "FAILED_START" THEN wState'[w] = "FAILED_START" ELSE wState'[w] = "STOPPED"
        /\ UNCHANGED <<wStart, wForced, deliveryVars, rowVars, bounds>>
    BY <1>1, <1>8 DEF Release, Move, RuntimeTypeOK, WorkerStates
  <2>2. RuntimeTypeOK' /\ Delivery' /\ NoWorkAfterRelease'
    BY <1>1, <2>1 DEF RuntimeTypeOK, Delivery, NoWorkAfterRelease, InFlight
  <2>3. Lifecycle'
    BY <1>1, <2>1 DEF Lifecycle
  <2> QED
    BY <1>1, <1>2, <2>1, <2>2, <2>3
<1>9. CASE \E j \in Jobs : Fetch(w, j)
  <2>0. PICK j \in Jobs : Fetch(w, j)
    BY <1>9
  <2>1. /\ wState[w] = "IDLE" /\ wPc[w] = "idle" /\ msg[j] = "wait" /\ wJob[w] = NoJob
        /\ jStatus[j] # "ABSENT" /\ owner[j] = NoWorker /\ tries[j] + 1 \in 0..MaxAttempts
        /\ \A i \in Jobs : owner[i] # w
    BY <1>1, <2>0, RuntimeAssumption DEF Fetch, Delivery, JobsMade, RuntimeTypeOK
  <2>2. /\ msg' = [msg EXCEPT ![j] = "active"] /\ owner' = [owner EXCEPT ![j] = w]
        /\ wJob' = [wJob EXCEPT ![w] = j] /\ wTry' = [wTry EXCEPT ![w] = tries[j] + 1]
        /\ wPc' = [wPc EXCEPT ![w] = "fetched"]
        /\ UNCHANGED <<tries, workerVars, rowVars, bounds>>
    BY <2>0 DEF Fetch, Goto
  <2>3. RuntimeTypeOK' /\ wPc' \in [Workers -> Steps]
    BY <1>1, <2>1, <2>2 DEF RuntimeTypeOK, Steps
  <2>4. /\ wPc'[w] = "fetched" /\ wJob'[w] = j /\ owner'[j] = w /\ msg'[j] = "active"
        /\ \A v \in Workers : v # w => wPc'[v] = wPc[v] /\ wJob'[v] = wJob[v]
        /\ \A i \in Jobs : i # j => msg'[i] = msg[i] /\ owner'[i] = owner[i]
    BY <1>1, <2>2 DEF RuntimeTypeOK
  <2>5. Lifecycle' /\ NoWorkAfterRelease'
    BY <1>1, <2>1, <2>2, <2>4 DEF Lifecycle, NoWorkAfterRelease, InFlight
  <2>6. \A v \in Workers : wPc'[v] = "idle" <=> wJob'[v] = NoJob
    BY <1>1, <2>4, RuntimeAssumption DEF Delivery
  <2>7. \A v \in Workers : wJob'[v] # NoJob => jStatus'[wJob'[v]] # "ABSENT"
    BY <1>1, <2>1, <2>2, <2>4 DEF Delivery
  <2>8. \A i \in Jobs : owner'[i] # NoWorker => msg'[i] = "active" /\ wJob'[owner'[i]] = i
    BY <1>1, <2>1, <2>4 DEF Delivery, RuntimeTypeOK
  <2>9. \A i \in Jobs : msg'[i] \in {"none", "wait", "active"} => tries'[i] < MaxAttempts
    BY <1>1, <2>1, <2>2, <2>4 DEF Delivery
  <2>10. ASSUME troubles' = 0, NEW v \in Workers, wJob'[v] # NoJob PROVE owner'[wJob'[v]] = v
    <3>1. CASE v = w
      BY <2>4, <3>1
    <3>2. CASE v # w
      <4>1. owner[wJob[v]] = v /\ wJob'[v] = wJob[v] /\ wJob[v] \in Jobs /\ v # NoWorker
        BY <1>1, <2>2, <2>4, <2>10, <3>2, RuntimeAssumption DEF Delivery, RuntimeTypeOK
      <4>2. wJob[v] # j
        BY <2>1, <4>1
      <4> QED
        BY <2>4, <4>1, <4>2
    <3> QED
      BY <3>1, <3>2
  <2>11. Delivery'
    BY <2>6, <2>7, <2>8, <2>9, <2>10 DEF Delivery
  <2> QED
    BY <1>2, <2>1, <2>2, <2>3, <2>4, <2>5, <2>11
<1>10. CASE Refuse(w)
  <2>1. wPc[w] # "idle" /\ Finish(w, "retry") /\ UNCHANGED <<rowVars, bounds>>
    BY <1>10 DEF Refuse
  <2>2. jStatus' \in [Jobs -> Statuses] /\ jCancel' \in [Jobs -> BOOLEAN]
    BY <1>1, <2>1 DEF RuntimeTypeOK, Statuses
  <2> QED
    BY <1>2, <2>1, <2>2, FinishRuntime
<1>11. CASE StartJob(w)
  <2>1. /\ wState' = [wState EXCEPT ![w] = "PROCESSING"] /\ wPc' = [wPc EXCEPT ![w] = "gate"]
        /\ UNCHANGED <<wStart, wStop, wForced, wJob, wTry, msg, tries, owner, rowVars, bounds>>
        /\ wPc[w] = "fetched" /\ wState[w] \notin {"DRAINING", "STOPPED", "STARTING", "HEALTHY", "FAILED_START"}
    BY <1>1, <1>11 DEF StartJob, Move, Goto, IsDraining, Lifecycle
  <2>2. /\ wState'[w] = "PROCESSING" /\ wPc'[w] = "gate"
        /\ \A v \in Workers : v # w => wPc'[v] = wPc[v] /\ wState'[v] = wState[v]
    BY <1>1, <2>1 DEF RuntimeTypeOK
  <2>3. wStart[w] \in {"up", "dead"} /\ wStop[w] = "none"
    BY <1>1, <2>1 DEF Lifecycle, RuntimeTypeOK
  <2>4. RuntimeTypeOK' /\ wPc' \in [Workers -> Steps]
    BY <1>1, <2>1 DEF RuntimeTypeOK, Steps, WorkerStates
  <2>5. Lifecycle' /\ NoWorkAfterRelease'
    BY <1>1, <2>1, <2>2, <2>3 DEF Lifecycle, NoWorkAfterRelease, InFlight
  <2>6. Delivery'
    BY <1>1, <2>1, <2>2 DEF Delivery, RuntimeTypeOK
  <2> QED
    BY <1>2, <2>1, <2>2, <2>4, <2>5, <2>6
<1>12. CASE Gate(w)
  <2>0. UNCHANGED <<jStatus, jCancel, bounds>> /\ wPc[w] = "gate"
    BY <1>12 DEF Gate
  <2>1. jStatus' \in [Jobs -> Statuses] /\ jCancel' \in [Jobs -> BOOLEAN]
    BY <1>1, <2>0 DEF RuntimeTypeOK, Statuses
  <2>2. CASE jStatus[wJob[w]] = "CANCELLED"
    <3>1. Finish(w, "completed")
      BY <1>12, <2>2 DEF Gate
    <3> QED
      BY <1>2, <2>0, <2>1, <2>2, <3>1, FinishRuntime
  <2>3. CASE jStatus[wJob[w]] # "CANCELLED"
    <3>1. PICK pc \in {"halt", "load"} : Goto(w, pc)
      BY <1>12, <2>3 DEF Gate
    <3>2. UNCHANGED <<wJob, wTry, msg, tries, owner, workerVars>>
      BY <1>12, <2>3 DEF Gate
    <3>3. pc \in Steps \ {"idle", "fetched"} /\ wPc[w] \in Steps \ {"idle", "fetched"}
      BY <2>0 DEF Steps
    <3>4. /\ RuntimeTypeOK' /\ wPc' \in [Workers -> Steps]
          /\ Lifecycle' /\ Delivery' /\ NoWorkAfterRelease'
          /\ wPc'[w] = pc /\ \A v \in Workers : v # w => wPc'[v] = wPc[v]
      BY <2>0, <2>1, <3>1, <3>2, <3>3, WorkRuntime
    <3> QED
      BY <1>2, <2>0, <3>2, <3>4
  <2> QED
    BY <2>2, <2>3
<1>13. CASE Halt(w)
  <2>0. /\ UNCHANGED <<jCancel, bounds>> /\ wPc[w] = "halt" /\ Finish(w, "completed")
        /\ jStatus' = [jStatus EXCEPT ![wJob[w]] = "CANCELLED"]
        /\ wJob[w] \in Jobs /\ jStatus[wJob[w]] # "ABSENT"
    BY <1>1, <1>13 DEF Halt, Delivery, RuntimeTypeOK
  <2>1. /\ jStatus' \in [Jobs -> Statuses] /\ jCancel' \in [Jobs -> BOOLEAN]
        /\ jStatus'[wJob[w]] = "CANCELLED"
        /\ \A j \in Jobs : j # wJob[w] => jStatus'[j] = jStatus[j]
    BY <1>1, <2>0 DEF RuntimeTypeOK, Statuses
  <2> QED
    BY <1>2, <2>0, <2>1, FinishRuntime
<1> QED
  BY <1>3, <1>4, <1>5, <1>6, <1>7, <1>8, <1>9, <1>10, <1>11, <1>12, <1>13 DEF RuntimeStep

\* A step of the runtime, the death of a worker and a cancellation.
LEMMA RuntimePreserves ==
  ASSUME IInv, \/ \E w \in Workers : Runs(w) \/ Die(w)
               \/ \E j \in Jobs : CancelJob(j)
  PROVE  IInv'
<1> USE DEF workerVars, deliveryVars, rowVars, bounds, chunkVars, audioVars, jobVars, handlerVars,
            requestVars, editVars
<1>1. /\ TypeOK /\ Lifecycle /\ Delivery /\ NoWorkAfterRelease /\ EditOpen /\ JobsMade
      /\ wPc \in [Workers -> Steps] /\ RuntimeTypeOK
      /\ troubles \in Nat /\ interventions \in Nat
  BY RuntimeAssumption DEF IInv, TypeOK, RuntimeTypeOK, Steps
<1>2. CASE \E w \in Workers : Runs(w)
  <2>1. PICK w \in Workers : Runs(w)
    BY <1>2
  <2>2. RuntimeStep(w) /\ UNCHANGED <<chunkVars, audioVars, jobVars, handlerVars, requestVars, editVars>>
    BY <2>1 DEF Runs
  <2>3. RuntimeTypeOK' /\ wPc' \in [Workers -> Steps] /\ Lifecycle' /\ Delivery' /\ NoWorkAfterRelease'
    BY <2>2, RuntimeStepKeeps
  <2>4. TypeOK' /\ EditOpen'
    BY <1>1, <2>2, <2>3 DEF TypeOK, Steps, EditOpen
  <2>5. \A v \in Workers : wPc'[v] \in {"freeze", "synth", "upload", "persist"} =>
           wPc'[v] = wPc[v] /\ wJob'[v] = wJob[v]
    BY <2>2, RuntimeStepKeeps
  <2>6. /\ \A j \in Jobs : jStatus'[j] = "ABSENT" <=> jStatus[j] = "ABSENT"
        /\ \A j \in Jobs : msg'[j] = "none" <=> msg[j] = "none"
        /\ troubles' = 0 => troubles = 0
        /\ troubles = 0 => \A j \in Jobs : msg'[j] = "completed" =>
              \/ msg[j] = "completed" /\ jStatus'[j] = jStatus[j]
              \/ jStatus'[j] \in {"SUCCEEDED", "FAILED", "CANCELLED"}
    BY <2>2, RuntimeStepKeeps
  <2> QED
    BY <2>2, <2>3, <2>4, <2>5, <2>6, QuietPreserves
<1>3. CASE \E w \in Workers : Die(w)
  <2>0. PICK w \in Workers : Die(w)
    BY <1>3
  <2>1. /\ wState' = [wState EXCEPT ![w] = "STARTING"] /\ wStart' = [wStart EXCEPT ![w] = "verify"]
        /\ wStop' = [wStop EXCEPT ![w] = "none"] /\ wForced' = [wForced EXCEPT ![w] = FALSE]
        /\ wJob' = [wJob EXCEPT ![w] = NoJob] /\ wPc' = [wPc EXCEPT ![w] = "idle"]
        /\ wTry' = [wTry EXCEPT ![w] = 0]
        /\ msg' = [j \in Jobs |-> IF owner[j] = w THEN "wait" ELSE msg[j]]
        /\ owner' = [j \in Jobs |-> IF owner[j] = w THEN NoWorker ELSE owner[j]]
        /\ troubles' = troubles + 1 /\ troubles < MaxTroubles
        /\ UNCHANGED <<tries, rowVars, interventions, chunkVars, audioVars, jobVars, requestVars, editVars>>
        /\ wEdition' = [wEdition EXCEPT ![w] = 0] /\ wGen' = [wGen EXCEPT ![w] = 0]
        /\ wOutcome' = [wOutcome EXCEPT ![w] = "none"]
    BY <2>0 DEF Die, Restart, Move, Goto, Unlock, Trouble, Forget
  <2>2. /\ wPc'[w] = "idle" /\ wJob'[w] = NoJob /\ wState'[w] = "STARTING" /\ wStart'[w] = "verify"
        /\ wStop'[w] = "none"
        /\ \A v \in Workers : v # w =>
             /\ wPc'[v] = wPc[v] /\ wJob'[v] = wJob[v] /\ wState'[v] = wState[v] /\ wStart'[v] = wStart[v]
             /\ wStop'[v] = wStop[v] /\ wForced'[v] = wForced[v]
             /\ wEdition'[v] = wEdition[v] /\ wGen'[v] = wGen[v]
    BY <1>1, <2>1 DEF RuntimeTypeOK, TypeOK
  <2>3. RuntimeTypeOK'
    BY <1>1, <2>1, RuntimeAssumption DEF RuntimeTypeOK, WorkerStates
  <2>4. TypeOK' /\ EditOpen'
    BY <1>1, <2>1, <2>3, TtsAssumption DEF TypeOK, EditOpen
  <2>5. Lifecycle' /\ NoWorkAfterRelease'
    BY <1>1, <2>2 DEF Lifecycle, NoWorkAfterRelease, InFlight
  <2>6. \A j \in Jobs : owner[j] = w => msg[j] = "active"
    BY <1>1, RuntimeAssumption DEF Delivery
  <2>7. Delivery'
    <3>1. \A v \in Workers : wPc'[v] = "idle" <=> wJob'[v] = NoJob
      BY <1>1, <2>2 DEF Delivery
    <3>2. \A v \in Workers : wJob'[v] # NoJob => jStatus'[wJob'[v]] # "ABSENT"
      BY <1>1, <2>1, <2>2 DEF Delivery
    <3>3. \A j \in Jobs : owner'[j] # NoWorker => msg'[j] = "active" /\ wJob'[owner'[j]] = j
      BY <1>1, <2>1, <2>2 DEF Delivery, RuntimeTypeOK
    <3>4. \A j \in Jobs : msg'[j] \in {"none", "wait", "active"} => tries'[j] < MaxAttempts
      BY <1>1, <2>1, <2>6 DEF Delivery
    <3>5. troubles' # 0
      BY <1>1, <2>1
    <3> QED
      BY <3>1, <3>2, <3>3, <3>4, <3>5 DEF Delivery
  <2>8. /\ troubles' # 0
        /\ \A j \in Jobs : msg'[j] = "none" <=> msg[j] = "none"
        /\ \A j \in Jobs : msg'[j] = "completed" => msg[j] = "completed"
    BY <1>1, <2>1, <2>6
  <2> QED
    BY <2>1, <2>2, <2>4, <2>5, <2>7, <2>8, QuietPreserves
<1>4. CASE \E j \in Jobs : CancelJob(j)
  <2>0. PICK j \in Jobs : CancelJob(j)
    BY <1>4
  <2>1. /\ jStatus[j] \in {"QUEUED", "RUNNING"}
        /\ jCancel' = [jCancel EXCEPT ![j] = TRUE]
        /\ jStatus' = [jStatus EXCEPT ![j] = IF @ = "QUEUED" THEN "CANCELLED" ELSE @]
        /\ msg' = [msg EXCEPT ![j] = IF @ = "wait" /\ jStatus[j] = "QUEUED" THEN "removed" ELSE @]
        /\ interventions' = interventions + 1 /\ interventions < MaxInterventions
        /\ UNCHANGED <<wJob, wPc, wTry, tries, owner, workerVars, troubles>>
        /\ UNCHANGED <<chunkVars, audioVars, jobVars, handlerVars, requestVars, editVars>>
    BY <2>0 DEF CancelJob, Cancel, Intervene
  <2>2. /\ jStatus'[j] \in {"CANCELLED", "RUNNING"} /\ jStatus'[j] \in {jStatus[j], "CANCELLED"}
        /\ msg'[j] = msg[j] \/ (msg[j] = "wait" /\ msg'[j] = "removed")
        /\ \A i \in Jobs : i # j => jStatus'[i] = jStatus[i] /\ msg'[i] = msg[i]
    BY <1>1, <2>1 DEF RuntimeTypeOK
  <2>3. RuntimeTypeOK'
    BY <1>1, <2>1, RuntimeAssumption DEF RuntimeTypeOK
  <2>4. TypeOK' /\ EditOpen' /\ Lifecycle' /\ NoWorkAfterRelease'
    BY <1>1, <2>1, <2>3 DEF TypeOK, EditOpen, Lifecycle, NoWorkAfterRelease, InFlight
  <2>5. Delivery'
    BY <1>1, <2>1, <2>2 DEF Delivery, RuntimeTypeOK
  <2> QED
    BY <2>1, <2>2, <2>4, <2>5, QuietPreserves
<1> QED
  BY <1>2, <1>3, <1>4

-----------------------------------------------------------------------------
(* The handler *)

\* A handler that ends without a new rendering on record.
LEMMA EndPreserves ==
  ASSUME IInv, NEW w \in Workers,
         LoadSkips(w) \/ LoadTerminal(w) \/ PersistRefused(w) \/ RecordFailure(w)
  PROVE  IInv'
<1> USE DEF workerVars, rowVars, chunkVars, audioVars, jobVars, handlerVars, requestVars, editVars
<1> DEFINE j == wJob[w]
<1>1. /\ TypeOK /\ EditOpen /\ RuntimeTypeOK /\ Delivery
      /\ troubles \in Nat
  BY RuntimeAssumption DEF IInv, TypeOK, RuntimeTypeOK
<1>2. /\ wPc[w] # "idle" /\ j \in Jobs /\ jStatus[j] # "ABSENT"
      /\ UNCHANGED <<jCancel, bounds, jChunk, jVoice, jForced, chunkVars, audioVars, requestVars, editVars>>
  BY <1>1 DEF LoadSkips, LoadTerminal, PersistRefused, RecordFailure, Delivery, RuntimeTypeOK
<1>3. PICK outcome \in {"completed", "retry", "failed"} :
        /\ Finish(w, outcome)
        /\ jStatus' \in [Jobs -> Statuses]
        /\ \A i \in Jobs : i # j => jStatus'[i] = jStatus[i]
        /\ jStatus'[j] # "ABSENT"
        /\ outcome = "completed" => jStatus'[j] \in {"SUCCEEDED", "FAILED", "CANCELLED"}
  <2>1. CASE LoadSkips(w)
    BY <1>1, <1>2, <2>1 DEF LoadSkips, RuntimeTypeOK, Statuses, JobOver
  <2>2. CASE LoadTerminal(w) \/ PersistRefused(w)
    BY <1>1, <1>2, <2>2 DEF LoadTerminal, PersistRefused, RuntimeTypeOK, Statuses
  <2>3. CASE RecordFailure(w)
    <3>1. JobError(wOutcome[w]) \in {"retry", "failed"} /\ JobError(wOutcome[w]) # "completed"
      BY DEF JobError
    <3>2. /\ jStatus' \in [Jobs -> Statuses] /\ jStatus'[j] # "ABSENT"
          /\ \A i \in Jobs : i # j => jStatus'[i] = jStatus[i]
      BY <1>1, <1>2, <2>3 DEF RecordFailure, RuntimeTypeOK, Statuses
    <3>3. Finish(w, JobError(wOutcome[w]))
      BY <2>3 DEF RecordFailure
    <3> QED
      BY <3>1, <3>2, <3>3
  <2> QED
    BY <2>1, <2>2, <2>3
<1>4. /\ jCancel' \in [Jobs -> BOOLEAN] /\ UNCHANGED bounds
      /\ \A i \in Jobs : jStatus'[i] = "ABSENT" <=> jStatus[i] = "ABSENT"
  BY <1>1, <1>2, <1>3 DEF RuntimeTypeOK
<1>5. /\ RuntimeTypeOK' /\ wPc' \in [Workers -> Steps]
      /\ Lifecycle' /\ Delivery' /\ NoWorkAfterRelease'
      /\ wPc'[w] = "idle"
      /\ \A v \in Workers : v # w => wPc'[v] = wPc[v] /\ wJob'[v] = wJob[v]
      /\ \A i \in Jobs : (msg'[i] = "none" <=> msg[i] = "none")
      /\ \A i \in Jobs : msg'[i] = "completed" =>
           msg[i] = "completed" \/ (i = j /\ outcome = "completed")
  BY <1>2, <1>3, <1>4, FinishRuntime
<1>6. /\ wEdition' \in [Workers -> 0..MaxEditions] /\ wGen' \in [Workers -> Generations \cup {0}]
      /\ wOutcome' \in [Workers -> {"none", "PASS", "FAIL", "retryable", "non_retryable"}]
      /\ \A v \in Workers : v # w => wEdition'[v] = wEdition[v] /\ wGen'[v] = wGen[v]
  <2>1. CASE UNCHANGED handlerVars
    BY <1>1, <2>1 DEF TypeOK
  <2>2. CASE Forget(w)
    BY <1>1, <2>2, TtsAssumption DEF TypeOK, Forget
  <2> QED
    BY <2>1, <2>2 DEF LoadSkips, LoadTerminal, PersistRefused, RecordFailure
<1>7. /\ jTts' \in [Jobs -> {"ABSENT", "PENDING", "RUNNING", "SUCCEEDED", "FAILED"}]
      /\ jResult' \in [Jobs -> {0, 1}]
      /\ \A i \in Jobs : \/ jResult'[i] \in {0, jResult[i]}
                         \/ /\ jStatus[i] # "ABSENT" /\ audio[jChunk[i]] # <<>>
                            /\ audio[jChunk[i]][jResult'[i]].bytes[1] = jVoice[i]
  <2>1. CASE LoadSkips(w)
    <3>1. jChunk[j] \in Chunks
      BY <1>2 DEF IInv, JobsMade
    <3>2. audio[jChunk[j]] \in Takes
      BY <1>1, <3>1 DEF TypeOK
    <3>3. Current(jChunk[j]) \in {0, 1} /\ (Current(jChunk[j]) # 0 => audio[jChunk[j]] # <<>>)
      BY <3>2 DEF Takes, Current
    <3>4. /\ Existing(w) \in {0, 1}
          /\ Existing(w) # 0 => /\ audio[jChunk[j]] # <<>>
                                /\ audio[jChunk[j]][Existing(w)].bytes[1] = jVoice[j]
      BY <3>3 DEF Existing, Usable
    <3>5. \/ jResult' = jResult
          \/ jResult' = [jResult EXCEPT ![j] = 0]
          \/ Existing(w) # 0 /\ jResult' = [jResult EXCEPT ![j] = Existing(w)]
      BY <2>1 DEF LoadSkips
    <3>6. jTts' = jTts
      BY <2>1 DEF LoadSkips
    <3> QED
      BY <1>1, <1>2, <3>4, <3>5, <3>6 DEF TypeOK
  <2>2. CASE LoadTerminal(w) \/ PersistRefused(w)
    BY <1>1, <2>2 DEF LoadTerminal, PersistRefused, TypeOK
  <2>3. CASE RecordFailure(w)
    BY <1>1, <2>3 DEF RecordFailure, TypeOK
  <2> QED
    BY <2>1, <2>2, <2>3
<1>8. TypeOK' /\ EditOpen'
  BY <1>1, <1>2, <1>5, <1>6, <1>7 DEF TypeOK, EditOpen, Steps
<1>9. /\ troubles' = troubles
      /\ \A i \in Jobs : msg'[i] = "completed" =>
           \/ msg[i] = "completed" /\ jStatus'[i] = jStatus[i]
           \/ jStatus'[i] \in {"SUCCEEDED", "FAILED", "CANCELLED"}
           \/ troubles # 0
  <2>1. troubles' = troubles
    BY <1>2 DEF bounds
  <2>2. ASSUME troubles = 0 PROVE msg[j] = "active"
    BY <1>1, <1>2, <2>2, RuntimeAssumption DEF Delivery, RuntimeTypeOK
  <2> QED
    BY <1>3, <1>5, <2>1, <2>2
<1> QED
  BY <1>2, <1>4, <1>5, <1>6, <1>7, <1>8, <1>9, QuietPreserves

\* Freezing and synthesising: the handler keeps its generation_version.
LEMMA FreezePreserves ==
  ASSUME IInv, NEW w \in Workers, Freeze(w) \/ Synthesize(w)
  PROVE  IInv'
<1> USE DEF workerVars, rowVars, chunkVars, audioVars, jobVars, handlerVars, requestVars, editVars
<1> DEFINE j == wJob[w]
<1>1. /\ TypeOK /\ EditOpen /\ RuntimeTypeOK /\ Delivery /\ JobsMade
  BY DEF IInv, TypeOK
<1>2. /\ wPc[w] \in {"freeze", "synth"} /\ j \in Jobs /\ jStatus[j] # "ABSENT" /\ jChunk[j] \in Chunks
  BY <1>1 DEF Freeze, Synthesize, Delivery, RuntimeTypeOK, JobsMade
<1>3. PICK pc \in {"synth", "upload", "fail"} :
        /\ Goto(w, pc)
        /\ UNCHANGED <<wJob, wTry, msg, tries, owner, workerVars, bounds, jCancel, audioVars,
                       jChunk, jVoice, jForced, jResult, wEdition, wGen, requestVars, editVars,
                       cEdition, cVoice, retired>>
  BY DEF Freeze, Synthesize
<1>4. /\ jStatus' \in [Jobs -> Statuses]
      /\ \A i \in Jobs : jStatus'[i] = "ABSENT" <=> jStatus[i] = "ABSENT"
      /\ \A i \in Jobs : i # j => jStatus'[i] = jStatus[i]
      /\ jTts' \in [Jobs -> {"ABSENT", "PENDING", "RUNNING", "SUCCEEDED", "FAILED"}]
      /\ cLocked' \in [Chunks -> BOOLEAN]
      /\ wOutcome' \in [Workers -> {"none", "PASS", "FAIL", "retryable", "non_retryable"}]
  <2>1. CASE Freeze(w)
    <3>1. /\ jStatus' \in [Jobs -> Statuses] /\ jStatus'[j] = "RUNNING"
          /\ \A i \in Jobs : i # j => jStatus'[i] = jStatus[i]
      BY <1>1, <1>2, <2>1 DEF Freeze, Statuses, RuntimeTypeOK
    <3>2. jTts' \in [Jobs -> {"ABSENT", "PENDING", "RUNNING", "SUCCEEDED", "FAILED"}]
      BY <1>1, <1>2, <2>1 DEF Freeze, TypeOK
    <3>3. cLocked' \in [Chunks -> BOOLEAN] /\ wOutcome' = wOutcome
      BY <1>1, <1>2, <2>1 DEF Freeze, TypeOK
    <3> QED
      BY <1>1, <1>2, <3>1, <3>2, <3>3 DEF TypeOK
  <2>2. CASE Synthesize(w)
    BY <1>1, <1>2, <2>2 DEF Synthesize, TypeOK, RuntimeTypeOK, Statuses
  <2> QED
    BY <2>1, <2>2
<1>5. jCancel' \in [Jobs -> BOOLEAN]
  BY <1>1, <1>3 DEF RuntimeTypeOK
<1>6. /\ RuntimeTypeOK' /\ wPc' \in [Workers -> Steps]
      /\ Lifecycle' /\ Delivery' /\ NoWorkAfterRelease'
      /\ wPc'[w] = pc /\ \A v \in Workers : v # w => wPc'[v] = wPc[v]
  <2>1. wPc[w] \in Steps \ {"idle", "fetched"} /\ pc \in Steps \ {"idle", "fetched"}
    BY <1>2 DEF Steps
  <2> QED
    BY <1>3, <1>4, <1>5, <2>1, WorkRuntime
<1>7. TypeOK' /\ EditOpen'
  BY <1>1, <1>3, <1>4, <1>6 DEF TypeOK, EditOpen, Steps
<1>8. /\ troubles' = troubles /\ msg' = msg
      /\ troubles = 0 => msg[j] = "active"
  BY <1>1, <1>2, <1>3, RuntimeAssumption DEF Delivery, RuntimeTypeOK, bounds
<1> QED
  BY <1>2, <1>3, <1>4, <1>6, <1>7, <1>8, QuietPreserves

\* The next generation_version of a chunk without audio, and of one with.
LEMMA GenerationOf ==
  ASSUME TypeOK, NEW c \in Chunks
  PROVE  NextGeneration(c) = IF audio[c] = <<>> THEN 1 ELSE 2
<1>1. audio[c] \in Takes
  BY DEF TypeOK
<1>2. CASE audio[c] = <<>>
  <2>1. {0} \cup {audio[c][i].gen : i \in DOMAIN audio[c]} = {0}
    BY <1>2
  <2>2. Max({0}) = 0
    BY DEF Max
  <2>3. NextGeneration(c) = Max({0}) + 1
    BY <2>1, Zenon DEF NextGeneration
  <2> QED
    BY <1>2, <2>2, <2>3
<1>3. CASE audio[c] # <<>>
  <2>1. PICK r \in [gen : {1}, bytes : Renderings, ok : BOOLEAN] : audio[c] = <<r>>
    BY <1>1, <1>3 DEF Takes
  <2>2. DOMAIN audio[c] = {1} /\ audio[c][1].gen = 1
    BY <2>1
  <2>3. {0} \cup {audio[c][i].gen : i \in DOMAIN audio[c]} = {0, 1}
    BY <2>2
  <2>4. Max({0, 1}) = 1
    BY DEF Max
  <2>5. NextGeneration(c) = Max({0, 1}) + 1
    BY <2>3, Zenon DEF NextGeneration
  <2> QED
    BY <1>3, <2>4, <2>5
<1> QED
  BY <1>2, <1>3

\* A handler goes to work: alone on its chunk, or the overlap is noted.
LEMMA LoadPreserves ==
  ASSUME IInv, NEW w \in Workers, Load(w)
  PROVE  IInv'
<1> USE DEF workerVars, rowVars, chunkVars, jobVars, requestVars, editVars
<1> DEFINE j == wJob[w]
           c == jChunk[j]
<1>1. /\ TypeOK /\ EditOpen /\ RuntimeTypeOK /\ Delivery /\ JobsMade /\ Numbering /\ Stored
      /\ BytesOfRows /\ ResultLineage /\ ResultOnRecord /\ AckedIsSettled
  BY DEF IInv, TypeOK
<1>2. /\ wPc[w] = "load" /\ j \in Jobs /\ jStatus[j] # "ABSENT" /\ c \in Chunks
  BY <1>1 DEF Load, Delivery, RuntimeTypeOK, JobsMade
<1>3. /\ Goto(w, "freeze")
      /\ UNCHANGED <<wOutcome, wJob, wTry, msg, tries, owner, workerVars, rowVars, bounds,
                     audio, object, chunkVars, jobVars, requestVars, editVars>>
      /\ wEdition' = [wEdition EXCEPT ![w] = cEdition[c]]
      /\ wGen' = [wGen EXCEPT ![w] = NextGeneration(c)]
      /\ overlapped' = [overlapped EXCEPT ![c] =
           @ \/ \E v \in Workers \ {w} :
                  wPc[v] \in {"freeze", "synth", "upload", "persist"} /\ jChunk[wJob[v]] = c]
  BY DEF Load
<1>4. /\ RuntimeTypeOK' /\ wPc' \in [Workers -> Steps]
      /\ Lifecycle' /\ Delivery' /\ NoWorkAfterRelease'
      /\ wPc'[w] = "freeze" /\ \A v \in Workers : v # w => wPc'[v] = wPc[v]
  <2>1. /\ wPc[w] \in Steps \ {"idle", "fetched"} /\ "freeze" \in Steps \ {"idle", "fetched"}
        /\ jStatus' \in [Jobs -> Statuses] /\ jCancel' \in [Jobs -> BOOLEAN] /\ jStatus' = jStatus
    BY <1>1, <1>2, <1>3 DEF Steps, Statuses, RuntimeTypeOK
  <2> QED
    BY <1>3, <2>1, WorkRuntime
<1>5. /\ wGen'[w] = IF audio[c] = <<>> THEN 1 ELSE 2
      /\ wGen' \in [Workers -> Generations \cup {0}] /\ wEdition' \in [Workers -> 0..MaxEditions]
      /\ \A v \in Workers : v # w => wGen'[v] = wGen[v] /\ wEdition'[v] = wEdition[v]
  BY <1>1, <1>2, <1>3, GenerationOf DEF TypeOK, Generations
<1>6. /\ overlapped' \in [Chunks -> BOOLEAN]
      /\ \A d \in Chunks : overlapped[d] => overlapped'[d]
      /\ \A d \in Chunks : d # c => overlapped'[d] = overlapped[d]
      /\ \A v \in Workers : v # w /\ AtWork(v) /\ jChunk[wJob[v]] = c => overlapped'[c]
  BY <1>1, <1>2, <1>3, Zenon DEF TypeOK, AtWork
<1>7. TypeOK' /\ EditOpen' /\ JobsMade'
  BY <1>1, <1>3, <1>4, <1>5, <1>6 DEF TypeOK, EditOpen, Steps, JobsMade
<1>8. ASSUME NEW v \in Workers, AtWork(v)
      PROVE  wJob[v] \in Jobs /\ jChunk[wJob[v]] \in Chunks
  BY <1>1, <1>8 DEF AtWork, Delivery, RuntimeTypeOK, JobsMade
<1>9. \A v \in Workers : AtWork(v)' <=> v = w \/ AtWork(v)
  BY <1>2, <1>4 DEF AtWork
<1>10. Numbering'
  <2>1. ASSUME NEW u \in Workers, NEW v \in Workers, AtWork(u)', AtWork(v)',
               jChunk[wJob[u]] = jChunk[wJob[v]], u # v
        PROVE  overlapped'[jChunk[wJob[u]]]
    <3>1. CASE u # w /\ v # w
      BY <1>1, <1>6, <1>8, <1>9, <2>1, <3>1 DEF Numbering
    <3>2. CASE u = w \/ v = w
      BY <1>6, <1>9, <2>1, <3>2
    <3> QED
      BY <3>1, <3>2
  <2>2. ASSUME NEW v \in Workers, AtWork(v)'
        PROVE  /\ wGen'[v] \in Generations
               /\ audio[jChunk[wJob[v]]] = <<>> => wGen'[v] = 1
               /\ audio[jChunk[wJob[v]]] # <<>> => wGen'[v] = 2 \/ overlapped'[jChunk[wJob[v]]]
    <3>1. CASE v = w
      BY <1>5, <3>1 DEF Generations
    <3>2. CASE v # w
      BY <1>1, <1>5, <1>6, <1>8, <1>9, <2>2, <3>2 DEF Numbering
    <3> QED
      BY <3>1, <3>2
  <2>3. UNCHANGED <<jChunk, wJob, audio>>
    BY <1>3
  <2> QED
    BY <2>1, <2>2, <2>3 DEF Numbering
<1>11. Stored'
  <2>1. ASSUME NEW v \in Workers, wPc'[v] = "persist"
        PROVE  (overlapped[jChunk[wJob[v]]] \/ object[jChunk[wJob[v]]][wGen[v]] = Bytes(v))'
    <3>1. v # w /\ wPc[v] = "persist" /\ jChunk[wJob[v]] \in Chunks
      BY <1>4, <1>8, <2>1 DEF AtWork
    <3> QED
      BY <1>1, <1>3, <1>5, <1>6, <3>1 DEF Stored, Bytes
  <2> QED
    BY <2>1 DEF Stored
<1>12. BytesOfRows' /\ ResultLineage' /\ ResultOnRecord' /\ AckedIsSettled'
  BY <1>1, <1>3, <1>6 DEF BytesOfRows, ResultLineage, ResultOnRecord, AckedIsSettled, bounds
<1> QED
  BY <1>4, <1>7, <1>10, <1>11, <1>12 DEF IInv

\* The bytes are stored under the handler's own generation_version.
LEMMA UploadPreserves ==
  ASSUME IInv, NEW w \in Workers, Upload(w)
  PROVE  IInv'
<1> USE DEF workerVars, rowVars, chunkVars, jobVars, requestVars, editVars
<1> DEFINE j == wJob[w]
           c == jChunk[j]
<1>1. /\ TypeOK /\ EditOpen /\ RuntimeTypeOK /\ Delivery /\ JobsMade /\ Numbering /\ Stored
      /\ BytesOfRows /\ ResultLineage /\ ResultOnRecord /\ AckedIsSettled
  BY DEF IInv, TypeOK
<1>2. /\ wPc[w] = "upload" /\ AtWork(w) /\ j \in Jobs /\ jStatus[j] # "ABSENT" /\ c \in Chunks
      /\ wGen[w] \in Generations /\ jVoice[j] \in Voices
  BY <1>1 DEF Upload, Delivery, RuntimeTypeOK, JobsMade, AtWork, Numbering
<1>3. UNCHANGED <<wEdition, wGen, wJob, wTry, msg, tries, owner, workerVars, rowVars, bounds,
                  audio, overlapped, chunkVars, jobVars, requestVars, editVars>>
  BY DEF Upload
<1>4. PICK pc \in {"persist", "fail"} :
        /\ Goto(w, pc)
        /\ wOutcome' \in [Workers -> {"none", "PASS", "FAIL", "retryable", "non_retryable"}]
        /\ \/ pc = "persist" /\ object' = [object EXCEPT ![c][wGen[w]] = Bytes(w)]
           \/ pc = "fail" /\ object' = object
  BY <1>1, <1>2 DEF Upload, TypeOK
<1>5. /\ RuntimeTypeOK' /\ wPc' \in [Workers -> Steps]
      /\ Lifecycle' /\ Delivery' /\ NoWorkAfterRelease'
      /\ wPc'[w] = pc /\ \A v \in Workers : v # w => wPc'[v] = wPc[v]
  <2>1. /\ wPc[w] \in Steps \ {"idle", "fetched"} /\ pc \in Steps \ {"idle", "fetched"}
        /\ jStatus' \in [Jobs -> Statuses] /\ jCancel' \in [Jobs -> BOOLEAN] /\ jStatus' = jStatus
    BY <1>1, <1>2, <1>3 DEF Steps, Statuses, RuntimeTypeOK
  <2> QED
    BY <1>3, <1>4, <2>1, WorkRuntime
<1>6. Bytes(w) \in Renderings
  BY <1>1, <1>2 DEF Bytes, Renderings, TypeOK
<1>7. /\ object' \in [Chunks -> [Generations -> Renderings]]
      /\ pc = "persist" => object'[c][wGen[w]] = Bytes(w)
      /\ \A d \in Chunks, g \in Generations : d # c \/ g # wGen[w] => object'[d][g] = object[d][g]
  <2>1. CASE pc = "fail"
    BY <1>1, <1>4, <2>1 DEF TypeOK
  <2>2. CASE pc = "persist"
    <3> DEFINE o == [object[c] EXCEPT ![wGen[w]] = Bytes(w)]
    <3>1. object \in [Chunks -> [Generations -> Renderings]] /\ object[c] \in [Generations -> Renderings]
      BY <1>1, <1>2 DEF TypeOK
    <3>2. o \in [Generations -> Renderings] /\ o[wGen[w]] = Bytes(w)
          /\ \A g \in Generations : g # wGen[w] => o[g] = object[c][g]
      BY <1>2, <1>6, <3>1
    <3>3. object' = [object EXCEPT ![c] = o]
      BY <1>4, <2>2
    <3> HIDE DEF o
    <3>4. object' \in [Chunks -> [Generations -> Renderings]] /\ object'[c] = o
          /\ \A d \in Chunks : d # c => object'[d] = object[d]
      BY <1>2, <3>1, <3>2, <3>3
    <3> QED
      BY <3>2, <3>4
  <2> QED
    BY <2>1, <2>2
<1>8. TypeOK' /\ EditOpen' /\ JobsMade'
  BY <1>1, <1>3, <1>4, <1>5, <1>7 DEF TypeOK, EditOpen, Steps, JobsMade
<1>9. Numbering'
  BY <1>1, <1>2, <1>3, <1>5 DEF Numbering, AtWork
<1>10. Stored'
  <2>1. ASSUME NEW v \in Workers, wPc'[v] = "persist", ~overlapped[jChunk[wJob[v]]]
        PROVE  object'[jChunk[wJob[v]]][wGen[v]] = Bytes(v)
    <3>1. CASE v = w
      BY <1>4, <1>5, <1>7, <2>1, <3>1
    <3>2. CASE v # w
      <4>1. wPc[v] = "persist" /\ AtWork(v)
        BY <1>5, <2>1, <3>2 DEF AtWork
      <4>2. jChunk[wJob[v]] # c
        BY <1>1, <1>2, <2>1, <3>2, <4>1 DEF Numbering
      <4>3. jChunk[wJob[v]] \in Chunks /\ wGen[v] \in Generations
        BY <1>1, <4>1 DEF Numbering, Delivery, RuntimeTypeOK, JobsMade
      <4> QED
        BY <1>1, <1>7, <2>1, <4>1, <4>2, <4>3 DEF Stored
    <3> QED
      BY <3>1, <3>2
  <2>2. \A v \in Workers : Bytes(v)' = Bytes(v)
    BY <1>3 DEF Bytes
  <2> QED
    BY <1>3, <2>1, <2>2 DEF Stored
<1>11. BytesOfRows'
  <2>1. ASSUME NEW d \in Chunks, ~overlapped[d], NEW i \in DOMAIN audio[d]
        PROVE  object'[d][audio[d][i].gen] = audio[d][i].bytes
    <3>1. audio[d] \in Takes /\ audio[d] # <<>>
      BY <1>1, <2>1 DEF TypeOK
    <3>2. i = 1 /\ audio[d][i].gen = 1
      BY <2>1, <3>1 DEF Takes
    <3>3. d # c \/ wGen[w] = 2
      BY <1>1, <1>2, <2>1, <3>1 DEF Numbering
    <3>4. 1 \in Generations
      BY DEF Generations
    <3> QED
      BY <1>1, <1>7, <2>1, <3>2, <3>3, <3>4 DEF BytesOfRows
  <2> QED
    BY <1>3, <2>1 DEF BytesOfRows
<1>12. ResultLineage' /\ ResultOnRecord' /\ AckedIsSettled'
  BY <1>1, <1>3 DEF ResultLineage, ResultOnRecord, AckedIsSettled, bounds
<1> QED
  BY <1>5, <1>8, <1>9, <1>10, <1>11, <1>12 DEF IInv

\* The rendering is recorded: its chunk had none, and its bytes are in the store.
LEMMA PersistPreserves ==
  ASSUME IInv, NEW w \in Workers, Persist(w)
  PROVE  IInv'
<1> USE DEF workerVars, rowVars, chunkVars, jobVars, requestVars, editVars
<1> DEFINE j == wJob[w]
           c == jChunk[j]
           row == [gen |-> wGen[w], bytes |-> Bytes(w), ok |-> wOutcome[w] = "PASS"]
<1>1. /\ TypeOK /\ EditOpen /\ RuntimeTypeOK /\ Delivery /\ JobsMade /\ Numbering /\ Stored
      /\ BytesOfRows /\ ResultLineage /\ ResultOnRecord /\ AckedIsSettled
  BY DEF IInv, TypeOK
<1>2. /\ wPc[w] = "persist" /\ AtWork(w) /\ j \in Jobs /\ jStatus[j] # "ABSENT" /\ c \in Chunks
      /\ audio[c] = <<>> /\ wGen[w] = 1 /\ jVoice[j] \in Voices
  BY <1>1 DEF Persist, InsertAudioChunk, Delivery, RuntimeTypeOK, JobsMade, AtWork, Numbering
<1>3. /\ audio' = [audio EXCEPT ![c] = Append(@, row)]
      /\ jTts' = [jTts EXCEPT ![j] = "SUCCEEDED"]
      /\ jStatus' = [jStatus EXCEPT ![j] = "SUCCEEDED"]
      /\ jResult' = [jResult EXCEPT ![j] = Current(c) + 1]
      /\ Finish(w, "completed") /\ Forget(w)
      /\ UNCHANGED <<object, overlapped, jCancel, bounds, jChunk, jVoice, jForced,
                     chunkVars, requestVars, editVars>>
  BY DEF Persist, InsertAudioChunk
<1>4. row \in [gen : {1}, bytes : Renderings, ok : BOOLEAN]
  <2>1. Bytes(w) \in Renderings
    BY <1>1, <1>2 DEF Bytes, Renderings, TypeOK
  <2>2. (wOutcome[w] = "PASS") \in BOOLEAN
    OBVIOUS
  <2> QED
    BY <1>2, <2>1, <2>2
<1>5. /\ audio' \in [Chunks -> Takes] /\ audio'[c] = <<row>>
      /\ \A d \in Chunks : d # c => audio'[d] = audio[d]
  <2> HIDE DEF row
  <2>1. Append(<<>>, row) = <<row>>
    OBVIOUS
  <2>2. <<row>> \in Takes
    BY <1>4 DEF Takes
  <2>3. audio' = [audio EXCEPT ![c] = <<row>>]
    BY <1>2, <1>3, <2>1
  <2> QED
    BY <1>1, <1>2, <2>2, <2>3 DEF TypeOK
<1>6. /\ jResult' \in [Jobs -> {0, 1}] /\ jResult'[j] = 1
      /\ \A i \in Jobs : i # j => jResult'[i] = jResult[i]
  <2>1. Current(c) = 0
    BY <1>2 DEF Current
  <2> QED
    BY <1>1, <1>2, <1>3, <2>1 DEF TypeOK
<1>7. /\ jStatus' \in [Jobs -> Statuses] /\ jStatus'[j] = "SUCCEEDED"
      /\ \A i \in Jobs : i # j => jStatus'[i] = jStatus[i]
      /\ jTts' \in [Jobs -> {"ABSENT", "PENDING", "RUNNING", "SUCCEEDED", "FAILED"}]
  BY <1>1, <1>2, <1>3 DEF TypeOK, RuntimeTypeOK, Statuses
<1>8. /\ RuntimeTypeOK' /\ wPc' \in [Workers -> Steps]
      /\ Lifecycle' /\ Delivery' /\ NoWorkAfterRelease'
      /\ wPc'[w] = "idle"
      /\ \A v \in Workers : v # w => wPc'[v] = wPc[v] /\ wJob'[v] = wJob[v]
      /\ \A i \in Jobs : (msg'[i] = "none" <=> msg[i] = "none")
      /\ \A i \in Jobs : msg'[i] = "completed" => msg[i] = "completed" \/ i = j
  <2>1. /\ wPc[w] # "idle" /\ jCancel' \in [Jobs -> BOOLEAN]
        /\ \A i \in Jobs : jStatus'[i] = "ABSENT" <=> jStatus[i] = "ABSENT"
    BY <1>1, <1>2, <1>3, <1>7 DEF RuntimeTypeOK
  <2> QED
    BY <1>3, <1>7, <2>1, FinishRuntime
<1>9. /\ wEdition' \in [Workers -> 0..MaxEditions] /\ wGen' \in [Workers -> Generations \cup {0}]
      /\ wOutcome' \in [Workers -> {"none", "PASS", "FAIL", "retryable", "non_retryable"}]
      /\ \A v \in Workers : v # w => wEdition'[v] = wEdition[v] /\ wGen'[v] = wGen[v]
  BY <1>1, <1>3, TtsAssumption DEF TypeOK, Forget
<1>10. TypeOK' /\ EditOpen' /\ JobsMade'
  <2>1. TypeOK' /\ EditOpen'
    BY <1>1, <1>3, <1>5, <1>6, <1>7, <1>8, <1>9 DEF TypeOK, EditOpen, Steps
  <2>2. JobsMade'
    BY <1>1, <1>2, <1>3, <1>6, <1>7, <1>8 DEF JobsMade
  <2> QED
    BY <2>1, <2>2
<1>11. ASSUME NEW v \in Workers, AtWork(v)'
       PROVE  /\ v # w /\ AtWork(v) /\ wJob'[v] = wJob[v] /\ wGen'[v] = wGen[v] /\ Bytes(v)' = Bytes(v)
              /\ wPc'[v] = wPc[v] /\ jChunk[wJob[v]] \in Chunks
              /\ jChunk[wJob[v]] = c => overlapped[c]
  <2>1. v # w /\ AtWork(v) /\ wJob'[v] = wJob[v] /\ wGen'[v] = wGen[v] /\ wPc'[v] = wPc[v]
    BY <1>8, <1>9, <1>11 DEF AtWork
  <2>2. Bytes(v)' = Bytes(v)
    BY <1>3, <1>9, <2>1 DEF Bytes
  <2>3. jChunk[wJob[v]] \in Chunks
    BY <1>1, <2>1 DEF AtWork, Delivery, RuntimeTypeOK, JobsMade
  <2> QED
    BY <1>1, <1>2, <2>1, <2>2, <2>3 DEF Numbering
<1>12. Numbering'
  BY <1>1, <1>3, <1>5, <1>11 DEF Numbering
<1>13. Stored'
  <2>1. ASSUME NEW v \in Workers, wPc'[v] = "persist"
        PROVE  (overlapped[jChunk[wJob[v]]] \/ object[jChunk[wJob[v]]][wGen[v]] = Bytes(v))'
    <3>1. AtWork(v)'
      BY <2>1 DEF AtWork
    <3> QED
      BY <1>1, <1>3, <1>11, <2>1, <3>1 DEF Stored
  <2> QED
    BY <2>1 DEF Stored
<1>14. BytesOfRows'
  <2>1. ASSUME NEW d \in Chunks, ~overlapped[d], NEW i \in DOMAIN audio'[d]
        PROVE  object[d][audio'[d][i].gen] = audio'[d][i].bytes
    <3>1. CASE d # c
      BY <1>1, <1>5, <2>1, <3>1 DEF BytesOfRows
    <3>2. CASE d = c
      <4>1. i = 1 /\ audio'[d][i] = row
        <5> HIDE DEF row
        <5> QED
          BY <1>5, <2>1, <3>2
      <4>2. object[c][wGen[w]] = Bytes(w)
        BY <1>1, <1>2, <2>1, <3>2 DEF Stored
      <4> QED
        BY <3>2, <4>1, <4>2
    <3> QED
      BY <3>1, <3>2
  <2> QED
    BY <1>3, <2>1 DEF BytesOfRows
<1>15. ResultOnRecord' /\ ResultLineage'
  <2>1. audio'[c][1].bytes[1] = jVoice[j] /\ audio'[c] # <<>>
    BY <1>5 DEF Bytes
  <2>2. ASSUME NEW i \in Jobs, jResult'[i] # 0
        PROVE  audio'[jChunk[i]] # <<>> /\ audio'[jChunk[i]][jResult'[i]].bytes[1] = jVoice[i]
    <3>1. CASE i = j
      BY <1>6, <2>1, <3>1
    <3>2. CASE i # j
      <4>1. jResult'[i] = jResult[i] /\ jResult[i] # 0 /\ jStatus[i] # "ABSENT" /\ jChunk[i] \in Chunks
        BY <1>1, <1>6, <2>2, <3>2 DEF JobsMade
      <4>2. audio[jChunk[i]] # <<>>
        BY <1>1, <4>1 DEF ResultOnRecord
      <4> QED
        BY <1>1, <1>2, <1>5, <4>1, <4>2 DEF ResultLineage
    <3> QED
      BY <3>1, <3>2
  <2> QED
    BY <1>3, <2>2 DEF ResultOnRecord, ResultLineage
<1>16. AckedIsSettled'
  BY <1>1, <1>3, <1>7, <1>8 DEF AckedIsSettled, bounds
<1> QED
  BY <1>8, <1>10, <1>12, <1>13, <1>14, <1>15, <1>16 DEF IInv

-----------------------------------------------------------------------------
(* startTts *)

\* The jobs are created for the chunks and the voices that were read.
LEMMA CommitPreserves ==
  ASSUME IInv, CommitJobs
  PROVE  IInv'
<1> USE DEF workerVars, bounds, chunkVars, audioVars, handlerVars, editVars
<1> DEFINE free == {j \in Jobs : jStatus[j] = "ABSENT"}
<1>1. /\ TypeOK /\ EditOpen /\ RuntimeTypeOK /\ Delivery /\ JobsMade /\ Numbering /\ Stored
      /\ BytesOfRows /\ ResultLineage /\ ResultOnRecord /\ AckedIsSettled /\ Lifecycle /\ NoWorkAfterRelease
  BY DEF IInv, TypeOK
<1>2. /\ RequestEnds
      /\ UNCHANGED <<jResult, jCancel, wJob, wPc, wTry, tries, owner, workerVars, bounds,
                     chunkVars, audioVars, handlerVars, editVars>>
  BY DEF CommitJobs
<1>3. PICK new \in [Targets -> free] :
        LET made == {new[c] : c \in Targets}
            For(j) == CHOOSE c \in Targets : new[c] = j
        IN  /\ jStatus' = [j \in Jobs |-> IF j \in made THEN "QUEUED" ELSE jStatus[j]]
            /\ msg' = [j \in Jobs |-> IF j \in made THEN "wait" ELSE msg[j]]
            /\ jChunk' = [j \in Jobs |-> IF j \in made THEN For(j) ELSE jChunk[j]]
            /\ jVoice' = [j \in Jobs |-> IF j \in made THEN rVoice[For(j)] ELSE jVoice[j]]
            /\ jForced' = [j \in Jobs |-> IF j \in made THEN rForce ELSE jForced[j]]
            /\ jTts' = [j \in Jobs |-> IF j \in made THEN "PENDING" ELSE jTts[j]]
  BY DEF CommitJobs
<1> DEFINE made == {new[c] : c \in Targets}
           For(j) == CHOOSE c \in Targets : new[c] = j
<1>4. ASSUME NEW j \in made PROVE For(j) \in Chunks /\ rVoice[For(j)] \in Voices
  <2>1. \E c \in Targets : new[c] = j
    BY <1>4
  <2>2. For(j) \in Targets
    BY <2>1
  <2> QED
    BY <1>1, <2>2 DEF Targets, TypeOK
<1>5. made \subseteq free
  OBVIOUS
<1>6. ASSUME NEW j \in Jobs
      PROVE  /\ j \in made => /\ jStatus[j] = "ABSENT" /\ jStatus'[j] = "QUEUED" /\ msg'[j] = "wait"
                              /\ jChunk'[j] \in Chunks /\ jVoice'[j] \in Voices
                              /\ jTts'[j] = "PENDING" /\ jForced'[j] = rForce
             /\ j \notin made => /\ jStatus'[j] = jStatus[j] /\ msg'[j] = msg[j] /\ jChunk'[j] = jChunk[j]
                                 /\ jVoice'[j] = jVoice[j] /\ jTts'[j] = jTts[j] /\ jForced'[j] = jForced[j]
  <2> HIDE DEF made, For
  <2>1. /\ jStatus'[j] = IF j \in made THEN "QUEUED" ELSE jStatus[j]
        /\ msg'[j] = IF j \in made THEN "wait" ELSE msg[j]
        /\ jChunk'[j] = IF j \in made THEN For(j) ELSE jChunk[j]
        /\ jVoice'[j] = IF j \in made THEN rVoice[For(j)] ELSE jVoice[j]
        /\ jForced'[j] = IF j \in made THEN rForce ELSE jForced[j]
        /\ jTts'[j] = IF j \in made THEN "PENDING" ELSE jTts[j]
    BY <1>3, Zenon DEF made, For
  <2>2. j \in made => jStatus[j] = "ABSENT"
    BY <1>5
  <2> QED
    BY <1>4, <2>1, <2>2
<1>7. /\ jStatus' \in [Jobs -> Statuses]
      /\ msg' \in [Jobs -> {"none", "wait", "active", "completed", "failed", "removed"}]
      /\ jChunk' \in [Jobs -> Chunks \cup {NoChunk}] /\ jVoice' \in [Jobs -> Voices \cup {NoVoice}]
      /\ jForced' \in [Jobs -> BOOLEAN]
      /\ jTts' \in [Jobs -> {"ABSENT", "PENDING", "RUNNING", "SUCCEEDED", "FAILED"}]
  <2>1. /\ jStatus' = [j \in Jobs |-> IF j \in made THEN "QUEUED" ELSE jStatus[j]]
        /\ msg' = [j \in Jobs |-> IF j \in made THEN "wait" ELSE msg[j]]
        /\ jChunk' = [j \in Jobs |-> IF j \in made THEN For(j) ELSE jChunk[j]]
        /\ jVoice' = [j \in Jobs |-> IF j \in made THEN rVoice[For(j)] ELSE jVoice[j]]
        /\ jForced' = [j \in Jobs |-> IF j \in made THEN rForce ELSE jForced[j]]
        /\ jTts' = [j \in Jobs |-> IF j \in made THEN "PENDING" ELSE jTts[j]]
    BY <1>3, Zenon
  <2> HIDE DEF made, For
  <2>2. jStatus' \in [Jobs -> Statuses]
    BY <1>1, <2>1 DEF RuntimeTypeOK, Statuses
  <2>3. msg' \in [Jobs -> {"none", "wait", "active", "completed", "failed", "removed"}]
    BY <1>1, <2>1 DEF RuntimeTypeOK
  <2>4. jChunk' \in [Jobs -> Chunks \cup {NoChunk}] /\ jVoice' \in [Jobs -> Voices \cup {NoVoice}]
    BY <1>1, <1>4, <2>1 DEF TypeOK
  <2>5. jForced' \in [Jobs -> BOOLEAN]
    BY <1>1, <2>1 DEF TypeOK
  <2>6. jTts' \in [Jobs -> {"ABSENT", "PENDING", "RUNNING", "SUCCEEDED", "FAILED"}]
    BY <1>1, <2>1 DEF TypeOK
  <2> QED
    BY <2>2, <2>3, <2>4, <2>5, <2>6
<1> HIDE DEF made, For, free
<1>8. RuntimeTypeOK'
  BY <1>1, <1>2, <1>7 DEF RuntimeTypeOK, Statuses
<1>9. TypeOK' /\ EditOpen'
  BY <1>1, <1>2, <1>7, <1>8 DEF TypeOK, EditOpen, RequestEnds
<1>10. JobsMade'
  BY <1>1, <1>2, <1>6 DEF JobsMade
<1>11. ASSUME NEW v \in Workers, wJob[v] # NoJob
       PROVE  wJob[v] \in Jobs /\ wJob[v] \notin made
  BY <1>1, <1>6, <1>11 DEF Delivery, RuntimeTypeOK
<1>12. Lifecycle' /\ NoWorkAfterRelease'
  BY <1>1, <1>2 DEF Lifecycle, NoWorkAfterRelease, InFlight
<1>13. Delivery'
  <2>1. \A v \in Workers : wJob'[v] # NoJob => jStatus'[wJob'[v]] # "ABSENT"
    BY <1>1, <1>2, <1>6, <1>11 DEF Delivery
  <2>2. \A j \in Jobs : owner'[j] # NoWorker => msg'[j] = "active" /\ wJob'[owner'[j]] = j
    BY <1>1, <1>2, <1>6 DEF Delivery, JobsMade
  <2>3. \A j \in Jobs : msg'[j] \in {"none", "wait", "active"} => tries'[j] < MaxAttempts
    BY <1>1, <1>2, <1>6 DEF Delivery, JobsMade
  <2> QED
    BY <1>1, <1>2, <2>1, <2>2, <2>3 DEF Delivery
<1>14. ASSUME NEW v \in Workers, wPc[v] \in {"freeze", "synth", "upload", "persist"}
       PROVE  jChunk'[wJob[v]] = jChunk[wJob[v]] /\ jVoice'[wJob[v]] = jVoice[wJob[v]]
  BY <1>1, <1>6, <1>11, <1>14 DEF Delivery
<1>15. Numbering'
  BY <1>1, <1>2, <1>14 DEF Numbering, AtWork
<1>16. Stored'
  BY <1>1, <1>2, <1>14 DEF Stored, Bytes
<1>17. BytesOfRows'
  BY <1>1, <1>2 DEF BytesOfRows
<1>18. ResultOnRecord' /\ ResultLineage'
  BY <1>1, <1>2, <1>6 DEF ResultOnRecord, ResultLineage, JobsMade
<1>19. AckedIsSettled'
  BY <1>1, <1>2, <1>6 DEF AckedIsSettled
<1> QED
  BY <1>9, <1>10, <1>12, <1>13, <1>15, <1>16, <1>17, <1>18, <1>19 DEF IInv

-----------------------------------------------------------------------------
(* The theorems *)

\* Nothing has been asked for, and every worker starts.
LEMMA InitEstablishes == Init => IInv
<1> SUFFICES ASSUME Init PROVE IInv
  OBVIOUS
<1>1. RuntimeTypeOK
  BY RuntimeAssumption DEF Init, RuntimeInit, RuntimeTypeOK, WorkerStates
<1>2. <<>> \in Takes /\ NoBytes \in Renderings /\ 0 \in 0..MaxEditions
  BY TtsAssumption DEF Takes, NoBytes, Renderings
<1>3. TypeOK
  BY <1>1, <1>2, TtsAssumption DEF Init, RuntimeInit, TypeOK, Generations
<1>4. Lifecycle /\ Delivery
  BY RuntimeAssumption DEF Init, RuntimeInit, Lifecycle, Delivery
<1>5. JobsMade /\ EditOpen /\ ResultOnRecord /\ ResultLineage /\ AckedIsSettled
  BY DEF Init, RuntimeInit, JobsMade, EditOpen, ResultOnRecord, ResultLineage, AckedIsSettled
<1>6. Numbering /\ Stored /\ NoWorkAfterRelease
  BY DEF Init, RuntimeInit, Numbering, Stored, AtWork, NoWorkAfterRelease, InFlight
<1>7. BytesOfRows
  BY DEF Init, BytesOfRows
<1> QED
  BY <1>3, <1>4, <1>5, <1>6, <1>7 DEF IInv

\* IInv is an invariant of the synthesis: through requests, edits, retirements, cancellations,
\* deliveries to any number of workers, deaths, drains and forced closes.
THEOREM Invariance == Spec => []IInv
<1>1. ASSUME IInv, Next PROVE IInv'
  <2>1. CASE \E w \in Workers : Handle(w)
    BY <1>1, <2>1, EndPreserves, FreezePreserves, LoadPreserves, UploadPreserves, PersistPreserves DEF Handle
  <2>2. CASE CommitJobs
    BY <1>1, <2>2, CommitPreserves
  <2>3. CASE (\E w \in Workers : Runs(w) \/ Die(w)) \/ (\E j \in Jobs : CancelJob(j))
    BY <1>1, <2>3, RuntimePreserves
  <2> QED
    BY <1>1, <2>1, <2>2, <2>3, RequestsPreserve DEF Next
<1>2. ASSUME IInv, UNCHANGED vars PROVE IInv'
  <2>1. /\ TypeOK' /\ Lifecycle' /\ Delivery' /\ NoWorkAfterRelease' /\ EditOpen'
    BY <1>2 DEF IInv, TypeOK, RuntimeTypeOK, Lifecycle, Delivery, NoWorkAfterRelease, InFlight, EditOpen,
                vars, runtimeVars, workerVars, deliveryVars, rowVars, bounds, chunkVars, audioVars, jobVars,
                handlerVars, requestVars, editVars
  <2> QED
    BY <1>2, <2>1, QuietPreserves DEF vars, runtimeVars, workerVars, deliveryVars, rowVars, bounds,
         chunkVars, audioVars, jobVars, handlerVars
<1> QED
  BY <1>1, <1>2, InitEstablishes, PTL DEF Spec

\* The rows, the messages, the workers and the requests always have their types; in particular
\* a chunk never has a second rendering on record.
THEOREM TypeCorrect == Spec => []TypeOK
<1>1. IInv => TypeOK
  BY DEF IInv
<1> QED
  BY <1>1, Invariance, PTL

\* insert_audio_chunk's row always finds its own bytes in the store, unless two handlers of the
\* chunk were at work at a time.
THEOREM RowsFindTheirBytes == Spec => []BytesOfRows
<1>1. IInv => BytesOfRows
  BY DEF IInv
<1> QED
  BY <1>1, Invariance, PTL

\* The audio a tts job names as its result is in the voice the job was created for.
THEOREM ResultsHaveTheirVoice == Spec => []ResultLineage
<1>1. IInv => ResultLineage
  BY DEF IInv
<1> QED
  BY <1>1, Invariance, PTL

\* Without a death or a forced close, a message BullMQ counts as completed belongs to a job
\* with an outcome on record.
THEOREM AcknowledgedJobsAreSettled == Spec => []AckedIsSettled
<1>1. IInv => AckedIsSettled
  BY DEF IInv
<1> QED
  BY <1>1, Invariance, PTL

\* A worker that has released what it holds has no handler running, but for a forced close.
THEOREM ReleasedWorkersAreQuiet == Spec => []NoWorkAfterRelease
<1>1. IInv => NoWorkAfterRelease
  BY DEF IInv
<1> QED
  BY <1>1, Invariance, PTL
=============================================================================
