--------------------------- MODULE WorkerRuntime ---------------------------
(***************************************************************************)
(* The runtime every Python worker shares (workers_common): the start and  *)
(* shutdown of a worker process (runtime.py, health.py), the consumption   *)
(* of BullMQ messages (queue.py) and the cancellation gate                 *)
(* (cancellation.py).  What a handler does is left to the module that      *)
(* extends this one; here a job is worked on from StartJob until Finish.   *)
(*                                                                         *)
(* A worker process runs one job at a time.  A job's message belongs to    *)
(* the worker that holds its lock; a worker that lost the lock (it was     *)
(* closed by force) goes on with its handler, and BullMQ ignores how that  *)
(* ends.                                                                   *)
(***************************************************************************)
EXTENDS Naturals

CONSTANTS
  Jobs, Workers,
  NoJob, NoWorker,
  MaxAttempts,     \* the attempts option of the queued messages
  MaxTroubles,     \* bound: deaths, failing starts and forced closes of workers
  MaxInterventions \* bound: what users and operators do while jobs run

ASSUME RuntimeAssumption ==
  /\ NoJob \notin Jobs /\ NoWorker \notin Workers
  /\ MaxAttempts \in Nat \ {0} /\ MaxTroubles \in Nat /\ MaxInterventions \in Nat

VARIABLES
  wState,          \* WorkerHealth.state
  wStart, wStop,   \* where the start task and the shutdown task are
  wForced,         \* the grace period ended with work in flight
  wJob, wPc, wTry, \* the job at hand, its step, and ctx.attempt
  msg, tries,      \* the queue's message of a job, and its attemptsMade
  owner,           \* the worker holding the message's lock
  jStatus, jCancel,\* processing_job.status and cancellation_requested
  troubles, interventions

workerVars == <<wState, wStart, wStop, wForced>>
deliveryVars == <<wJob, wPc, wTry, msg, tries, owner>>
rowVars == <<jStatus, jCancel>>
bounds == <<troubles, interventions>>
runtimeVars == <<workerVars, deliveryVars, rowVars, bounds>>

WorkerStates == {"STARTING", "HEALTHY", "PROCESSING", "IDLE", "DRAINING", "STOPPED", "FAILED_START"}

\* The transition table of health.py; MODEL_READY lasts until the consumer has started,
\* with no step of another task in between
Allowed(from) ==
  CASE from = "STARTING" -> {"HEALTHY", "FAILED_START"}
    [] from = "HEALTHY" -> {"IDLE", "DRAINING", "FAILED_START"}
    [] from \in {"IDLE", "PROCESSING"} -> {"IDLE", "PROCESSING", "DRAINING"}
    [] from = "DRAINING" -> {"STOPPED"}
    [] OTHER -> {}

IsDraining(w) == wState[w] \in {"DRAINING", "STOPPED"}

\* WorkerHealth.in_flight: between job_started and job_finished
InFlight(w) == wPc[w] \notin {"idle", "fetched"}

RuntimeInit ==
  /\ wState = [w \in Workers |-> "STARTING"]
  /\ wStart = [w \in Workers |-> "verify"]
  /\ wStop = [w \in Workers |-> "none"]
  /\ wForced = [w \in Workers |-> FALSE]
  /\ wJob = [w \in Workers |-> NoJob]
  /\ wPc = [w \in Workers |-> "idle"]
  /\ wTry = [w \in Workers |-> 0]
  /\ msg = [j \in Jobs |-> "none"]
  /\ tries = [j \in Jobs |-> 0]
  /\ owner = [j \in Jobs |-> NoWorker]
  /\ jStatus = [j \in Jobs |-> "ABSENT"]
  /\ jCancel = [j \in Jobs |-> FALSE]
  /\ troubles = 0 /\ interventions = 0

Trouble == troubles < MaxTroubles /\ troubles' = troubles + 1
Intervene == interventions < MaxInterventions /\ interventions' = interventions + 1

Goto(w, pc) == wPc' = [wPc EXCEPT ![w] = pc]

-----------------------------------------------------------------------------
(* Start *)

\* transition_to, or InvalidTransitionError in the task that asked for it
Move(w, to) == wState' = [wState EXCEPT ![w] = to]

\* storage, queue and database answer, or FAILED_START
VerifyDependencies(w) ==
  /\ wStart[w] = "verify"
  /\ \/ /\ Move(w, "HEALTHY")
        /\ wStart' = [wStart EXCEPT ![w] = "load"]
        /\ UNCHANGED troubles
     \/ /\ Trouble
        /\ Move(w, "FAILED_START")
        /\ wStart' = [wStart EXCEPT ![w] = "dead"]
  /\ UNCHANGED <<wStop, wForced, deliveryVars, rowVars, interventions>>

\* The model is loaded, or not in time: MODEL_READY, the consumer and IDLE in one go, unless
\* a shutdown has moved the worker on, whose transition is then refused and ends the task
LoadModel(w) ==
  /\ wStart[w] = "load"
  /\ \/ /\ UNCHANGED troubles
        /\ IF "IDLE" \in Allowed(wState[w])
           THEN Move(w, "IDLE") /\ wStart' = [wStart EXCEPT ![w] = "up"]
           ELSE UNCHANGED wState /\ wStart' = [wStart EXCEPT ![w] = "dead"]
     \/ /\ Trouble
        /\ wStart' = [wStart EXCEPT ![w] = "dead"]
        /\ IF "FAILED_START" \in Allowed(wState[w]) THEN Move(w, "FAILED_START") ELSE UNCHANGED wState
  /\ UNCHANGED <<wStop, wForced, deliveryVars, rowVars, interventions>>

-----------------------------------------------------------------------------
(* Shutdown *)

\* SIGTERM.  A worker that is STARTING cannot be DRAINING: shutdown() raises and the signal
\* is lost.  One that failed to start only releases what it holds.
Signal(w) ==
  /\ ~IsDraining(w)
  /\ wStop[w] = "none"
  /\ IF wState[w] = "FAILED_START"
     THEN UNCHANGED wState /\ wStop' = [wStop EXCEPT ![w] = "release"]
     ELSE /\ "DRAINING" \in Allowed(wState[w])
          /\ Move(w, "DRAINING")
          /\ wStop' = [wStop EXCEPT ![w] = "drain"]
  /\ Intervene
  /\ UNCHANGED <<wStart, wForced, deliveryVars, rowVars, troubles>>

\* The work in flight has finished
Drained(w) ==
  /\ wStop[w] = "drain"
  /\ ~InFlight(w)
  /\ wStop' = [wStop EXCEPT ![w] = "release"]
  /\ UNCHANGED <<wState, wStart, wForced, deliveryVars, rowVars, bounds>>

\* The message goes back to the queue once its lock has expired
Unlock(w) ==
  /\ msg' = [j \in Jobs |-> IF owner[j] = w THEN "wait" ELSE msg[j]]
  /\ owner' = [j \in Jobs |-> IF owner[j] = w THEN NoWorker ELSE owner[j]]

\* The grace period is over: close(force=True), and the handler goes on without the lock
GraceOver(w) ==
  /\ wStop[w] = "drain"
  /\ InFlight(w)
  /\ Trouble
  /\ wStop' = [wStop EXCEPT ![w] = "release"]
  /\ wForced' = [wForced EXCEPT ![w] = TRUE]
  /\ Unlock(w)
  /\ UNCHANGED <<wState, wStart, wJob, wPc, wTry, tries, rowVars, interventions>>

\* The model is unloaded, storage and database are closed
Release(w) ==
  /\ wStop[w] = "release"
  /\ wStop' = [wStop EXCEPT ![w] = "done"]
  /\ IF wState[w] = "FAILED_START" THEN UNCHANGED wState ELSE Move(w, "STOPPED")
  /\ UNCHANGED <<wStart, wForced, deliveryVars, rowVars, bounds>>

\* The process dies, at any time, and is started again
Restart(w) ==
  /\ Trouble
  /\ Move(w, "STARTING")
  /\ wStart' = [wStart EXCEPT ![w] = "verify"]
  /\ wStop' = [wStop EXCEPT ![w] = "none"]
  /\ wForced' = [wForced EXCEPT ![w] = FALSE]
  /\ wJob' = [wJob EXCEPT ![w] = NoJob]
  /\ Goto(w, "idle")
  /\ wTry' = [wTry EXCEPT ![w] = 0]
  /\ Unlock(w)
  /\ UNCHANGED <<tries, rowVars, interventions>>

-----------------------------------------------------------------------------
(* QueueConsumer._process *)

\* BullMQ hands the message to a consumer that is not paused; ctx.attempt is attemptsMade + 1
Fetch(w, j) ==
  /\ wState[w] = "IDLE"
  /\ wPc[w] = "idle"
  /\ msg[j] = "wait"
  /\ msg' = [msg EXCEPT ![j] = "active"]
  /\ owner' = [owner EXCEPT ![j] = w]
  /\ wJob' = [wJob EXCEPT ![w] = j]
  /\ wTry' = [wTry EXCEPT ![w] = tries[j] + 1]
  /\ Goto(w, "fetched")
  /\ UNCHANGED <<tries, workerVars, rowVars, bounds>>

\* What BullMQ makes of a processor that returned, raised, or raised UnrecoverableError
Deliver(j, outcome) ==
  /\ tries' = [tries EXCEPT ![j] = IF outcome = "completed" THEN @ ELSE @ + 1]
  /\ msg' = [msg EXCEPT ![j] =
       IF outcome = "retry" THEN IF tries[j] + 1 >= MaxAttempts THEN "failed" ELSE "wait"
       ELSE outcome]
  /\ owner' = [owner EXCEPT ![j] = NoWorker]

\* The processor ends, for BullMQ only when it holds the lock; job_finished
Finish(w, outcome) ==
  /\ IF owner[wJob[w]] = w THEN Deliver(wJob[w], outcome) ELSE UNCHANGED <<msg, tries, owner>>
  /\ wJob' = [wJob EXCEPT ![w] = NoJob]
  /\ Goto(w, "idle")
  /\ wTry' = [wTry EXCEPT ![w] = 0]
  /\ wState' = [wState EXCEPT ![w] = IF @ = "PROCESSING" THEN "IDLE" ELSE @]
  /\ UNCHANGED <<wStart, wStop, wForced>>

\* A draining worker hands the message back by raising a transient error, an attempt like
\* any other
Refuse(w) ==
  /\ wPc[w] = "fetched"
  /\ IsDraining(w)
  /\ Finish(w, "retry")
  /\ UNCHANGED <<rowVars, bounds>>

\* Mutation of StartJob: the message was fetched, so it is worked on
StartJob_Draining(w) ==
  /\ wPc[w] = "fetched"
  /\ wState' = [wState EXCEPT ![w] = IF @ = "IDLE" THEN "PROCESSING" ELSE @]
  /\ Goto(w, "gate")
  /\ UNCHANGED <<wStart, wStop, wForced, wJob, wTry, msg, tries, owner, rowVars, bounds>>

StartJob(w) ==
  /\ wPc[w] = "fetched"
  /\ ~IsDraining(w)
  /\ Move(w, "PROCESSING")
  /\ Goto(w, "gate")
  /\ UNCHANGED <<wStart, wStop, wForced, wJob, wTry, msg, tries, owner, rowVars, bounds>>

\* halt_if_cancelled reads the row: CANCELLED already, or asked for, or neither
Gate(w) ==
  /\ wPc[w] = "gate"
  /\ IF jStatus[wJob[w]] = "CANCELLED"
     THEN Finish(w, "completed")
     ELSE /\ Goto(w, IF jCancel[wJob[w]] THEN "halt" ELSE "load")
          /\ UNCHANGED <<wJob, wTry, msg, tries, owner, workerVars>>
  /\ UNCHANGED <<rowVars, bounds>>

\* CANCELLED and its event in one transaction, whatever has become of the row meanwhile
Halt(w) ==
  /\ wPc[w] = "halt"
  /\ jStatus' = [jStatus EXCEPT ![wJob[w]] = "CANCELLED"]
  /\ Finish(w, "completed")
  /\ UNCHANGED <<jCancel, bounds>>

\* cancelJob: at once while the job waits (its message is then removed), else by request;
\* its own reads and writes are taken apart in JobLifecycle
Cancel(j) ==
  /\ jStatus[j] \in {"QUEUED", "RUNNING"}
  /\ ~jCancel[j]
  /\ jCancel' = [jCancel EXCEPT ![j] = TRUE]
  /\ jStatus' = [jStatus EXCEPT ![j] = IF @ = "QUEUED" THEN "CANCELLED" ELSE @]
  /\ msg' = [msg EXCEPT ![j] = IF @ = "wait" /\ jStatus[j] = "QUEUED" THEN "removed" ELSE @]
  /\ Intervene
  /\ UNCHANGED <<wJob, wPc, wTry, tries, owner, workerVars, troubles>>

RuntimeStep(w) ==
  \/ VerifyDependencies(w) \/ LoadModel(w)
  \/ Signal(w) \/ Drained(w) \/ GraceOver(w) \/ Release(w)
  \/ \E j \in Jobs : Fetch(w, j)
  \/ Refuse(w) \/ StartJob(w) \/ Gate(w) \/ Halt(w)

-----------------------------------------------------------------------------
(* Properties *)

RuntimeTypeOK ==
  /\ wState \in [Workers -> WorkerStates]
  /\ wStart \in [Workers -> {"verify", "load", "up", "dead"}]
  /\ wStop \in [Workers -> {"none", "drain", "release", "done"}]
  /\ wForced \in [Workers -> BOOLEAN]
  /\ wJob \in [Workers -> Jobs \cup {NoJob}]
  /\ wTry \in [Workers -> 0..MaxAttempts]
  /\ msg \in [Jobs -> {"none", "wait", "active", "completed", "failed", "removed"}]
  /\ tries \in [Jobs -> 0..MaxAttempts]
  /\ owner \in [Jobs -> Workers \cup {NoWorker}]
  /\ jStatus \in [Jobs -> {"ABSENT", "QUEUED", "RUNNING", "SUCCEEDED", "FAILED", "CANCELLED"}]
  /\ jCancel \in [Jobs -> BOOLEAN]
  /\ troubles \in 0..MaxTroubles /\ interventions \in 0..MaxInterventions

\* Once a worker has released its model, its storage and its database, no handler of it runs
\* or will run, whichever way the signal raced with a message just fetched; only a forced
\* close leaves one behind.
NoWorkAfterRelease ==
  \A w \in Workers : wStop[w] \in {"release", "done"} /\ ~wForced[w] => ~InFlight(w)
-----------------------------------------------------------------------------
(* What the properties rest on *)

\* A worker's state, its start task and its shutdown task; it takes messages once it is up
Lifecycle ==
  \A w \in Workers :
    /\ wStart[w] = "verify" => wState[w] = "STARTING"
    /\ wStart[w] = "load" => wState[w] \in {"HEALTHY", "DRAINING", "STOPPED"}
    /\ wStop[w] # "none" => wState[w] \in {"DRAINING", "STOPPED", "FAILED_START"}
    /\ wState[w] \in {"STARTING", "HEALTHY", "FAILED_START"} => wPc[w] = "idle"

\* Messages, locks and the jobs at hand: a lock is on the job its worker has at hand, and a
\* worker loses it by a death or a forced close only; a message to deliver has attempts left
Delivery ==
  /\ \A w \in Workers : wPc[w] = "idle" <=> wJob[w] = NoJob
  /\ \A w \in Workers : wJob[w] # NoJob => jStatus[wJob[w]] # "ABSENT"
  /\ \A j \in Jobs : owner[j] # NoWorker => msg[j] = "active" /\ wJob[owner[j]] = j
  /\ \A j \in Jobs : msg[j] \in {"none", "wait", "active"} => tries[j] < MaxAttempts
  /\ troubles = 0 => \A w \in Workers : wJob[w] # NoJob => owner[wJob[w]] = w
=============================================================================
