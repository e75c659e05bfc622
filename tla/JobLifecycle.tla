---------------------------- MODULE JobLifecycle ----------------------------
(***************************************************************************)
(* The life of a parse_book ProcessingJob: the processing_job row in       *)
(* Postgres, its message in BullMQ, its cancellation flag in Redis, and    *)
(* the processes that touch them                                           *)
(*                                                                         *)
(*   API requests   completeUploadSession (create, enqueue, mark) and      *)
(*                  cancelJob (read, commit, remove from queue, set flag)  *)
(*   sweeper        ProcessingJobSweeper.pollOnce                          *)
(*   worker slots   haltIfCancelled, then processIngestionJob              *)
(*   BullMQ         delivery, retry, stalled-job recovery (external)       *)
(*                                                                         *)
(* A step of the model is one database transaction, one Redis command or   *)
(* one decision between two of them, so that every process can be          *)
(* interrupted, or die, wherever the program awaits.                       *)
(*                                                                         *)
(* No code writes QUEUED, BLOCKED, RETRYING or DEAD_LETTERED: a waiting    *)
(* job is CREATED, a job between two attempts is RUNNING.  parse_book rows *)
(* have no children, so cancelJob's cascade is empty here.                 *)
(***************************************************************************)
EXTENDS Naturals, FiniteSets

CONSTANTS
  Jobs,            \* ids of processing_job rows (also the BullMQ job ids)
  Clients,         \* concurrent API requests
  Workers,         \* concurrency slots of the worker processes
  NoJob,           \* no job in hand
  MaxAttempts,     \* INGESTION_MAX_ATTEMPTS, the BullMQ attempts option
  MaxStalled,      \* BullMQ maxStalledCount
  MaxCrashes,      \* bound: process deaths
  MaxRedisFaults,  \* bound: Redis commands that fail
  MaxDbFaults      \* bound: worker transactions that fail

ASSUME NoJobAssumption == NoJob \notin Jobs
ASSUME AttemptsAssumption == MaxAttempts \in Nat \ {0}
ASSUME StalledAssumption == MaxStalled \in 0..1
ASSUME BoundsAssumption ==
  /\ MaxCrashes \in Nat
  /\ MaxRedisFaults \in Nat
  /\ MaxDbFaults \in Nat

VARIABLES
  \* processing_job, one row per job
  status, queuedAt, cancelRequested, effectiveAt, attemptCount, entityId,
  \* what the transactions also write: job.cancelled outbox rows, ingestion results
  cancelledEvents, results,
  \* BullMQ
  mqState, attemptsMade, stalledCount, dlq,
  \* Redis cancellation flags
  flag,
  \* API requests
  cpc, cjob, cstatus,
  \* worker slots; sawCancelled is a history variable
  wpc, wjob, wdurable, wterminal, sawCancelled,
  \* faults so far
  crashes, redisFaults, dbFaults

rowVars == <<status, queuedAt, cancelRequested, effectiveAt, attemptCount, entityId>>
outVars == <<cancelledEvents, results>>
mqVars == <<mqState, attemptsMade, stalledCount, dlq>>
clientVars == <<cpc, cjob, cstatus>>
workerVars == <<wpc, wjob, wdurable, wterminal, sawCancelled>>
faultVars == <<crashes, redisFaults, dbFaults>>
vars == <<rowVars, outVars, mqVars, flag, clientVars, workerVars, faultVars>>

TERMINAL_JOB_STATUSES == {"SUCCEEDED", "FAILED", "CANCELLED", "DEAD_LETTERED"}
IMMEDIATELY_CANCELLABLE == {"CREATED", "QUEUED", "BLOCKED", "RETRYING"}

Statuses == {"ABSENT", "CREATED", "RUNNING", "SUCCEEDED", "FAILED", "CANCELLED"}
MqStates == {"none", "wait", "active", "completed", "failed"}
ClientPcs == {"idle", "enqueue", "mark", "commit", "remove", "setFlag"}
WorkerPcs == {"idle", "gate", "flag", "halt", "load", "start", "work",
              "persist", "fail", "ack", "nack"}
\* the part of a delivery that acts on the row
Working == {"start", "work", "persist", "fail"}

Init ==
  /\ status = [j \in Jobs |-> "ABSENT"]
  /\ queuedAt = [j \in Jobs |-> FALSE]
  /\ cancelRequested = [j \in Jobs |-> FALSE]
  /\ effectiveAt = [j \in Jobs |-> FALSE]
  /\ attemptCount = [j \in Jobs |-> 0]
  /\ entityId = [j \in Jobs |-> j]
  /\ cancelledEvents = {}
  /\ results = [j \in Jobs |-> 0]
  /\ mqState = [j \in Jobs |-> "none"]
  /\ attemptsMade = [j \in Jobs |-> 0]
  /\ stalledCount = [j \in Jobs |-> 0]
  /\ dlq = {}
  /\ flag = [j \in Jobs |-> FALSE]
  /\ cpc = [c \in Clients |-> "idle"]
  /\ cjob = [c \in Clients |-> NoJob]
  /\ cstatus = [c \in Clients |-> "ABSENT"]
  /\ wpc = [w \in Workers |-> "idle"]
  /\ wjob = [w \in Workers |-> NoJob]
  /\ wdurable = [w \in Workers |-> FALSE]
  /\ wterminal = [w \in Workers |-> FALSE]
  /\ sawCancelled = [w \in Workers |-> FALSE]
  /\ crashes = 0
  /\ redisFaults = 0
  /\ dbFaults = 0

-----------------------------------------------------------------------------
(* Faults, each bounded *)

Crash == crashes < MaxCrashes /\ crashes' = crashes + 1 /\ UNCHANGED <<redisFaults, dbFaults>>
RedisFault ==
  redisFaults < MaxRedisFaults /\ redisFaults' = redisFaults + 1 /\ UNCHANGED <<crashes, dbFaults>>
DbFault == dbFaults < MaxDbFaults /\ dbFaults' = dbFaults + 1 /\ UNCHANGED <<crashes, redisFaults>>

-----------------------------------------------------------------------------
(* BullMQ.  A message waiting for its first delivery or for the end of its *)
(* backoff is "wait".                                                      *)

\* Queue.add with an explicit jobId: a no-op when the id is already in Redis
QueueAdd(j) ==
  IF mqState[j] = "none"
  THEN /\ mqState' = [mqState EXCEPT ![j] = "wait"]
       /\ attemptsMade' = [attemptsMade EXCEPT ![j] = 0]
       /\ stalledCount' = [stalledCount EXCEPT ![j] = 0]
       /\ dlq' = dlq
  ELSE UNCHANGED mqVars

\* This failure uses up the attempts option
Exhausted(j) == attemptsMade[j] + 1 >= MaxAttempts

\* The lock of an active message whose worker died expires
StallCheck(j) ==
  /\ mqState[j] = "active"
  /\ \A w \in Workers : wjob[w] # j
  /\ IF stalledCount[j] < MaxStalled
     THEN /\ mqState' = [mqState EXCEPT ![j] = "wait"]
          /\ stalledCount' = [stalledCount EXCEPT ![j] = @ + 1]
     ELSE /\ mqState' = [mqState EXCEPT ![j] = "failed"]
          /\ stalledCount' = stalledCount
  /\ UNCHANGED <<attemptsMade, dlq>>
  /\ UNCHANGED <<rowVars, outVars, flag, clientVars, workerVars, faultVars>>

\* removeOnComplete drops a completed message after a day
Evict(j) ==
  /\ mqState[j] = "completed"
  /\ mqState' = [mqState EXCEPT ![j] = "none"]
  /\ UNCHANGED <<attemptsMade, stalledCount, dlq>>
  /\ UNCHANGED <<rowVars, outVars, flag, clientVars, workerVars, faultVars>>

\* CANCELLATION_FLAG_TTL_SECONDS after it was set
ExpireFlag(j) ==
  /\ flag[j]
  /\ flag' = [flag EXCEPT ![j] = FALSE]
  /\ UNCHANGED <<rowVars, outVars, mqVars, clientVars, workerVars, faultVars>>

-----------------------------------------------------------------------------
(* API: completeUploadSession.  The row is committed, then dispatched by   *)
(* enqueueProcessingJob: enqueue first, mark queued_at second.             *)

ClientGoto(c, pc) ==
  /\ cpc' = [cpc EXCEPT ![c] = pc]
  /\ cjob' = [cjob EXCEPT ![c] = IF pc = "idle" THEN NoJob ELSE @]
  /\ cstatus' = [cstatus EXCEPT ![c] = "ABSENT"]

Create(c, j) ==
  /\ cpc[c] = "idle"
  /\ status[j] = "ABSENT"
  /\ status' = [status EXCEPT ![j] = "CREATED"]
  /\ entityId' = [entityId EXCEPT ![j] = j]
  /\ cpc' = [cpc EXCEPT ![c] = "enqueue"]
  /\ cjob' = [cjob EXCEPT ![c] = j]
  /\ UNCHANGED <<queuedAt, cancelRequested, effectiveAt, attemptCount, cstatus>>
  /\ UNCHANGED <<outVars, mqVars, flag, workerVars, faultVars>>

Enqueue(c) ==
  /\ cpc[c] = "enqueue"
  /\ QueueAdd(cjob[c])
  /\ ClientGoto(c, "mark")
  /\ UNCHANGED <<rowVars, outVars, flag, workerVars, faultVars>>

\* Mutation of EnqueueFails: the rejection is swallowed and queued_at written anyway
EnqueueFails_Swallowed(c) ==
  /\ cpc[c] = "enqueue"
  /\ RedisFault
  /\ ClientGoto(c, "mark")
  /\ UNCHANGED <<rowVars, outVars, mqVars, flag, workerVars>>

\* The enqueue rejects; the request ends with the error
EnqueueFails(c) ==
  /\ cpc[c] = "enqueue"
  /\ RedisFault
  /\ ClientGoto(c, "idle")
  /\ UNCHANGED <<rowVars, outVars, mqVars, flag, workerVars>>

Mark(c) ==
  /\ cpc[c] = "mark"
  /\ queuedAt' = [queuedAt EXCEPT ![cjob[c]] = TRUE]
  /\ ClientGoto(c, "idle")
  /\ UNCHANGED <<status, cancelRequested, effectiveAt, attemptCount, entityId>>
  /\ UNCHANGED <<outVars, mqVars, flag, workerVars, faultVars>>

-----------------------------------------------------------------------------
(* API: cancelJob.  The status is read outside the transaction that writes *)
(* the patch, and the patch does not look at it again.                     *)

CancelRead(c, j) ==
  /\ cpc[c] = "idle"
  /\ status[j] \notin TERMINAL_JOB_STATUSES \cup {"ABSENT"}
  /\ cpc' = [cpc EXCEPT ![c] = "commit"]
  /\ cjob' = [cjob EXCEPT ![c] = j]
  /\ cstatus' = [cstatus EXCEPT ![c] = status[j]]
  /\ UNCHANGED <<rowVars, outVars, mqVars, flag, workerVars, faultVars>>

\* cancellationPatch for a job that is not immediately cancellable: the request only
CancelCommitRequest(c) ==
  /\ cpc[c] = "commit"
  /\ cstatus[c] \notin IMMEDIATELY_CANCELLABLE
  /\ cancelRequested' = [cancelRequested EXCEPT ![cjob[c]] = TRUE]
  /\ ClientGoto(c, "setFlag")
  /\ UNCHANGED <<status, queuedAt, effectiveAt, attemptCount, entityId>>
  /\ UNCHANGED <<outVars, mqVars, flag, workerVars, faultVars>>

\* cancellationPatch for an immediately cancellable one, with its outbox row
CancelCommitImmediate(c) ==
  /\ cpc[c] = "commit"
  /\ cstatus[c] \in IMMEDIATELY_CANCELLABLE
  /\ cancelRequested' = [cancelRequested EXCEPT ![cjob[c]] = TRUE]
  /\ status' = [status EXCEPT ![cjob[c]] = "CANCELLED"]
  /\ effectiveAt' = [effectiveAt EXCEPT ![cjob[c]] = TRUE]
  /\ cancelledEvents' = cancelledEvents \cup {cjob[c]}
  /\ ClientGoto(c, "remove")
  /\ UNCHANGED <<queuedAt, attemptCount, entityId, results>>
  /\ UNCHANGED <<mqVars, flag, workerVars, faultVars>>

\* removeQueuedJob: BullMQ refuses to remove an active message
RemoveQueuedJob(c) ==
  /\ cpc[c] = "remove"
  /\ mqState' = IF mqState[cjob[c]] = "active"
                THEN mqState ELSE [mqState EXCEPT ![cjob[c]] = "none"]
  /\ ClientGoto(c, "setFlag")
  /\ UNCHANGED <<attemptsMade, stalledCount, dlq>>
  /\ UNCHANGED <<rowVars, outVars, flag, workerVars, faultVars>>

RemoveQueuedJobFails(c) ==
  /\ cpc[c] = "remove"
  /\ RedisFault
  /\ ClientGoto(c, "setFlag")
  /\ UNCHANGED <<rowVars, outVars, mqVars, flag, workerVars>>

SetFlag(c) ==
  /\ cpc[c] = "setFlag"
  /\ flag' = [flag EXCEPT ![cjob[c]] = TRUE]
  /\ ClientGoto(c, "idle")
  /\ UNCHANGED <<rowVars, outVars, mqVars, workerVars, faultVars>>

SetFlagFails(c) ==
  /\ cpc[c] = "setFlag"
  /\ RedisFault
  /\ ClientGoto(c, "idle")
  /\ UNCHANGED <<rowVars, outVars, mqVars, flag, workerVars>>

\* The API process dies between two steps of a request
ClientCrash(c) ==
  /\ cpc[c] # "idle"
  /\ Crash
  /\ ClientGoto(c, "idle")
  /\ UNCHANGED <<rowVars, outVars, mqVars, flag, workerVars>>

-----------------------------------------------------------------------------
(* ProcessingJobSweeper.pollOnce.  The row is locked FOR UPDATE from the   *)
(* SELECT to the commit, so no other write falls between; its staleness    *)
(* threshold is an elapsed time, which bounds nobody's progress.           *)

\* Mutation of Orphaned: the sweeper looks for the status no code writes
Orphaned_Queued(j) == status[j] = "QUEUED" /\ ~queuedAt[j]

Orphaned(j) == status[j] = "CREATED" /\ ~queuedAt[j]

Sweep(j) ==
  /\ Orphaned(j)
  /\ QueueAdd(j)
  /\ queuedAt' = [queuedAt EXCEPT ![j] = TRUE]
  /\ UNCHANGED <<status, cancelRequested, effectiveAt, attemptCount, entityId>>
  /\ UNCHANGED <<outVars, flag, clientVars, workerVars, faultVars>>

\* The sweeper dies after the enqueue and before its transaction commits
SweepCrash(j) ==
  /\ Orphaned(j)
  /\ Crash
  /\ QueueAdd(j)
  /\ UNCHANGED <<rowVars, outVars, flag, clientVars, workerVars>>

-----------------------------------------------------------------------------
(* Worker: haltIfCancelled *)

WorkerGoto(w, pc) == wpc' = [wpc EXCEPT ![w] = pc]

Fetch(w, j) ==
  /\ wpc[w] = "idle"
  /\ mqState[j] = "wait"
  /\ mqState' = [mqState EXCEPT ![j] = "active"]
  /\ WorkerGoto(w, "gate")
  /\ wjob' = [wjob EXCEPT ![w] = j]
  /\ sawCancelled' = [sawCancelled EXCEPT ![w] = status[j] = "CANCELLED"]
  /\ UNCHANGED <<attemptsMade, stalledCount, dlq, wdurable, wterminal>>
  /\ UNCHANGED <<rowVars, outVars, flag, clientVars, faultVars>>

\* A row that is CANCELLED already halts the delivery without a write
GateRead(w) ==
  /\ wpc[w] = "gate"
  /\ WorkerGoto(w, IF status[wjob[w]] = "CANCELLED" THEN "ack" ELSE "flag")
  /\ wdurable' = [wdurable EXCEPT ![w] = cancelRequested[wjob[w]]]
  /\ UNCHANGED <<wjob, wterminal, sawCancelled>>
  /\ UNCHANGED <<rowVars, outVars, mqVars, flag, clientVars, faultVars>>

\* isCancellationRequested: Redis answers, and its answer is final ...
GateFlag(w) ==
  /\ wpc[w] = "flag"
  /\ WorkerGoto(w, IF flag[wjob[w]] THEN "halt" ELSE "load")
  /\ UNCHANGED <<wjob, wdurable, wterminal, sawCancelled>>
  /\ UNCHANGED <<rowVars, outVars, mqVars, flag, clientVars, faultVars>>

\* ... or throws, and the column read before decides
GateFlagFails(w) ==
  /\ wpc[w] = "flag"
  /\ RedisFault
  /\ WorkerGoto(w, IF wdurable[w] THEN "halt" ELSE "load")
  /\ UNCHANGED <<wjob, wdurable, wterminal, sawCancelled>>
  /\ UNCHANGED <<rowVars, outVars, mqVars, flag, clientVars>>

\* The acknowledging transaction, whatever the status has become
Halt(w) ==
  /\ wpc[w] = "halt"
  /\ status' = [status EXCEPT ![wjob[w]] = "CANCELLED"]
  /\ cancelRequested' = [cancelRequested EXCEPT ![wjob[w]] = TRUE]
  /\ effectiveAt' = [effectiveAt EXCEPT ![wjob[w]] = TRUE]
  /\ cancelledEvents' = cancelledEvents \cup {wjob[w]}
  /\ WorkerGoto(w, "ack")
  /\ UNCHANGED <<queuedAt, attemptCount, entityId, results>>
  /\ UNCHANGED <<wjob, wdurable, wterminal, sawCancelled>>
  /\ UNCHANGED <<mqVars, flag, clientVars, faultVars>>

-----------------------------------------------------------------------------
(* Worker: processIngestionJob, on the row its envelope's entity_id names *)

Entity(w) == entityId[wjob[w]]

LoadSkipping(w, skipped) ==
  /\ wpc[w] = "load"
  /\ WorkerGoto(w, IF status[Entity(w)] \in skipped THEN "ack" ELSE "start")
  /\ UNCHANGED <<wjob, wdurable, wterminal, sawCancelled>>
  /\ UNCHANGED <<rowVars, outVars, mqVars, flag, clientVars, faultVars>>

\* Mutations of Load: a redelivered job is only skipped when it failed, or when it succeeded
Load_SkipFailed(w) == LoadSkipping(w, {"FAILED"})
Load_SkipSucceeded(w) == LoadSkipping(w, {"SUCCEEDED"})

Load(w) == LoadSkipping(w, {"SUCCEEDED", "FAILED"})

\* Mutation of Start: the attempt is counted by the update of progress as well
Start_CountsTwice(w) ==
  /\ wpc[w] = "start"
  /\ status' = [status EXCEPT ![Entity(w)] = "RUNNING"]
  /\ attemptCount' = [attemptCount EXCEPT ![Entity(w)] = @ + 2]
  /\ WorkerGoto(w, "work")
  /\ UNCHANGED <<queuedAt, cancelRequested, effectiveAt, entityId>>
  /\ UNCHANGED <<wjob, wdurable, wterminal, sawCancelled>>
  /\ UNCHANGED <<outVars, mqVars, flag, clientVars, faultVars>>

Start(w) ==
  /\ wpc[w] = "start"
  /\ status' = [status EXCEPT ![Entity(w)] = "RUNNING"]
  /\ attemptCount' = [attemptCount EXCEPT ![Entity(w)] = @ + 1]
  /\ WorkerGoto(w, "work")
  /\ UNCHANGED <<queuedAt, cancelRequested, effectiveAt, entityId>>
  /\ UNCHANGED <<wjob, wdurable, wterminal, sawCancelled>>
  /\ UNCHANGED <<outVars, mqVars, flag, clientVars, faultVars>>

\* Download, parse and upload the result: it works out, or fails for good or for now
Work(w) ==
  /\ wpc[w] = "work"
  /\ \/ WorkerGoto(w, "persist") /\ wterminal' = wterminal
     \/ /\ WorkerGoto(w, "fail")
        /\ \E terminal \in BOOLEAN : wterminal' = [wterminal EXCEPT ![w] = terminal]
  /\ UNCHANGED <<wjob, wdurable, sawCancelled>>
  /\ UNCHANGED <<rowVars, outVars, mqVars, flag, clientVars, faultVars>>

\* The transaction of persistIngestionResult
Persist(w) ==
  /\ wpc[w] = "persist"
  /\ status' = [status EXCEPT ![Entity(w)] = "SUCCEEDED"]
  /\ results' = [results EXCEPT ![Entity(w)] = @ + 1]
  /\ WorkerGoto(w, "ack")
  /\ UNCHANGED <<queuedAt, cancelRequested, effectiveAt, attemptCount, entityId, cancelledEvents>>
  /\ UNCHANGED <<wjob, wdurable, wterminal, sawCancelled>>
  /\ UNCHANGED <<mqVars, flag, clientVars, faultVars>>

\* handleIngestionFailure: an attempt that BullMQ will repeat leaves the row RUNNING
IsFinalAttempt(w) == attemptsMade[wjob[w]] + 1 >= MaxAttempts

HandleFailure(w) ==
  /\ wpc[w] = "fail"
  /\ status' = IF wterminal[w] \/ IsFinalAttempt(w)
               THEN [status EXCEPT ![Entity(w)] = "FAILED"] ELSE status
  /\ WorkerGoto(w, "nack")
  /\ UNCHANGED <<queuedAt, cancelRequested, effectiveAt, attemptCount, entityId>>
  /\ UNCHANGED <<wjob, wdurable, wterminal, sawCancelled>>
  /\ UNCHANGED <<outVars, mqVars, flag, clientVars, faultVars>>

\* A query or transaction of the worker rejects.  Inside the try block the
\* failure handler runs next; anywhere else the attempt just fails.
WorkerDbFault(w) ==
  /\ wpc[w] \in {"gate", "halt", "load", "start", "persist", "fail"}
  /\ DbFault
  /\ WorkerGoto(w, IF wpc[w] = "persist" THEN "fail" ELSE "nack")
  /\ wterminal' = [wterminal EXCEPT ![w] = FALSE]
  /\ UNCHANGED <<wjob, wdurable, sawCancelled>>
  /\ UNCHANGED <<rowVars, outVars, mqVars, flag, clientVars>>

-----------------------------------------------------------------------------
(* Worker: the end of a delivery *)

Release(w) ==
  /\ WorkerGoto(w, "idle")
  /\ wjob' = [wjob EXCEPT ![w] = NoJob]
  /\ wdurable' = [wdurable EXCEPT ![w] = FALSE]
  /\ wterminal' = [wterminal EXCEPT ![w] = FALSE]
  /\ sawCancelled' = [sawCancelled EXCEPT ![w] = FALSE]

\* The processor returned
Ack(w) ==
  /\ wpc[w] = "ack"
  /\ mqState' = [mqState EXCEPT ![wjob[w]] = "completed"]
  /\ Release(w)
  /\ UNCHANGED <<attemptsMade, stalledCount, dlq>>
  /\ UNCHANGED <<rowVars, outVars, flag, clientVars, faultVars>>

\* The processor threw: another attempt, or the failed set and a copy on the DLQ
Nack(w) ==
  /\ wpc[w] = "nack"
  /\ attemptsMade' = [attemptsMade EXCEPT ![wjob[w]] = @ + 1]
  /\ IF Exhausted(wjob[w])
     THEN /\ mqState' = [mqState EXCEPT ![wjob[w]] = "failed"]
          /\ dlq' = dlq \cup {wjob[w]}
     ELSE /\ mqState' = [mqState EXCEPT ![wjob[w]] = "wait"]
          /\ dlq' = dlq
  /\ Release(w)
  /\ UNCHANGED stalledCount
  /\ UNCHANGED <<rowVars, outVars, flag, clientVars, faultVars>>

\* The last attempt threw and the copy on the DLQ could not be written
NackDlqFails(w) ==
  /\ wpc[w] = "nack"
  /\ Exhausted(wjob[w])
  /\ RedisFault
  /\ attemptsMade' = [attemptsMade EXCEPT ![wjob[w]] = @ + 1]
  /\ mqState' = [mqState EXCEPT ![wjob[w]] = "failed"]
  /\ Release(w)
  /\ UNCHANGED <<stalledCount, dlq>>
  /\ UNCHANGED <<rowVars, outVars, flag, clientVars>>

\* The worker process dies; BullMQ still believes the message active
WorkerCrash(w) ==
  /\ wpc[w] # "idle"
  /\ Crash
  /\ Release(w)
  /\ UNCHANGED <<rowVars, outVars, mqVars, flag, clientVars>>

-----------------------------------------------------------------------------
ClientStep(c) ==
  \/ Enqueue(c) \/ Mark(c)
  \/ CancelCommitRequest(c) \/ CancelCommitImmediate(c) \/ RemoveQueuedJob(c) \/ SetFlag(c)

ClientFault(c) ==
  \/ EnqueueFails(c) \/ RemoveQueuedJobFails(c) \/ SetFlagFails(c) \/ ClientCrash(c)

WorkerStep(w) ==
  \/ GateRead(w) \/ GateFlag(w) \/ Halt(w)
  \/ Load(w) \/ Start(w) \/ Work(w) \/ Persist(w) \/ HandleFailure(w)
  \/ Ack(w) \/ Nack(w)

WorkerFault(w) == GateFlagFails(w) \/ WorkerDbFault(w) \/ NackDlqFails(w) \/ WorkerCrash(w)

Next ==
  \/ \E c \in Clients, j \in Jobs : Create(c, j) \/ CancelRead(c, j)
  \/ \E c \in Clients : ClientStep(c) \/ ClientFault(c)
  \/ \E j \in Jobs : Sweep(j) \/ SweepCrash(j)
  \/ \E j \in Jobs : StallCheck(j) \/ Evict(j) \/ ExpireFlag(j)
  \/ \E w \in Workers, j \in Jobs : Fetch(w, j)
  \/ \E w \in Workers : WorkerStep(w) \/ WorkerFault(w)

Spec == Init /\ [][Next]_vars

\* A request or a delivery that has begun goes on; the sweeper polls for ever;
\* BullMQ hands a waiting message to a free slot and checks for stalled ones.
Fairness ==
  /\ \A c \in Clients : WF_vars(ClientStep(c))
  /\ \A w \in Workers : WF_vars(WorkerStep(w))
  /\ \A j \in Jobs : WF_vars(Sweep(j)) /\ WF_vars(StallCheck(j))
  /\ WF_vars(\E w \in Workers, j \in Jobs : Fetch(w, j))

FairSpec == Spec /\ Fairness

-----------------------------------------------------------------------------
(* Properties *)

\* The types of the rows, the queue and the processes.
TypeOK ==
  /\ status \in [Jobs -> Statuses]
  /\ queuedAt \in [Jobs -> BOOLEAN]
  /\ cancelRequested \in [Jobs -> BOOLEAN]
  /\ effectiveAt \in [Jobs -> BOOLEAN]
  /\ attemptCount \in [Jobs -> Nat]
  /\ entityId \in [Jobs -> Jobs]
  /\ cancelledEvents \in SUBSET Jobs
  /\ results \in [Jobs -> Nat]
  /\ mqState \in [Jobs -> MqStates]
  /\ attemptsMade \in [Jobs -> Nat]
  /\ stalledCount \in [Jobs -> Nat]
  /\ dlq \in SUBSET Jobs
  /\ flag \in [Jobs -> BOOLEAN]
  /\ cpc \in [Clients -> ClientPcs]
  /\ cjob \in [Clients -> Jobs \cup {NoJob}]
  /\ cstatus \in [Clients -> Statuses]
  /\ wpc \in [Workers -> WorkerPcs]
  /\ wjob \in [Workers -> Jobs \cup {NoJob}]
  /\ wdurable \in [Workers -> BOOLEAN]
  /\ wterminal \in [Workers -> BOOLEAN]
  /\ sawCancelled \in [Workers -> BOOLEAN]
  /\ crashes \in Nat /\ redisFaults \in Nat /\ dbFaults \in Nat

\* A job that waits to be started is never lost between Postgres and Redis: either the
\* sweeper still sees its row (queued_at is null) or BullMQ holds its message.  This is
\* what enqueueProcessingJob's enqueue-then-mark order is for.
DispatchRecoverable ==
  \A j \in Jobs : status[j] = "CREATED" /\ queuedAt[j] => mqState[j] # "none"

\* A row shows CANCELLED only together with its effective time and its job.cancelled
\* outbox row, whichever of cancelJob and haltIfCancelled wrote it and whoever died after.
CancellationAnnounced ==
  \A j \in Jobs : status[j] = "CANCELLED" => effectiveAt[j] /\ j \in cancelledEvents

\* Retries, crashes and stalled redeliveries together never run into the
\* processing_job_attempt_count_chk constraint (attempt_count <= max_attempts + 1), except
\* on a job already reported cancelled, whose message cancelJob may have removed.
AttemptBudget == \A j \in Jobs : effectiveAt[j] \/ attemptCount[j] <= MaxAttempts + 1

\* However often the message of a job is delivered, the transaction that records its
\* ingestion result commits at most once, unless the job was reported cancelled.
ResultOnce == \A j \in Jobs : effectiveAt[j] \/ results[j] <= 1

\* A delivery that begins when the row is already CANCELLED never reaches the processor's
\* writes: a cancelled job does not retry itself.
CancelHonoured == \A w \in Workers : sawCancelled[w] => wpc[w] \notin Working

\* While no worker transaction fails, a job copied to the dead-letter queue is FAILED in
\* Postgres or was reported cancelled: the worker's own count of attempts agrees with
\* BullMQ's, and replayJob will accept the job.
DeadLetteredIsFailed ==
  dbFaults = 0 => \A j \in dlq : effectiveAt[j] \/ status[j] = "FAILED"

\* A recorded outcome is never run again or turned into the other outcome; the one thing
\* that may still overwrite it is a cancellation.
OutcomeStands ==
  [][\A j \in Jobs : status[j] \in {"SUCCEEDED", "FAILED"} =>
                        status'[j] \in {status[j], "CANCELLED"}]_vars

\* Every job whose row was committed reaches a terminal status or is reported cancelled,
\* even when the API died before the enqueue or a worker died in the middle; only a worker
\* transaction that fails can leave the row behind.
Settles ==
  \A j \in Jobs : status[j] = "CREATED" ~>
    status[j] \in TERMINAL_JOB_STATUSES \/ effectiveAt[j] \/ dbFaults > 0

-----------------------------------------------------------------------------
(* The inductive invariant behind the safety properties.  Its heart is that *)
(* BullMQ's active state is a mutual exclusion on the job: the one slot     *)
(* that holds the message is the only process that moves the row away from  *)
(* CANCELLED, SUCCEEDED or FAILED, and it looked at the row before it did.  *)

\* the slots before and after the attempt is counted
BeforeStart == {"gate", "flag", "halt", "load", "start"}

\* A process has a job in hand exactly while it is busy, and jobs in play have rows.
InHand ==
  /\ \A j \in Jobs : entityId[j] = j
  /\ \A c \in Clients : cpc[c] = "idle" <=> cjob[c] = NoJob
  /\ \A w \in Workers : wpc[w] = "idle" <=> wjob[w] = NoJob
  /\ \A c \in Clients, j \in Jobs : cjob[c] = j => status[j] # "ABSENT"
  /\ \A j \in Jobs : mqState[j] # "none" \/ queuedAt[j] => status[j] # "ABSENT"

\* The message in a slot is active, and in no other slot.
Exclusive ==
  /\ \A w \in Workers, j \in Jobs : wjob[w] = j => mqState[j] = "active"
  /\ \A v, w \in Workers : wjob[v] = wjob[w] /\ wjob[v] # NoJob => v = w

\* What a slot knows about the row it holds.
Knowledge ==
  \A w \in Workers, j \in Jobs : wjob[w] = j =>
    /\ wpc[w] \in Working => status[j] \notin {"SUCCEEDED", "FAILED"}
    /\ wpc[w] \in {"work", "persist", "fail"} => status[j] # "CREATED"
    /\ wpc[w] = "ack" => status[j] \in {"SUCCEEDED", "FAILED", "CANCELLED"}
    /\ sawCancelled[w] =>
         wpc[w] \in {"ack", "nack"} \/ (wpc[w] = "gate" /\ status[j] = "CANCELLED")
    /\ wpc[w] = "nack" /\ dbFaults = 0 /\ ~effectiveAt[j] /\ Exhausted(j) => status[j] = "FAILED"

\* What became of the row when its message is settled or about to go.
Messages ==
  /\ \A j \in Jobs : mqState[j] = "completed" =>
                        status[j] \in {"SUCCEEDED", "FAILED", "CANCELLED"}
  /\ \A c \in Clients, j \in Jobs : cjob[c] = j =>
       /\ cpc[c] = "remove" => effectiveAt[j] /\ status[j] # "CREATED"
       /\ cpc[c] = "mark" /\ status[j] = "CREATED" => mqState[j] # "none"

\* The attempts counted in the row against BullMQ's count, until the job is cancelled.
Counting ==
  \A j \in Jobs :
    /\ stalledCount[j] <= MaxStalled
    /\ attemptsMade[j] <= MaxAttempts
    /\ mqState[j] \in {"wait", "active"} => attemptsMade[j] < MaxAttempts
    /\ ~effectiveAt[j] =>
         /\ attemptCount[j] <= MaxAttempts + 1
         /\ results[j] = 0 \/ (results[j] = 1 /\ status[j] = "SUCCEEDED")
         /\ status[j] \notin {"SUCCEEDED", "FAILED"} =>
              /\ mqState[j] = "none" => attemptCount[j] = 0
              /\ mqState[j] = "wait" => attemptCount[j] <= attemptsMade[j] + stalledCount[j]
              /\ mqState[j] = "active" => attemptCount[j] <= attemptsMade[j] + stalledCount[j] + 1
              /\ \A w \in Workers : wjob[w] = j /\ wpc[w] \in BeforeStart =>
                   attemptCount[j] <= attemptsMade[j] + stalledCount[j]

IInv ==
  /\ TypeOK /\ InHand /\ Exclusive /\ Knowledge /\ Messages /\ Counting
  /\ DispatchRecoverable /\ CancellationAnnounced /\ DeadLetteredIsFailed
=============================================================================
