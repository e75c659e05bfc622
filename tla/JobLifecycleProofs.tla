------------------------- MODULE JobLifecycleProofs -------------------------
(***************************************************************************)
(* Proofs about JobLifecycle, for every number of jobs, requests, slots    *)
(* and faults.  IInv is inductive; each safety property follows from it.   *)
(***************************************************************************)
EXTENDS JobLifecycle, TLAPS

-----------------------------------------------------------------------------
(* Steps of API requests *)

\* Every step of API requests keeps the inductive invariant.
LEMMA ClientPreserves ==
  ASSUME IInv, NEW c \in Clients, NEW j \in Jobs,
         \/ Create(c, j) \/ CancelRead(c, j) \/ Enqueue(c) \/ Mark(c)
         \/ CancelCommitRequest(c) \/ CancelCommitImmediate(c)
         \/ RemoveQueuedJob(c) \/ SetFlag(c) \/ EnqueueFails(c)
         \/ RemoveQueuedJobFails(c) \/ SetFlagFails(c) \/ ClientCrash(c)
  PROVE  IInv'
<1> USE NoJobAssumption, AttemptsAssumption, StalledAssumption
    DEF IInv, TypeOK, Statuses, MqStates, ClientPcs, WorkerPcs, Working, BeforeStart,
        rowVars, outVars, mqVars, clientVars, workerVars, faultVars, WorkerGoto, ClientGoto
<1>1. CASE Create(c, j)
  <2> USE <1>1 DEF Create
  <2>1. TypeOK'
    OBVIOUS
  <2>2. InHand'
    BY DEF InHand, Exclusive
  <2>3. Knowledge'
    BY DEF Knowledge, Exclusive, InHand, Exhausted
  <2>4. Messages'
    BY DEF Messages, InHand, Exclusive, Knowledge
  <2>5. Counting'
    BY DEF Counting, InHand, Exclusive, Knowledge, Messages, CancellationAnnounced
  <2>6. DispatchRecoverable'
    BY DEF DispatchRecoverable, Messages, InHand, Exclusive, Knowledge
  <2>7. CancellationAnnounced'
    BY DEF CancellationAnnounced
  <2>8. DeadLetteredIsFailed'
    BY DEF DeadLetteredIsFailed, Knowledge, Exclusive, InHand, Exhausted
  <2>9. Exclusive'
    BY DEF Exclusive
  <2> QED
    BY <2>1, <2>2, <2>3, <2>4, <2>5, <2>6, <2>7, <2>8, <2>9
<1>2. CASE CancelRead(c, j)
  <2> USE <1>2 DEF CancelRead, TERMINAL_JOB_STATUSES
  <2>1. TypeOK'
    OBVIOUS
  <2>2. InHand'
    BY DEF InHand, Exclusive
  <2>3. Messages'
    BY DEF Messages, InHand, Exclusive, Knowledge
  <2>4. Exclusive' /\ Knowledge' /\ Counting' /\ DispatchRecoverable' /\
        CancellationAnnounced' /\ DeadLetteredIsFailed'
    BY DEF Exclusive, Knowledge, Counting, DispatchRecoverable, CancellationAnnounced,
           DeadLetteredIsFailed, Exhausted
  <2> QED
    BY <2>1, <2>2, <2>3, <2>4
<1>3. CASE Enqueue(c)
  <2> USE <1>3 DEF Enqueue, QueueAdd
  <2>1. cjob[c] \in Jobs
    BY DEF InHand
  <2>2. TypeOK'
    BY <2>1, SMTT(60)
  <2>3. InHand'
    BY <2>1 DEF InHand, Exclusive
  <2>4. Exclusive'
    BY <2>1 DEF Exclusive, InHand
  <2>5. Knowledge'
    BY <2>1 DEF Knowledge, Exclusive, InHand, Exhausted
  <2>6. Messages'
    BY <2>1 DEF Messages, InHand, Exclusive, Knowledge
  <2>7. Counting'
    BY <2>1 DEF Counting, InHand, Exclusive, Knowledge, Messages, CancellationAnnounced
  <2>8. DispatchRecoverable'
    BY <2>1 DEF DispatchRecoverable, Messages, InHand, Exclusive, Knowledge
  <2>9. CancellationAnnounced' /\ DeadLetteredIsFailed'
    BY DEF CancellationAnnounced, DeadLetteredIsFailed
  <2> QED
    BY <2>2, <2>3, <2>4, <2>5, <2>6, <2>7, <2>8, <2>9
<1>4. CASE Mark(c)
  <2> USE <1>4 DEF Mark
  <2>1. cjob[c] \in Jobs
    BY DEF InHand
  <2>2. TypeOK'
    BY <2>1
  <2>3. InHand'
    BY <2>1 DEF InHand, Exclusive
  <2>4. Messages'
    BY <2>1 DEF Messages, InHand, Exclusive, Knowledge
  <2>5. DispatchRecoverable'
    BY <2>1 DEF DispatchRecoverable, Messages, InHand, Exclusive, Knowledge
  <2>6. Exclusive' /\ Knowledge' /\ Counting' /\ CancellationAnnounced' /\
        DeadLetteredIsFailed'
    BY DEF Exclusive, Knowledge, Counting, CancellationAnnounced, DeadLetteredIsFailed,
           Exhausted
  <2> QED
    BY <2>2, <2>3, <2>4, <2>5, <2>6
<1>5. CASE CancelCommitRequest(c)
  <2> USE <1>5 DEF CancelCommitRequest, IMMEDIATELY_CANCELLABLE
  <2>1. cjob[c] \in Jobs
    BY DEF InHand
  <2>2. TypeOK'
    BY <2>1
  <2>3. InHand'
    BY <2>1 DEF InHand, Exclusive
  <2>4. Messages'
    BY <2>1 DEF Messages, InHand, Exclusive, Knowledge
  <2>5. Exclusive' /\ Knowledge' /\ Counting' /\ DispatchRecoverable' /\
        CancellationAnnounced' /\ DeadLetteredIsFailed'
    BY DEF Exclusive, Knowledge, Counting, DispatchRecoverable, CancellationAnnounced,
           DeadLetteredIsFailed, Exhausted
  <2> QED
    BY <2>2, <2>3, <2>4, <2>5
<1>6. CASE CancelCommitImmediate(c)
  <2> USE <1>6 DEF CancelCommitImmediate, IMMEDIATELY_CANCELLABLE
  <2>1. cjob[c] \in Jobs
    BY DEF InHand
  <2>2. TypeOK'
    BY <2>1
  <2>3. InHand'
    BY <2>1 DEF InHand, Exclusive
  <2>4. Knowledge'
    BY <2>1 DEF Knowledge, Exclusive, InHand, Exhausted
  <2>5. Messages'
    BY <2>1 DEF Messages, InHand, Exclusive, Knowledge
  <2>6. Counting'
    BY <2>1 DEF Counting, InHand, Exclusive, Knowledge, Messages, CancellationAnnounced
  <2>7. DispatchRecoverable'
    BY <2>1 DEF DispatchRecoverable, Messages, InHand, Exclusive, Knowledge
  <2>8. CancellationAnnounced'
    BY <2>1 DEF CancellationAnnounced
  <2>9. DeadLetteredIsFailed'
    BY <2>1 DEF DeadLetteredIsFailed, Knowledge, Exclusive, InHand, Exhausted
  <2>10. Exclusive'
    BY DEF Exclusive
  <2> QED
    BY <2>2, <2>3, <2>4, <2>5, <2>6, <2>7, <2>8, <2>9, <2>10
<1>7. CASE RemoveQueuedJob(c)
  <2> USE <1>7 DEF RemoveQueuedJob
  <2>1. cjob[c] \in Jobs
    BY DEF InHand
  <2>2. TypeOK'
    BY <2>1
  <2>3. InHand'
    BY <2>1 DEF InHand, Exclusive
  <2>4. Exclusive'
    BY <2>1 DEF Exclusive, InHand
  <2>5. Messages'
    BY <2>1 DEF Messages, InHand, Exclusive, Knowledge
  <2>6. Counting'
    BY <2>1 DEF Counting, InHand, Exclusive, Knowledge, Messages, CancellationAnnounced
  <2>7. DispatchRecoverable'
    BY <2>1 DEF DispatchRecoverable, Messages, InHand, Exclusive, Knowledge
  <2>8. Knowledge' /\ CancellationAnnounced' /\ DeadLetteredIsFailed'
    BY DEF Knowledge, CancellationAnnounced, DeadLetteredIsFailed, Exhausted
  <2> QED
    BY <2>2, <2>3, <2>4, <2>5, <2>6, <2>7, <2>8
<1>8. CASE SetFlag(c)
  <2> USE <1>8 DEF SetFlag
  <2>1. cjob[c] \in Jobs
    BY DEF InHand
  <2>2. TypeOK'
    BY <2>1
  <2>3. InHand'
    BY <2>1 DEF InHand, Exclusive
  <2>4. Messages'
    BY <2>1 DEF Messages, InHand, Exclusive, Knowledge
  <2>5. Exclusive' /\ Knowledge' /\ Counting' /\ DispatchRecoverable' /\
        CancellationAnnounced' /\ DeadLetteredIsFailed'
    BY DEF Exclusive, Knowledge, Counting, DispatchRecoverable, CancellationAnnounced,
           DeadLetteredIsFailed, Exhausted
  <2> QED
    BY <2>2, <2>3, <2>4, <2>5
<1>9. CASE EnqueueFails(c)
  <2> USE <1>9 DEF EnqueueFails, RedisFault
  <2>1. cjob[c] \in Jobs
    BY DEF InHand
  <2>2. TypeOK'
    BY <2>1
  <2>3. InHand'
    BY <2>1 DEF InHand, Exclusive
  <2>4. Messages'
    BY <2>1 DEF Messages, InHand, Exclusive, Knowledge
  <2>5. Exclusive' /\ Knowledge' /\ Counting' /\ DispatchRecoverable' /\
        CancellationAnnounced' /\ DeadLetteredIsFailed'
    BY DEF Exclusive, Knowledge, Counting, DispatchRecoverable, CancellationAnnounced,
           DeadLetteredIsFailed, Exhausted
  <2> QED
    BY <2>2, <2>3, <2>4, <2>5
<1>10. CASE RemoveQueuedJobFails(c)
  <2> USE <1>10 DEF RemoveQueuedJobFails, RedisFault
  <2>1. cjob[c] \in Jobs
    BY DEF InHand
  <2>2. TypeOK'
    BY <2>1
  <2>3. InHand'
    BY <2>1 DEF InHand, Exclusive
  <2>4. Messages'
    BY <2>1 DEF Messages, InHand, Exclusive, Knowledge
  <2>5. Exclusive' /\ Knowledge' /\ Counting' /\ DispatchRecoverable' /\
        CancellationAnnounced' /\ DeadLetteredIsFailed'
    BY DEF Exclusive, Knowledge, Counting, DispatchRecoverable, CancellationAnnounced,
           DeadLetteredIsFailed, Exhausted
  <2> QED
    BY <2>2, <2>3, <2>4, <2>5
<1>11. CASE SetFlagFails(c)
  <2> USE <1>11 DEF SetFlagFails, RedisFault
  <2>1. cjob[c] \in Jobs
    BY DEF InHand
  <2>2. TypeOK'
    BY <2>1
  <2>3. InHand'
    BY <2>1 DEF InHand, Exclusive
  <2>4. Messages'
    BY <2>1 DEF Messages, InHand, Exclusive, Knowledge
  <2>5. Exclusive' /\ Knowledge' /\ Counting' /\ DispatchRecoverable' /\
        CancellationAnnounced' /\ DeadLetteredIsFailed'
    BY DEF Exclusive, Knowledge, Counting, DispatchRecoverable, CancellationAnnounced,
           DeadLetteredIsFailed, Exhausted
  <2> QED
    BY <2>2, <2>3, <2>4, <2>5
<1>12. CASE ClientCrash(c)
  <2> USE <1>12 DEF ClientCrash, Crash
  <2>1. cjob[c] \in Jobs
    BY DEF InHand
  <2>2. TypeOK'
    BY <2>1
  <2>3. InHand'
    BY <2>1 DEF InHand, Exclusive
  <2>4. Messages'
    BY <2>1 DEF Messages, InHand, Exclusive, Knowledge
  <2>5. Exclusive' /\ Knowledge' /\ Counting' /\ DispatchRecoverable' /\
        CancellationAnnounced' /\ DeadLetteredIsFailed'
    BY DEF Exclusive, Knowledge, Counting, DispatchRecoverable, CancellationAnnounced,
           DeadLetteredIsFailed, Exhausted
  <2> QED
    BY <2>2, <2>3, <2>4, <2>5
<1> QED
  BY <1>1, <1>2, <1>3, <1>4, <1>5, <1>6, <1>7, <1>8, <1>9, <1>10, <1>11, <1>12

-----------------------------------------------------------------------------
(* Steps of the sweeper and BullMQ *)

\* Every step of the sweeper and BullMQ keeps the inductive invariant.
LEMMA QueuePreserves ==
  ASSUME IInv, NEW j \in Jobs,
         \/ Sweep(j) \/ SweepCrash(j) \/ StallCheck(j) \/ Evict(j)
         \/ ExpireFlag(j)
  PROVE  IInv'
<1> USE NoJobAssumption, AttemptsAssumption, StalledAssumption
    DEF IInv, TypeOK, Statuses, MqStates, ClientPcs, WorkerPcs, Working, BeforeStart,
        rowVars, outVars, mqVars, clientVars, workerVars, faultVars, WorkerGoto, ClientGoto
<1>1. CASE Sweep(j)
  <2> USE <1>1 DEF Sweep, Orphaned, QueueAdd
  <2>1. TypeOK'
    OBVIOUS
  <2>2. InHand'
    BY DEF InHand, Exclusive
  <2>3. Exclusive'
    BY DEF Exclusive, InHand
  <2>4. Knowledge'
    BY DEF Knowledge, Exclusive, InHand, Exhausted
  <2>5. Messages'
    BY DEF Messages, InHand, Exclusive, Knowledge
  <2>6. Counting'
    BY DEF Counting, InHand, Exclusive, Knowledge, Messages, CancellationAnnounced
  <2>7. DispatchRecoverable'
    BY DEF DispatchRecoverable, Messages, InHand, Exclusive, Knowledge
  <2>8. CancellationAnnounced' /\ DeadLetteredIsFailed'
    BY DEF CancellationAnnounced, DeadLetteredIsFailed
  <2> QED
    BY <2>1, <2>2, <2>3, <2>4, <2>5, <2>6, <2>7, <2>8
<1>2. CASE SweepCrash(j)
  <2> USE <1>2 DEF SweepCrash, Orphaned, QueueAdd, Crash
  <2>1. TypeOK'
    OBVIOUS
  <2>2. InHand'
    BY DEF InHand, Exclusive
  <2>3. Exclusive'
    BY DEF Exclusive, InHand
  <2>4. Knowledge'
    BY DEF Knowledge, Exclusive, InHand, Exhausted
  <2>5. Messages'
    BY DEF Messages, InHand, Exclusive, Knowledge
  <2>6. Counting'
    BY DEF Counting, InHand, Exclusive, Knowledge, Messages, CancellationAnnounced
  <2>7. DispatchRecoverable'
    BY DEF DispatchRecoverable, Messages, InHand, Exclusive, Knowledge
  <2>8. CancellationAnnounced' /\ DeadLetteredIsFailed'
    BY DEF CancellationAnnounced, DeadLetteredIsFailed
  <2> QED
    BY <2>1, <2>2, <2>3, <2>4, <2>5, <2>6, <2>7, <2>8
<1>3. CASE StallCheck(j)
  <2> USE <1>3 DEF StallCheck
  <2>1. TypeOK'
    OBVIOUS
  <2>2. InHand'
    BY DEF InHand, Exclusive
  <2>3. Exclusive'
    BY DEF Exclusive, InHand
  <2>4. Messages'
    BY DEF Messages, InHand, Exclusive, Knowledge
  <2>5. Counting'
    BY DEF Counting, InHand, Exclusive, Knowledge, Messages, CancellationAnnounced
  <2>6. DispatchRecoverable'
    BY DEF DispatchRecoverable, Messages, InHand, Exclusive, Knowledge
  <2>7. Knowledge' /\ CancellationAnnounced' /\ DeadLetteredIsFailed'
    BY DEF Knowledge, CancellationAnnounced, DeadLetteredIsFailed, Exhausted
  <2> QED
    BY <2>1, <2>2, <2>3, <2>4, <2>5, <2>6, <2>7
<1>4. CASE Evict(j)
  <2> USE <1>4 DEF Evict
  <2>1. TypeOK'
    OBVIOUS
  <2>2. InHand'
    BY DEF InHand, Exclusive
  <2>3. Exclusive'
    BY DEF Exclusive, InHand
  <2>4. Messages'
    BY DEF Messages, InHand, Exclusive, Knowledge
  <2>5. Counting'
    BY DEF Counting, InHand, Exclusive, Knowledge, Messages, CancellationAnnounced
  <2>6. DispatchRecoverable'
    BY DEF DispatchRecoverable, Messages, InHand, Exclusive, Knowledge
  <2>7. Knowledge' /\ CancellationAnnounced' /\ DeadLetteredIsFailed'
    BY DEF Knowledge, CancellationAnnounced, DeadLetteredIsFailed, Exhausted
  <2> QED
    BY <2>1, <2>2, <2>3, <2>4, <2>5, <2>6, <2>7
<1>5. CASE ExpireFlag(j)
  <2> USE <1>5 DEF ExpireFlag
  <2>1. TypeOK'
    OBVIOUS
  <2>2. InHand' /\ Exclusive' /\ Knowledge' /\ Messages' /\ Counting' /\ DispatchRecoverable'
        /\ CancellationAnnounced' /\ DeadLetteredIsFailed'
    BY DEF InHand, Exclusive, Knowledge, Messages, Counting, DispatchRecoverable,
           CancellationAnnounced, DeadLetteredIsFailed, Exhausted
  <2> QED
    BY <2>1, <2>2
<1> QED
  BY <1>1, <1>2, <1>3, <1>4, <1>5

-----------------------------------------------------------------------------
(* Steps of a delivery's start *)

\* A delivery that saw its job cancelled saw the row say so.
LEMMA FetchSees ==
  ASSUME sawCancelled \in [Workers -> BOOLEAN], NEW w \in Workers, NEW j \in Jobs,
         Fetch(w, j)
  PROVE  sawCancelled'[w] => status[j] = "CANCELLED"
BY Zenon DEF Fetch

\* Every step of a delivery's start keeps the inductive invariant.
LEMMA FetchPreserves ==
  ASSUME IInv, NEW w \in Workers, NEW j \in Jobs,
         Fetch(w, j)
  PROVE  IInv'
<1> USE NoJobAssumption, AttemptsAssumption, StalledAssumption
    DEF IInv, TypeOK, Statuses, MqStates, ClientPcs, WorkerPcs, Working, BeforeStart,
        rowVars, outVars, mqVars, clientVars, workerVars, faultVars, WorkerGoto, ClientGoto
<1>1. CASE Fetch(w, j)
  <2> USE <1>1 DEF Fetch
  <2>1. TypeOK'
    OBVIOUS
  <2>2. InHand'
    BY DEF InHand, Exclusive
  <2>3. Exclusive'
    BY DEF Exclusive, InHand
  <2>4. Knowledge'
    <3>2. sawCancelled'[w] => status[j] = "CANCELLED"
      BY ONLY IInv, <1>1, FetchSees DEF IInv, TypeOK
    <3>3. wpc'[w] = "gate" /\ wjob'[w] = j
      OBVIOUS
    <3>4. \A v \in Workers : v # w =>
             wjob'[v] = wjob[v] /\ wpc'[v] = wpc[v] /\ sawCancelled'[v] = sawCancelled[v]
      OBVIOUS
    <3>5. UNCHANGED <<status, dbFaults, effectiveAt, attemptsMade>>
      OBVIOUS
    <3> QED
      BY <3>2, <3>4, <3>5, <3>3 DEF Knowledge, Exhausted
  <2>5. Messages'
    BY DEF Messages, InHand, Exclusive, Knowledge
  <2>6. Counting'
    BY DEF Counting, InHand, Exclusive, Knowledge, Messages, CancellationAnnounced
  <2>7. DispatchRecoverable'
    BY DEF DispatchRecoverable, Messages, InHand, Exclusive, Knowledge
  <2>8. CancellationAnnounced' /\ DeadLetteredIsFailed'
    BY DEF CancellationAnnounced, DeadLetteredIsFailed
  <2> QED
    BY <2>1, <2>2, <2>3, <2>4, <2>5, <2>6, <2>7, <2>8
<1> QED
  BY <1>1

-----------------------------------------------------------------------------
(* Steps of worker slots *)

\* Every step of worker slots keeps the inductive invariant.
LEMMA WorkerPreserves ==
  ASSUME IInv, NEW w \in Workers,
         \/ GateRead(w) \/ GateFlag(w) \/ GateFlagFails(w) \/ Halt(w) \/ Load(w)
         \/ Start(w) \/ Work(w) \/ Persist(w) \/ HandleFailure(w)
         \/ WorkerDbFault(w) \/ Ack(w) \/ Nack(w) \/ NackDlqFails(w)
         \/ WorkerCrash(w)
  PROVE  IInv'
<1> USE NoJobAssumption, AttemptsAssumption, StalledAssumption
    DEF IInv, TypeOK, Statuses, MqStates, ClientPcs, WorkerPcs, Working, BeforeStart,
        rowVars, outVars, mqVars, clientVars, workerVars, faultVars, WorkerGoto, ClientGoto
<1>1. CASE GateRead(w)
  <2> USE <1>1 DEF GateRead
  <2>1. wjob[w] \in Jobs
    BY DEF InHand
  <2>2. TypeOK'
    BY <2>1
  <2>3. InHand'
    BY <2>1 DEF InHand, Exclusive
  <2>4. Knowledge'
    BY <2>1 DEF Knowledge, Exclusive, InHand, Exhausted
  <2>5. Counting'
    BY <2>1 DEF Counting, InHand, Exclusive, Knowledge, Messages, CancellationAnnounced
  <2>6. Exclusive' /\ Messages' /\ DispatchRecoverable' /\ CancellationAnnounced' /\
        DeadLetteredIsFailed'
    BY DEF Exclusive, Messages, DispatchRecoverable, CancellationAnnounced,
           DeadLetteredIsFailed
  <2> QED
    BY <2>2, <2>3, <2>4, <2>5, <2>6
<1>2. CASE GateFlag(w)
  <2> USE <1>2 DEF GateFlag
  <2>1. wjob[w] \in Jobs
    BY DEF InHand
  <2>2. TypeOK'
    BY <2>1
  <2>3. InHand'
    BY <2>1 DEF InHand, Exclusive
  <2>4. Knowledge'
    BY <2>1 DEF Knowledge, Exclusive, InHand, Exhausted
  <2>5. Counting'
    BY <2>1 DEF Counting, InHand, Exclusive, Knowledge, Messages, CancellationAnnounced
  <2>6. Exclusive' /\ Messages' /\ DispatchRecoverable' /\ CancellationAnnounced' /\
        DeadLetteredIsFailed'
    BY DEF Exclusive, Messages, DispatchRecoverable, CancellationAnnounced,
           DeadLetteredIsFailed
  <2> QED
    BY <2>2, <2>3, <2>4, <2>5, <2>6
<1>3. CASE GateFlagFails(w)
  <2> USE <1>3 DEF GateFlagFails, RedisFault
  <2>1. wjob[w] \in Jobs
    BY DEF InHand
  <2>2. TypeOK'
    BY <2>1
  <2>3. InHand'
    BY <2>1 DEF InHand, Exclusive
  <2>4. Knowledge'
    BY <2>1 DEF Knowledge, Exclusive, InHand, Exhausted
  <2>5. Counting'
    BY <2>1 DEF Counting, InHand, Exclusive, Knowledge, Messages, CancellationAnnounced
  <2>6. Exclusive' /\ Messages' /\ DispatchRecoverable' /\ CancellationAnnounced' /\
        DeadLetteredIsFailed'
    BY DEF Exclusive, Messages, DispatchRecoverable, CancellationAnnounced,
           DeadLetteredIsFailed
  <2> QED
    BY <2>2, <2>3, <2>4, <2>5, <2>6
<1>4. CASE Halt(w)
  <2> USE <1>4 DEF Halt
  <2>1. wjob[w] \in Jobs
    BY DEF InHand
  <2>2. TypeOK'
    BY <2>1
  <2>3. InHand'
    BY <2>1 DEF InHand, Exclusive
  <2>4. Knowledge'
    BY <2>1 DEF Knowledge, Exclusive, InHand, Exhausted
  <2>5. Messages'
    BY <2>1 DEF Messages, InHand, Exclusive, Knowledge
  <2>6. Counting'
    BY <2>1 DEF Counting, InHand, Exclusive, Knowledge, Messages, CancellationAnnounced
  <2>7. DispatchRecoverable'
    BY <2>1 DEF DispatchRecoverable, Messages, InHand, Exclusive, Knowledge
  <2>8. CancellationAnnounced'
    BY <2>1 DEF CancellationAnnounced
  <2>9. DeadLetteredIsFailed'
    BY <2>1 DEF DeadLetteredIsFailed, Knowledge, Exclusive, InHand, Exhausted
  <2>10. Exclusive'
    BY DEF Exclusive
  <2> QED
    BY <2>2, <2>3, <2>4, <2>5, <2>6, <2>7, <2>8, <2>9, <2>10
<1>5. CASE Load(w)
  <2> USE <1>5 DEF Load, LoadSkipping, Entity
  <2>1. wjob[w] \in Jobs
    BY DEF InHand
  <2>2. TypeOK'
    BY <2>1
  <2>3. InHand'
    BY <2>1 DEF InHand, Exclusive
  <2>4. Knowledge'
    BY <2>1 DEF Knowledge, Exclusive, InHand, Exhausted
  <2>5. Counting'
    BY <2>1 DEF Counting, InHand, Exclusive, Knowledge, Messages, CancellationAnnounced
  <2>6. Exclusive' /\ Messages' /\ DispatchRecoverable' /\ CancellationAnnounced' /\
        DeadLetteredIsFailed'
    BY DEF Exclusive, Messages, DispatchRecoverable, CancellationAnnounced,
           DeadLetteredIsFailed
  <2> QED
    BY <2>2, <2>3, <2>4, <2>5, <2>6
<1>6. CASE Start(w)
  <2> USE <1>6 DEF Start, Entity
  <2>1. wjob[w] \in Jobs
    BY DEF InHand
  <2>2. TypeOK'
    BY <2>1
  <2>3. InHand'
    BY <2>1 DEF InHand, Exclusive
  <2>4. Knowledge'
    BY <2>1 DEF Knowledge, Exclusive, InHand, Exhausted
  <2>5. Messages'
    BY <2>1 DEF Messages, InHand, Exclusive, Knowledge
  <2>6. Counting'
    BY <2>1 DEF Counting, InHand, Exclusive, Knowledge, Messages, CancellationAnnounced
  <2>7. DispatchRecoverable'
    BY <2>1 DEF DispatchRecoverable, Messages, InHand, Exclusive, Knowledge
  <2>8. CancellationAnnounced'
    BY <2>1 DEF CancellationAnnounced
  <2>9. DeadLetteredIsFailed'
    BY <2>1 DEF DeadLetteredIsFailed, Knowledge, Exclusive, InHand, Exhausted
  <2>10. Exclusive'
    BY DEF Exclusive
  <2> QED
    BY <2>2, <2>3, <2>4, <2>5, <2>6, <2>7, <2>8, <2>9, <2>10
<1>7. CASE Work(w)
  <2> USE <1>7 DEF Work
  <2>1. wjob[w] \in Jobs
    BY DEF InHand
  <2>2. TypeOK'
    BY <2>1
  <2>3. InHand'
    BY <2>1 DEF InHand, Exclusive
  <2>4. Knowledge'
    BY <2>1 DEF Knowledge, Exclusive, InHand, Exhausted
  <2>5. Counting'
    BY <2>1 DEF Counting, InHand, Exclusive, Knowledge, Messages, CancellationAnnounced
  <2>6. Exclusive' /\ Messages' /\ DispatchRecoverable' /\ CancellationAnnounced' /\
        DeadLetteredIsFailed'
    BY DEF Exclusive, Messages, DispatchRecoverable, CancellationAnnounced,
           DeadLetteredIsFailed
  <2> QED
    BY <2>2, <2>3, <2>4, <2>5, <2>6
<1>8. CASE Persist(w)
  <2> USE <1>8 DEF Persist, Entity
  <2>1. wjob[w] \in Jobs
    BY DEF InHand
  <2>2. TypeOK'
    BY <2>1
  <2>3. InHand'
    BY <2>1 DEF InHand, Exclusive
  <2>4. Knowledge'
    BY <2>1 DEF Knowledge, Exclusive, InHand, Exhausted
  <2>5. Messages'
    BY <2>1 DEF Messages, InHand, Exclusive, Knowledge
  <2>6. Counting'
    BY <2>1 DEF Counting, InHand, Exclusive, Knowledge, Messages, CancellationAnnounced
  <2>7. DispatchRecoverable'
    BY <2>1 DEF DispatchRecoverable, Messages, InHand, Exclusive, Knowledge
  <2>8. CancellationAnnounced'
    BY <2>1 DEF CancellationAnnounced
  <2>9. DeadLetteredIsFailed'
    BY <2>1 DEF DeadLetteredIsFailed, Knowledge, Exclusive, InHand, Exhausted
  <2>10. Exclusive'
    BY DEF Exclusive
  <2> QED
    BY <2>2, <2>3, <2>4, <2>5, <2>6, <2>7, <2>8, <2>9, <2>10
<1>9. CASE HandleFailure(w)
  <2> USE <1>9 DEF HandleFailure, Entity, IsFinalAttempt
  <2>1. wjob[w] \in Jobs
    BY DEF InHand
  <2>2. TypeOK'
    BY <2>1
  <2>3. InHand'
    BY <2>1 DEF InHand, Exclusive
  <2>4. Knowledge'
    BY <2>1 DEF Knowledge, Exclusive, InHand, Exhausted
  <2>5. Messages'
    BY <2>1 DEF Messages, InHand, Exclusive, Knowledge
  <2>6. Counting'
    BY <2>1 DEF Counting, InHand, Exclusive, Knowledge, Messages, CancellationAnnounced
  <2>7. DispatchRecoverable'
    BY <2>1 DEF DispatchRecoverable, Messages, InHand, Exclusive, Knowledge
  <2>8. CancellationAnnounced'
    BY <2>1 DEF CancellationAnnounced
  <2>9. DeadLetteredIsFailed'
    BY <2>1 DEF DeadLetteredIsFailed, Knowledge, Exclusive, InHand, Exhausted
  <2>10. Exclusive'
    BY DEF Exclusive
  <2> QED
    BY <2>2, <2>3, <2>4, <2>5, <2>6, <2>7, <2>8, <2>9, <2>10
<1>10. CASE WorkerDbFault(w)
  <2> USE <1>10 DEF WorkerDbFault, DbFault
  <2>1. wjob[w] \in Jobs
    BY DEF InHand
  <2>2. TypeOK'
    BY <2>1
  <2>3. InHand'
    BY <2>1 DEF InHand, Exclusive
  <2>4. Knowledge'
    BY <2>1 DEF Knowledge, Exclusive, InHand, Exhausted
  <2>5. Counting'
    BY <2>1 DEF Counting, InHand, Exclusive, Knowledge, Messages, CancellationAnnounced
  <2>6. DeadLetteredIsFailed'
    BY <2>1 DEF DeadLetteredIsFailed, Knowledge, Exclusive, InHand, Exhausted
  <2>7. Exclusive' /\ Messages' /\ DispatchRecoverable' /\ CancellationAnnounced'
    BY DEF Exclusive, Messages, DispatchRecoverable, CancellationAnnounced
  <2> QED
    BY <2>2, <2>3, <2>4, <2>5, <2>6, <2>7
<1>11. CASE Ack(w)
  <2> USE <1>11 DEF Ack, Release
  <2>1. wjob[w] \in Jobs
    BY DEF InHand
  <2>2. TypeOK'
    BY <2>1
  <2>3. InHand'
    BY <2>1 DEF InHand, Exclusive
  <2>4. Exclusive'
    BY <2>1 DEF Exclusive, InHand
  <2>5. Knowledge'
    BY <2>1 DEF Knowledge, Exclusive, InHand, Exhausted
  <2>6. Messages'
    BY <2>1 DEF Messages, InHand, Exclusive, Knowledge
  <2>7. Counting'
    BY <2>1 DEF Counting, InHand, Exclusive, Knowledge, Messages, CancellationAnnounced
  <2>8. DispatchRecoverable'
    BY <2>1 DEF DispatchRecoverable, Messages, InHand, Exclusive, Knowledge
  <2>9. CancellationAnnounced' /\ DeadLetteredIsFailed'
    BY DEF CancellationAnnounced, DeadLetteredIsFailed
  <2> QED
    BY <2>2, <2>3, <2>4, <2>5, <2>6, <2>7, <2>8, <2>9
<1>12. CASE Nack(w)
  <2> USE <1>12 DEF Nack, Release, Exhausted
  <2>1. wjob[w] \in Jobs
    BY DEF InHand
  <2>2. TypeOK'
    BY <2>1
  <2>3. InHand'
    BY <2>1 DEF InHand, Exclusive
  <2>4. Exclusive'
    BY <2>1 DEF Exclusive, InHand
  <2>5. Knowledge'
    BY <2>1 DEF Knowledge, Exclusive, InHand, Exhausted
  <2>6. Messages'
    BY <2>1 DEF Messages, InHand, Exclusive, Knowledge
  <2>7. Counting'
    BY <2>1 DEF Counting, InHand, Exclusive, Knowledge, Messages, CancellationAnnounced
  <2>8. DispatchRecoverable'
    BY <2>1 DEF DispatchRecoverable, Messages, InHand, Exclusive, Knowledge
  <2>9. DeadLetteredIsFailed'
    BY <2>1 DEF DeadLetteredIsFailed, Knowledge, Exclusive, InHand, Exhausted
  <2>10. CancellationAnnounced'
    BY DEF CancellationAnnounced
  <2> QED
    BY <2>2, <2>3, <2>4, <2>5, <2>6, <2>7, <2>8, <2>9, <2>10
<1>13. CASE NackDlqFails(w)
  <2> USE <1>13 DEF NackDlqFails, Release, Exhausted, RedisFault
  <2>1. wjob[w] \in Jobs
    BY DEF InHand
  <2>2. TypeOK'
    BY <2>1
  <2>3. InHand'
    BY <2>1 DEF InHand, Exclusive
  <2>4. Exclusive'
    BY <2>1 DEF Exclusive, InHand
  <2>5. Knowledge'
    BY <2>1 DEF Knowledge, Exclusive, InHand, Exhausted
  <2>6. Messages'
    BY <2>1 DEF Messages, InHand, Exclusive, Knowledge
  <2>7. Counting'
    BY <2>1 DEF Counting, InHand, Exclusive, Knowledge, Messages, CancellationAnnounced
  <2>8. DispatchRecoverable'
    BY <2>1 DEF DispatchRecoverable, Messages, InHand, Exclusive, Knowledge
  <2>9. CancellationAnnounced' /\ DeadLetteredIsFailed'
    BY DEF CancellationAnnounced, DeadLetteredIsFailed
  <2> QED
    BY <2>2, <2>3, <2>4, <2>5, <2>6, <2>7, <2>8, <2>9
<1>14. CASE WorkerCrash(w)
  <2> USE <1>14 DEF WorkerCrash, Release, Crash
  <2>1. wjob[w] \in Jobs
    BY DEF InHand
  <2>2. TypeOK'
    BY <2>1
  <2>3. InHand'
    BY <2>1 DEF InHand, Exclusive
  <2>4. Exclusive'
    BY <2>1 DEF Exclusive, InHand
  <2>5. Knowledge'
    BY <2>1 DEF Knowledge, Exclusive, InHand, Exhausted
  <2>6. Counting'
    BY <2>1 DEF Counting, InHand, Exclusive, Knowledge, Messages, CancellationAnnounced
  <2>7. Messages' /\ DispatchRecoverable' /\ CancellationAnnounced' /\ DeadLetteredIsFailed'
    BY DEF Messages, DispatchRecoverable, CancellationAnnounced, DeadLetteredIsFailed
  <2> QED
    BY <2>2, <2>3, <2>4, <2>5, <2>6, <2>7
<1> QED
  BY <1>1, <1>2, <1>3, <1>4, <1>5, <1>6, <1>7, <1>8, <1>9, <1>10, <1>11, <1>12, <1>13, <1>14

-----------------------------------------------------------------------------
(* The invariant of the specification *)

\* A stuttering step keeps the inductive invariant.
LEMMA StutterPreserves == IInv /\ UNCHANGED vars => IInv'
  BY DEF IInv, TypeOK, InHand, Exclusive, Knowledge, Messages, Counting, DispatchRecoverable,
         CancellationAnnounced, DeadLetteredIsFailed, Exhausted, vars, rowVars, outVars, mqVars,
         clientVars, workerVars, faultVars

\* The initial state satisfies the inductive invariant.
LEMMA InitSatisfies == Init => IInv
  BY NoJobAssumption, AttemptsAssumption, StalledAssumption
  DEF Init, IInv, TypeOK, Statuses, MqStates, ClientPcs, WorkerPcs, InHand, Exclusive, Knowledge,
      Messages, Counting, DispatchRecoverable, CancellationAnnounced, DeadLetteredIsFailed

\* The inductive invariant holds in every reachable state.
THEOREM Invariance == Spec => []IInv
<1>1. IInv /\ [Next]_vars => IInv'
  <2> SUFFICES ASSUME IInv, [Next]_vars PROVE IInv'
    OBVIOUS
  <2>1. CASE \E c \in Clients, j \in Jobs : Create(c, j) \/ CancelRead(c, j)
    BY <2>1, ClientPreserves
  <2>2. ASSUME NEW c \in Clients, ClientStep(c) \/ ClientFault(c) PROVE IInv'
    <3>1. cjob[c] \in Jobs
      BY <2>2 DEF IInv, InHand, TypeOK, ClientStep, ClientFault, Enqueue, Mark, CancelCommitRequest,
                  CancelCommitImmediate, RemoveQueuedJob, SetFlag, EnqueueFails,
                  RemoveQueuedJobFails, SetFlagFails, ClientCrash
    <3> QED
      BY <2>2, <3>1, ClientPreserves DEF ClientStep, ClientFault
  <2>3. ASSUME NEW w \in Workers, WorkerStep(w) \/ WorkerFault(w) PROVE IInv'
    BY <2>3, WorkerPreserves DEF WorkerStep, WorkerFault
  <2>4. ASSUME NEW w \in Workers, NEW j \in Jobs, Fetch(w, j) PROVE IInv'
    BY <2>4, FetchPreserves
  <2>5. ASSUME NEW j \in Jobs,
               Sweep(j) \/ SweepCrash(j) \/ StallCheck(j) \/ Evict(j) \/ ExpireFlag(j)
        PROVE  IInv'
    BY <2>5, QueuePreserves
  <2>6. CASE UNCHANGED vars
    BY <2>6, StutterPreserves
  <2> QED
    BY <2>1, <2>2, <2>3, <2>4, <2>5, <2>6 DEF Next
<1> QED
  BY <1>1, InitSatisfies, PTL DEF Spec

-----------------------------------------------------------------------------
(* What the runs check, for every value of the constants *)

\* The rows, the queue and the processes keep their types: no code path invents a status.
THEOREM TypeCorrect == Spec => []TypeOK
  BY Invariance, PTL DEF IInv

\* enqueueProcessingJob and the sweeper never lose a job between Postgres and Redis.
THEOREM DispatchIsRecoverable == Spec => []DispatchRecoverable
  BY Invariance, PTL DEF IInv

\* cancelJob and haltIfCancelled always announce the cancellation they record.
THEOREM CancellationIsAnnounced == Spec => []CancellationAnnounced
  BY Invariance, PTL DEF IInv

\* Deliveries never exceed the bound of processing_job_attempt_count_chk.
THEOREM AttemptsStayInBudget == Spec => []AttemptBudget
<1>1. IInv => AttemptBudget
  BY DEF IInv, Counting, AttemptBudget
<1> QED
  BY <1>1, Invariance, PTL

\* persistIngestionResult commits at most once per job that was not reported cancelled.
THEOREM ResultIsRecordedOnce == Spec => []ResultOnce
<1>1. IInv => ResultOnce
  BY DEF IInv, TypeOK, Counting, ResultOnce
<1> QED
  BY <1>1, Invariance, PTL

\* A delivery that finds its row CANCELLED never reaches the processor.
THEOREM CancelIsHonoured == Spec => []CancelHonoured
<1>1. IInv => CancelHonoured
  <2> SUFFICES ASSUME IInv, NEW w \in Workers, sawCancelled[w], wpc[w] \in Working PROVE FALSE
    BY DEF CancelHonoured
  <2>1. wjob[w] \in Jobs
    BY DEF IInv, TypeOK, InHand, Working
  <2> QED
    BY <2>1 DEF IInv, Knowledge, Working
<1> QED
  BY <1>1, Invariance, PTL

\* The dead-letter queue holds only failed or cancelled jobs while transactions succeed.
THEOREM DeadLettersAreFailed == Spec => []DeadLetteredIsFailed
  BY Invariance, PTL DEF IInv

\* No step runs a finished job again or swaps its outcome; only a cancellation overwrites it.
THEOREM OutcomesStand == Spec => OutcomeStands
<1> DEFINE Stands == \A j \in Jobs : status[j] \in {"SUCCEEDED", "FAILED"} =>
                                      status'[j] \in {status[j], "CANCELLED"}
<1>1. IInv /\ [Next]_vars => [Stands]_vars
  <2> SUFFICES ASSUME IInv, Next PROVE Stands
    OBVIOUS
  <2> USE DEF IInv, TypeOK
  <2>1. ASSUME NEW c \in Clients, NEW j \in Jobs, Create(c, j) PROVE Stands
    BY <2>1 DEF Create
  <2>2. ASSUME NEW c \in Clients, CancelCommitImmediate(c) PROVE Stands
    BY <2>2 DEF CancelCommitImmediate
  <2>3. ASSUME NEW w \in Workers, Halt(w) PROVE Stands
    BY <2>3 DEF Halt
  <2>4. ASSUME NEW w \in Workers, Start(w) \/ Persist(w) \/ HandleFailure(w) PROVE Stands
    <3>1. wjob[w] \in Jobs /\ Entity(w) = wjob[w] /\ wpc[w] \in Working
      BY <2>4 DEF InHand, Start, Persist, HandleFailure, Entity, Working
    <3> QED
      BY <2>4, <3>1 DEF Knowledge, Start, Persist, HandleFailure
  <2>5. CASE UNCHANGED status
    BY <2>5
  <2> QED
    BY <2>1, <2>2, <2>3, <2>4, <2>5
    DEF Next, ClientStep, ClientFault, WorkerStep, WorkerFault, CancelRead, Enqueue, Mark,
        CancelCommitRequest, RemoveQueuedJob, SetFlag, EnqueueFails, RemoveQueuedJobFails,
        SetFlagFails, ClientCrash, Sweep, SweepCrash, StallCheck, Evict, ExpireFlag, Fetch,
        GateRead, GateFlag, GateFlagFails, Load, LoadSkipping, Work, WorkerDbFault, Ack, Nack,
        NackDlqFails, WorkerCrash, rowVars
<1> QED
  BY <1>1, Invariance, PTL DEF Spec, OutcomeStands

=============================================================================
