------------------------------ MODULE JobChain ------------------------------
(***************************************************************************)
(* The jobs of the AI worker that run as a chain: the API commits the      *)
(* first row with its dispatch envelope, and every handler commits the row *)
(* of its successor and enqueues it afterwards.  This module has the rows, *)
(* their messages, the worker's gate and its faults; StoryBible and        *)
(* Direction say what the handlers do.                                     *)
(***************************************************************************)
EXTENDS Naturals

CONSTANTS
  Jobs,
  Roots,           \* the jobs that the API creates
  MaxAttempts,     \* max_attempts of every row of these chains
  MaxTroubles,     \* bound: deaths and failing calls of the API and the worker
  MaxCancels       \* bound: cancelled jobs

ASSUME ChainAssumption ==
  /\ Roots \subseteq Jobs
  /\ MaxAttempts \in Nat \ {0} /\ MaxTroubles \in Nat /\ MaxCancels \in Nat

VARIABLES
  status,          \* processing_job.status; CREATED stands for QUEUED too
  cancel,          \* cancellation_requested
  msg, tries,      \* the message of a job, and its attemptsMade
  pc,              \* the step of the handler that has the message
  troubles, cancels

rowVars == <<status, cancel>>
messageVars == <<msg, tries, pc>>
bounds == <<troubles, cancels>>
chainVars == <<rowVars, messageVars, bounds>>

Active == {"CREATED", "RUNNING"}
Statuses == Active \cup {"ABSENT", "SUCCEEDED", "FAILED", "CANCELLED"}

ChainInit ==
  /\ status = [j \in Jobs |-> "ABSENT"]
  /\ cancel = [j \in Jobs |-> FALSE]
  /\ msg = [j \in Jobs |-> "none"]
  /\ tries = [j \in Jobs |-> 0]
  /\ pc = [j \in Jobs |-> "idle"]
  /\ troubles = 0 /\ cancels = 0

\* The partial unique index on idempotency keys leaves out rows that came to nothing
Live(j) == status[j] \in {"CREATED", "RUNNING", "SUCCEEDED"}

Final(j) == tries[j] + 1 >= MaxAttempts

Trouble == troubles < MaxTroubles /\ troubles' = troubles + 1

Goto(j, step) == pc' = [pc EXCEPT ![j] = step]

\* Statements on processing_job rows, by id and whatever their status is
MarkJobRunning(rows, j) == [rows EXCEPT ![j] = "RUNNING"]
MarkJobSucceeded(rows, j) == [rows EXCEPT ![j] = "SUCCEEDED"]
MarkJobFailed(rows, j) == [rows EXCEPT ![j] = "FAILED"]
CreateChildJob(rows, j) == [rows EXCEPT ![j] = "CREATED"]

\* The last job of a chain updates the first one's row, which a redelivery may have CANCELLED
FinalizeRootJob(rows, j) ==
  [rows EXCEPT ![j] = IF @ \in {"ABSENT", "SUCCEEDED", "FAILED"} THEN @ ELSE "SUCCEEDED"]

\* How the handler ends, and what BullMQ makes of it
Finish(j, outcome) ==
  /\ msg' = [msg EXCEPT ![j] =
       IF outcome = "retry" THEN IF Final(j) THEN "failed" ELSE "wait" ELSE outcome]
  /\ tries' = [tries EXCEPT ![j] = @ + 1]
  /\ Goto(j, "idle")

\* The API's enqueue of a chain's first job, and the sweeper's of one that it missed
DispatchRoot(j) ==
  /\ j \in Roots
  /\ status[j] = "CREATED" /\ msg[j] = "none"
  /\ msg' = [msg EXCEPT ![j] = "wait"]
  /\ UNCHANGED <<rowVars, tries, pc, bounds>>

\* The worker takes a message.  Its gate acknowledges a cancelled job, and cancels one that
\* was asked to stop.
Take(j) ==
  /\ msg[j] = "wait"
  /\ \/ /\ status[j] = "CANCELLED"
        /\ Finish(j, "completed")
        /\ UNCHANGED status
     \/ /\ status[j] # "CANCELLED" /\ cancel[j]
        /\ status' = [status EXCEPT ![j] = "CANCELLED"]
        /\ Finish(j, "completed")
     \/ /\ status[j] # "CANCELLED" /\ ~cancel[j]
        /\ msg' = [msg EXCEPT ![j] = "active"]
        /\ Goto(j, "load")
        /\ UNCHANGED <<status, tries>>
  /\ UNCHANGED <<cancel, bounds>>

\* Mutation of Over: only a failed job is left alone
Over_Failed(j) == status[j] = "FAILED"

\* A redelivered message of a job that is over
Over(j) == status[j] \in {"SUCCEEDED", "FAILED"}

Skip(j) ==
  /\ pc[j] = "load"
  /\ Over(j)
  /\ Finish(j, "completed")
  /\ UNCHANGED <<rowVars, bounds>>

\* After the commit: the successor's message, or Redis refuses it and the handler raises
Enqueue(j, next) ==
  /\ pc[j] = "enqueue"
  /\ \/ /\ msg' = [msg EXCEPT ![next] = "wait", ![j] = "completed"]
        /\ tries' = [tries EXCEPT ![j] = @ + 1]
        /\ Goto(j, "idle")
        /\ UNCHANGED troubles
     \/ /\ Trouble
        /\ Finish(j, "retry")
  /\ UNCHANGED <<rowVars, cancels>>

\* An exception that is not one of the handler's own: the transaction at hand is rolled back
Raise(j) ==
  /\ pc[j] \notin {"idle", "enqueue"}
  /\ Trouble
  /\ Finish(j, "retry")
  /\ UNCHANGED <<rowVars, cancels>>

\* The worker dies; BullMQ finds its message stalled
Die(j) ==
  /\ pc[j] # "idle"
  /\ Trouble
  /\ msg' = [msg EXCEPT ![j] = "wait"]
  /\ Goto(j, "idle")
  /\ UNCHANGED <<rowVars, tries, cancels>>

\* cancelJob: a job that has not started is CANCELLED at once, with its message; one that
\* runs is asked to stop, which these handlers look for before they start only
Cancel(j) ==
  /\ status[j] \in Active
  /\ ~cancel[j]
  /\ cancels < MaxCancels /\ cancels' = cancels + 1
  /\ cancel' = [cancel EXCEPT ![j] = TRUE]
  /\ status' = [status EXCEPT ![j] = IF @ = "CREATED" THEN "CANCELLED" ELSE @]
  /\ msg' = [msg EXCEPT ![j] = IF @ = "wait" /\ status[j] = "CREATED" THEN "removed" ELSE @]
  /\ UNCHANGED <<tries, pc, troubles>>

Delivers(j) == Take(j) \/ Skip(j)
Faults(j) == Raise(j) \/ Die(j) \/ Cancel(j)

\* The types of the rows and the messages
ChainTypeOK ==
  /\ status \in [Jobs -> Statuses]
  /\ cancel \in [Jobs -> BOOLEAN]
  /\ msg \in [Jobs -> {"none", "wait", "active", "completed", "failed", "removed"}]
  /\ tries \in [Jobs -> 0..MaxAttempts]
  /\ \A j \in Jobs : pc[j] # "idle" <=> msg[j] = "active"
=============================================================================
