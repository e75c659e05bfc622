------------------------ MODULE ChapterAssemblyProofs ------------------------
(***************************************************************************)
(* Proofs about ChapterAssembly, for every number of chapters, takes,      *)
(* concurrent requests, attempts and faults.  IInv is inductive; the three *)
(* invariants of the run follow from it.                                   *)
(***************************************************************************)
EXTENDS ChapterAssembly, FiniteSetTheorems, FunctionTheorems, TLAPS

-----------------------------------------------------------------------------
(* Takes, versions and rows *)

\* Takes and versions are positive numbers, and every take of a chapter is one.
LEMMA TakesAre ==
  /\ \A t \in Takes : t \in Nat /\ t # 0
  /\ \A c \in Chapters : \A t \in 1..MaxTake[c] : t \in Takes
  /\ Versions = Takes
  BY NumbersAssumption DEF Takes, Versions

\* A job is of a chapter and of one of its takes.
LEMMA JobParts ==
  /\ \A j \in Jobs : j[1] \in Chapters /\ j[2] \in 1..MaxTake[j[1]] /\ j = <<j[1], j[2]>>
  /\ \A c \in Chapters, t \in Takes : t <= MaxTake[c] => <<c, t>> \in Jobs
<1>1. ASSUME NEW j \in Jobs
      PROVE  j[1] \in Chapters /\ j[2] \in 1..MaxTake[j[1]] /\ j = <<j[1], j[2]>>
  <2>1. j[1] \in Chapters /\ j[2] \in Takes /\ j = <<j[1], j[2]>> /\ j[2] <= MaxTake[j[1]]
    BY DEF Jobs
  <2>2. j[2] \in Nat /\ j[2] # 0 /\ MaxTake[j[1]] \in Nat
    BY <2>1, TakesAre, NumbersAssumption
  <2> QED
    BY <2>1, <2>2
<1>2. \A c \in Chapters, t \in Takes : t <= MaxTake[c] => <<c, t>> \in Jobs
  BY DEF Jobs
<1> QED
  BY <1>1, <1>2

\* The version that a delivery reads is the one after the current.
LEMMA NextVersionIs ==
  ASSUME IInv, NEW c \in Chapters
  PROVE  NextVersion(c) = current[c] + 1 /\ current[c] \in Nat
<1> DEFINE versions == {v \in Versions : audio[c][v] # 0}
<1>1. current[c] \in Nat /\ (current[c] # 0 => current[c] \in Versions)
  BY NumbersAssumption DEF IInv, TypeOK, RowsNumbered, TakesCounted
<1>2. \A v \in Versions : v \in versions <=> v <= current[c]
  BY DEF IInv, RowsNumbered
<1>3. \A v \in Versions : v \in Nat /\ v # 0
  BY TakesAre
<1>4. NextVersion(c) =
        IF versions = {} THEN 1 ELSE (CHOOSE v \in versions : \A w \in versions : w <= v) + 1
  BY DEF NextVersion
<1>5. CASE current[c] = 0
  <2>1. versions = {}
    BY <1>2, <1>3, <1>5
  <2> HIDE DEF versions
  <2> QED
    BY <1>4, <1>5, <2>1
<1>6. CASE current[c] # 0
  <2>1. current[c] \in versions /\ \A w \in versions : w <= current[c] /\ w \in Nat
    BY <1>1, <1>2, <1>3, <1>6
  <2> DEFINE top == CHOOSE v \in versions : \A w \in versions : w <= v
  <2> HIDE DEF versions
  <2>2. top \in versions /\ \A w \in versions : w <= top
    BY <2>1, Zenon
  <2>3. NextVersion(c) = top + 1
    BY <1>4, <2>1
  <2> HIDE DEF top
  <2>4. top = current[c]
    BY <1>1, <2>1, <2>2
  <2> QED
    BY <1>1, <2>3, <2>4
<1> QED
  BY <1>1, <1>5, <1>6

\* Distinct numbers up to m, none of them t, are fewer than m.
LEMMA FewerThan ==
  ASSUME NEW n \in Nat, NEW m \in Nat, NEW t \in 1..m,
         NEW f \in [1..n -> (1..m) \ {t}], \A v, w \in 1..n : f[v] = f[w] => v = w
  PROVE  n + 1 <= m
<1> DEFINE A == 1..n
           B == (1..m) \ {t}
<1>1. IsFiniteSet(1..m) /\ Cardinality(1..m) = m
  BY FS_Interval
<1>2. IsFiniteSet(B) /\ Cardinality(B) = m - 1
  BY <1>1, FS_RemoveElement
<1>3. Cardinality(A) = n
  BY FS_Interval
<1> HIDE DEF A, B
<1>4. f \in [A -> B] /\ \A v, w \in A : f[v] = f[w] => v = w
  BY DEF A, B
<1>5. f \in Injection(A, B)
  BY <1>4, Fun_IsInj
<1>6. Cardinality(A) <= Cardinality(B)
  BY <1>2, <1>5, FS_Injection
<1> QED
  BY <1>2, <1>3, <1>6

\* A take without a row leaves room for one more version: the rows of a chapter are fewer
\* than its takes.
LEMMA RoomForTake ==
  ASSUME IInv, NEW c \in Chapters, NEW t \in 1..take[c], \A v \in Versions : audio[c][v] # t
  PROVE  current[c] + 1 <= take[c]
<1>1. take[c] \in Nat /\ current[c] \in 0..take[c] /\ take[c] <= MaxTake[c] /\ MaxTake[c] \in Nat
  BY NumbersAssumption DEF IInv, TakesCounted, RowsNumbered
<1> DEFINE n == current[c]
           others == (1..take[c]) \ {t}
           f == [v \in 1..n |-> audio[c][v]]
<1>2. \A v \in 1..n : v \in Versions /\ audio[c][v] \in 0..take[c] /\ audio[c][v] # 0
  <2> SUFFICES ASSUME NEW v \in 1..n
               PROVE  v \in Versions /\ audio[c][v] \in 0..take[c] /\ audio[c][v] # 0
    OBVIOUS
  <2>1. v \in 1..MaxTake[c] /\ v <= current[c]
    BY <1>1
  <2>2. v \in Versions
    BY <2>1, TakesAre
  <2> QED
    BY <2>1, <2>2 DEF IInv, RowsNumbered
<1>3. f \in [1..n -> others]
  BY <1>1, <1>2
<1>4. \A v, w \in 1..n : f[v] = f[w] => v = w
  BY <1>2 DEF IInv, RowsNumbered
<1> HIDE DEF f, others
<1>5. n \in Nat
  BY <1>1
<1> HIDE DEF n
<1>6. f \in [1..n -> (1..take[c]) \ {t}]
  BY <1>3 DEF others
<1>7. n + 1 <= take[c]
  BY <1>1, <1>4, <1>5, <1>6, FewerThan
<1> QED
  BY <1>7 DEF n

-----------------------------------------------------------------------------
(* What a step leaves alone *)

\* The types of the chapter jobs.
JobsTyped ==
  /\ jStatus \in [Jobs -> {"ABSENT", "CREATED", "RUNNING", "SUCCEEDED", "FAILED"}]
  /\ jWhole \in [Jobs -> BOOLEAN] /\ jInTry \in [Jobs -> BOOLEAN]
  /\ jPc \in [Jobs -> JobPcs]
  /\ jTries \in [Jobs -> 0..MaxAttempts]
  /\ jTake \in [Jobs -> Takes \cup {0}]
  /\ jVersion \in [Jobs -> {0} \cup Versions \cup {v + 1 : v \in Versions}]

\* A step of one chapter job.
Alone(j) ==
  \A k \in Jobs \ {j} :
    /\ jStatus'[k] = jStatus[k] /\ jPc'[k] = jPc[k] /\ jTries'[k] = jTries[k]
    /\ jTake'[k] = jTake[k] /\ jVersion'[k] = jVersion[k]

\* Once asked for, the audiobook stays asked for.
BookKept == BookAsked => BookAsked'

\* Steps that leave chapter jobs and audio rows keep what is known of them.
LEMMA JobsKept ==
  ASSUME IInv, UNCHANGED <<jobVars, audioVars, troubles>>, BookKept, TakesCounted',
         \A c \in Chapters : take[c] <= take'[c]
  PROVE  RowsNumbered' /\ DeliveryInStep' /\ ResultNamed' /\ NoJobLeftBehind' /\ FanInPending'
<1> USE DEF jobVars, audioVars
<1>1. \A c \in Chapters : take[c] \in Nat /\ take'[c] \in Nat /\ take[c] <= take'[c]
  BY NumbersAssumption DEF IInv, TakesCounted
<1>2. RowsNumbered'
  <2> SUFFICES ASSUME NEW c \in Chapters
               PROVE  /\ current[c] \in 0..take'[c]
                      /\ \A v \in Versions :
                           /\ audio[c][v] \in 0..take'[c]
                           /\ audio[c][v] # 0 <=> v <= current[c]
                           /\ \A w \in Versions : audio[c][v] = audio[c][w] => v = w \/ audio[c][v] = 0
    BY DEF RowsNumbered
  <2>1. /\ current[c] \in 0..take[c]
        /\ \A v \in Versions :
             /\ audio[c][v] \in 0..take[c]
             /\ audio[c][v] # 0 <=> v <= current[c]
             /\ \A w \in Versions : audio[c][v] = audio[c][w] => v = w \/ audio[c][v] = 0
    BY DEF IInv, RowsNumbered
  <2> QED
    BY <1>1, <2>1
<1>3. DeliveryInStep'
  <2>1. \A j \in Jobs : j[1] \in Chapters
    BY JobParts
  <2>2. \A j \in Jobs : jTake[j] \in 1..take[j[1]] => jTake[j] \in 1..take'[j[1]]
    BY <1>1, <2>1
  <2> QED
    BY <2>2 DEF IInv, DeliveryInStep
<1>4. ResultNamed' /\ NoJobLeftBehind'
  BY DEF IInv, ResultNamed, NoJobLeftBehind
<1>5. FanInPending'
  <2>1. \A s : Covers(s)' <=> Covers(s)
    BY DEF Covers
  <2> QED
    BY <2>1 DEF IInv, FanInPending, BookKept
<1> QED
  BY <1>2, <1>3, <1>4, <1>5

\* A chapter with a SUCCEEDED job has a current audio.
LEMMA CoveredIsReady ==
  ASSUME IInv, NEW s \in [Chapters -> Takes], Covers(s)
  PROVE  Ready
<1> SUFFICES ASSUME NEW c \in Chapters PROVE current[c] # 0
  BY DEF Ready
<1> DEFINE j == <<c, s[c]>>
<1>1. j \in Jobs /\ jStatus[j] = "SUCCEEDED" /\ j[1] = c
  BY JobParts DEF Covers
<1>2. jVersion[j] \in Versions /\ audio[c][jVersion[j]] # 0
  BY <1>1 DEF IInv, ResultNamed
<1>3. jVersion[j] \in Nat /\ jVersion[j] # 0 /\ jVersion[j] <= current[c]
  BY <1>2, TakesAre DEF IInv, RowsNumbered
<1> QED
  BY <1>3

\* A step of one job keeps the fan-in pending, if the job becomes SUCCEEDED only on its way to
\* it, and gives up looking only when a chapter is missing or the audiobook has been asked for.
LEMMA FanInKept ==
  ASSUME IInv, NEW j \in Jobs, Alone(j), UNCHANGED jWhole, BookKept,
         troubles' = 0 => troubles = 0,
         troubles' = 0 /\ jStatus'[j] = "SUCCEEDED" /\ jWhole[j] =>
           \/ BookAsked' \/ jPc'[j] \in {"fanin", "inflight", "trigger"}
           \/ jStatus[j] = "SUCCEEDED" /\ (~Ready \/ jPc[j] \notin {"fanin", "inflight", "trigger"})
  PROVE  FanInPending'
<1> SUFFICES ASSUME troubles' = 0, NEW s \in [Chapters -> Takes], Covers(s)', ~BookAsked'
             PROVE  \E c \in Chapters : jPc'[<<c, s[c]>>] \in {"fanin", "inflight", "trigger"}
  BY DEF FanInPending
<1>1. \A c \in Chapters : /\ <<c, s[c]>> \in Jobs /\ s[c] <= MaxTake[c]
                          /\ jStatus'[<<c, s[c]>>] = "SUCCEEDED" /\ jWhole[<<c, s[c]>>]
  BY JobParts DEF Covers
<1> SUFFICES ASSUME \A c \in Chapters : jPc'[<<c, s[c]>>] \notin {"fanin", "inflight", "trigger"}
             PROVE  FALSE
  OBVIOUS
<1>2. \A c \in Chapters : jStatus[<<c, s[c]>>] = "SUCCEEDED"
  BY <1>1 DEF Alone
<1>3. Covers(s)
  BY <1>1, <1>2 DEF Covers
<1>4. Ready
  BY <1>3, CoveredIsReady
<1>5. PICK c \in Chapters : jPc[<<c, s[c]>>] \in {"fanin", "inflight", "trigger"}
  BY <1>3 DEF IInv, FanInPending, BookKept
<1>6. CASE <<c, s[c]>> = j
  BY <1>1, <1>4, <1>5, <1>6
<1>7. CASE <<c, s[c]>> # j
  BY <1>1, <1>5, <1>7 DEF Alone
<1> QED
  BY <1>6, <1>7

\* A step of one job that leaves the audio rows keeps the inductive invariant, if the place it
\* goes to asks for no more than the job has.
LEMMA MovePreserves ==
  ASSUME IInv, NEW j \in Jobs, Alone(j), JobsTyped', UNCHANGED jWhole, BookKept,
         UNCHANGED <<sourceVars, audioVars, requestVars>>,
         book' \in [BookKeys -> {"ABSENT", "CREATED", "SUCCEEDED", "FAILED"}],
         UNCHANGED troubles \/ Trouble,
         jPc'[j] \in {"lookup", "noop", "start", "build", "commit"} =>
           jTake'[j] \in 1..take[j[1]] /\ jStatus'[j] \notin {"SUCCEEDED", "FAILED"},
         jPc'[j] = "noop" => jVersion'[j] \in Versions /\ audio[j[1]][jVersion'[j]] = jTake'[j],
         jPc'[j] = "commit" => jVersion'[j] \in 1..current[j[1]] + 1,
         jPc'[j] \in {"fanin", "inflight", "trigger", "enqueue"} => jStatus'[j] = "SUCCEEDED",
         jPc'[j] # "done" => jTries'[j] < MaxAttempts,
         jStatus'[j] = "SUCCEEDED" =>
           jVersion'[j] \in Versions /\ jTake'[j] # 0 /\ audio[j[1]][jVersion'[j]] = jTake'[j],
         troubles' = 0 /\ jPc'[j] = "done" => jStatus'[j] \in {"SUCCEEDED", "FAILED"},
         troubles' = 0 /\ jStatus'[j] = "SUCCEEDED" /\ jWhole[j] =>
           \/ BookAsked' \/ jPc'[j] \in {"fanin", "inflight", "trigger"}
           \/ jStatus[j] = "SUCCEEDED" /\ (~Ready \/ jPc[j] \notin {"fanin", "inflight", "trigger"})
  PROVE  IInv'
<1>1. troubles' \in 0..MaxTroubles /\ (troubles' = 0 => troubles = 0)
  BY NumbersAssumption DEF Trouble, IInv, TypeOK
<1>2. TypeOK'
  BY <1>1 DEF IInv, TypeOK, JobsTyped, sourceVars, audioVars, requestVars
<1>3. TakesCounted' /\ RowsNumbered'
  BY DEF IInv, TakesCounted, RowsNumbered, sourceVars, audioVars
<1>4. DeliveryInStep'
  BY DEF IInv, DeliveryInStep, Alone, sourceVars, audioVars
<1>5. ResultNamed'
  BY DEF IInv, ResultNamed, Alone, audioVars
<1>6. NoJobLeftBehind'
  BY <1>1 DEF IInv, NoJobLeftBehind, Alone
<1>7. FanInPending'
  BY <1>1, FanInKept
<1> QED
  BY <1>2, <1>3, <1>4, <1>5, <1>6, <1>7 DEF IInv

-----------------------------------------------------------------------------
(* processAssembleChapterJob *)

\* What a job has when its delivery ends.
LEMMA LeaveTyped ==
  ASSUME IInv, NEW j \in Jobs, jPc[j] \notin {"absent", "done"}, UNCHANGED jWhole,
         NEW status \in {"ABSENT", "CREATED", "RUNNING", "SUCCEEDED", "FAILED"},
         \/ \E pc \in {"wait", "done"} : Leave(j, pc, status) /\ UNCHANGED jTries
         \/ Nack(j, status)
  PROVE  /\ JobsTyped' /\ Alone(j) /\ jStatus'[j] = status
         /\ jPc'[j] \in {"wait", "done"} /\ (jPc'[j] # "done" => jTries'[j] < MaxAttempts)
         /\ status = "SUCCEEDED" => jTake'[j] = jTake[j] /\ jVersion'[j] = jVersion[j]
<1> USE NumbersAssumption
<1>1. jTries[j] \in Nat /\ jTries[j] < MaxAttempts
  BY DEF IInv, TypeOK, DeliveryInStep
<1>2. PICK pc \in {"wait", "done"} :
        /\ Leave(j, pc, status)
        /\ \/ UNCHANGED jTries
           \/ jTries' = [jTries EXCEPT ![j] = @ + 1] /\ (pc = "wait" => ~(jTries[j] + 1 >= MaxAttempts))
  BY DEF Nack
<1>3. jTries[j] + 1 \in 0..MaxAttempts
  BY <1>1
<1>4. /\ jTries' \in [Jobs -> 0..MaxAttempts] /\ \A k \in Jobs \ {j} : jTries'[k] = jTries[k]
      /\ pc = "wait" => jTries'[j] < MaxAttempts
  <2>1. CASE UNCHANGED jTries
    BY <1>1, <2>1 DEF IInv, TypeOK
  <2>2. CASE jTries' = [jTries EXCEPT ![j] = @ + 1] /\ (pc = "wait" => ~(jTries[j] + 1 >= MaxAttempts))
    <3>1. pc = "wait" => jTries[j] + 1 < MaxAttempts
      BY <1>1, <2>2
    <3> QED
      BY <1>3, <2>2, <3>1 DEF IInv, TypeOK
  <2> QED
    BY <1>2, <2>1, <2>2
<1>5. /\ jPc' = [jPc EXCEPT ![j] = pc] /\ jStatus' = [jStatus EXCEPT ![j] = status]
      /\ jInTry' = [jInTry EXCEPT ![j] = FALSE]
      /\ jTake' = [jTake EXCEPT ![j] = IF status = "SUCCEEDED" THEN @ ELSE 0]
      /\ jVersion' = [jVersion EXCEPT ![j] = IF status = "SUCCEEDED" THEN @ ELSE 0]
  BY <1>2 DEF Leave, Goto
<1>6. /\ jPc' \in [Jobs -> JobPcs]
      /\ jStatus' \in [Jobs -> {"ABSENT", "CREATED", "RUNNING", "SUCCEEDED", "FAILED"}]
      /\ jInTry' \in [Jobs -> BOOLEAN] /\ jWhole' \in [Jobs -> BOOLEAN]
  BY <1>5 DEF IInv, TypeOK, JobPcs
<1>7. /\ jTake' \in [Jobs -> Takes \cup {0}]
      /\ jVersion' \in [Jobs -> {0} \cup Versions \cup {v + 1 : v \in Versions}]
  BY <1>5 DEF IInv, TypeOK
<1>8. JobsTyped'
  BY <1>4, <1>6, <1>7 DEF JobsTyped
<1>9. Alone(j) /\ jStatus'[j] = status /\ jPc'[j] = pc
      /\ (status = "SUCCEEDED" => jTake'[j] = jTake[j] /\ jVersion'[j] = jVersion[j])
  BY <1>4, <1>5 DEF IInv, TypeOK, Alone
<1> QED
  BY <1>4, <1>8, <1>9

\* The end of a delivery keeps the inductive invariant, if it leaves an outcome or a fault
\* behind, and does not give up the fan-in.
LEMMA LeavePreserves ==
  ASSUME IInv, NEW j \in Jobs, jPc[j] \notin {"absent", "done"},
         UNCHANGED <<jWhole, book, sourceVars, audioVars, requestVars>>,
         UNCHANGED troubles \/ Trouble,
         NEW status \in {jStatus[j], "FAILED"},
         \/ \E pc \in {"wait", "done"} : Leave(j, pc, status) /\ UNCHANGED jTries
         \/ Nack(j, status),
         troubles' = 0 /\ jPc'[j] = "done" => status \in {"SUCCEEDED", "FAILED"},
         troubles' = 0 /\ jPc[j] \in {"fanin", "inflight", "trigger"} /\ jWhole[j] =>
           BookAsked \/ ~Ready
  PROVE  IInv'
<1>1. status \in {"ABSENT", "CREATED", "RUNNING", "SUCCEEDED", "FAILED"}
  BY DEF IInv, TypeOK
<1>2. /\ JobsTyped' /\ Alone(j) /\ jStatus'[j] = status
      /\ jPc'[j] \in {"wait", "done"} /\ (jPc'[j] # "done" => jTries'[j] < MaxAttempts)
      /\ status = "SUCCEEDED" => jTake'[j] = jTake[j] /\ jVersion'[j] = jVersion[j]
  BY <1>1, LeaveTyped
<1>3. BookKept /\ (BookAsked => BookAsked')
  BY DEF BookKept, BookAsked
<1>4. book' \in [BookKeys -> {"ABSENT", "CREATED", "SUCCEEDED", "FAILED"}]
  BY DEF IInv, TypeOK
<1>5. jStatus'[j] = "SUCCEEDED" =>
        /\ jVersion'[j] \in Versions /\ jTake'[j] # 0 /\ audio[j[1]][jVersion'[j]] = jTake'[j]
        /\ jStatus[j] = "SUCCEEDED"
  BY <1>2 DEF IInv, ResultNamed
<1> QED
  BY <1>2, <1>3, <1>4, <1>5, MovePreserves

\* The steps that end a delivery keep the inductive invariant.
LEMMA EndPreserves ==
  ASSUME IInv, NEW j \in Jobs,
         Skip(j) \/ Incomplete(j) \/ Enqueue(j) \/ Fail(j) \/ Crash(j)
  PROVE  IInv'
<1>1. /\ jPc[j] \notin {"absent", "done"}
      /\ UNCHANGED <<jWhole, book, sourceVars, audioVars, requestVars>>
      /\ UNCHANGED troubles \/ Trouble
      /\ jPc[j] \in {"fanin", "inflight", "trigger"} => Trouble
  BY DEF Skip, Incomplete, Enqueue, Fail, Crash
<1>2. Trouble => troubles' # 0
  BY DEF Trouble, IInv, TypeOK
<1>3. CASE Skip(j) \/ Incomplete(j) \/ Enqueue(j) \/ Crash(j)
  <2>1. PICK status \in {jStatus[j], "FAILED"}, pc \in {"wait", "done"} :
          /\ Leave(j, pc, status) /\ UNCHANGED jTries
          /\ Trouble \/ status \in {"SUCCEEDED", "FAILED"}
    BY <1>3 DEF Skip, Incomplete, Enqueue, Crash, IInv, DeliveryInStep
  <2> QED
    BY <1>1, <1>2, <2>1, LeavePreserves
<1>4. CASE Fail(j)
  <2>1. PICK status \in {jStatus[j], "FAILED"} :
          /\ Nack(j, status)
          /\ jTries[j] + 1 >= MaxAttempts => status = "FAILED"
    BY <1>4 DEF Fail
  <2>2. jPc'[j] = "done" => jTries[j] + 1 >= MaxAttempts
    BY <2>1 DEF Nack, Leave, Goto, IInv, TypeOK
  <2> QED
    BY <1>1, <1>2, <2>1, <2>2, LeavePreserves
<1> QED
  BY <1>3, <1>4

\* A step that throws keeps the inductive invariant.
LEMMA ThrowPreserves ==
  ASSUME IInv, NEW j \in Jobs, TriggerConflict(j) \/ Fault(j)
  PROVE  IInv'
<1>1. /\ jPc[j] \notin {"absent", "done"}
      /\ UNCHANGED <<jWhole, book, sourceVars, audioVars, requestVars>>
      /\ UNCHANGED troubles \/ Trouble
  BY DEF TriggerConflict, Fault
<1>2. Trouble => troubles' # 0
  BY DEF Trouble, IInv, TypeOK
<1>3. Trouble \/ (jPc[j] = "trigger" /\ jStatus[j] = "SUCCEEDED" /\ BookAsked)
  <2>1. ASSUME TriggerConflict(j) PROVE BookAsked /\ jPc[j] = "trigger"
    <3>1. <<"fanin">> \in BookKeys /\ book[<<"fanin">>] # "ABSENT"
      BY <2>1 DEF TriggerConflict, KeyFree, BookKeys
    <3> QED
      BY <2>1, <3>1 DEF BookAsked, TriggerConflict
  <2> QED
    BY <2>1 DEF Fault, IInv, DeliveryInStep
<1>4. CASE Nack(j, jStatus[j])
  BY <1>1, <1>2, <1>3, <1>4, LeavePreserves
<1>5. CASE Goto(j, "fail") /\ UNCHANGED <<jStatus, jTries, jTake, jVersion, jInTry>>
  <2>1. JobsTyped' /\ Alone(j) /\ jPc'[j] = "fail"
    BY <1>1, <1>5 DEF Goto, IInv, TypeOK, JobsTyped, Alone, JobPcs
  <2>2. BookKept /\ (BookAsked => BookAsked')
    BY <1>1 DEF BookKept, BookAsked
  <2>3. book' \in [BookKeys -> {"ABSENT", "CREATED", "SUCCEEDED", "FAILED"}]
    BY <1>1 DEF IInv, TypeOK
  <2>4. jTries'[j] < MaxAttempts
    BY <1>1, <1>5 DEF IInv, DeliveryInStep
  <2>5. jStatus'[j] = "SUCCEEDED" =>
          jVersion'[j] \in Versions /\ jTake'[j] # 0 /\ audio[j[1]][jVersion'[j]] = jTake'[j]
    BY <1>5 DEF IInv, ResultNamed
  <2> QED
    BY <1>1, <1>2, <1>3, <2>1, <2>2, <2>3, <2>4, <2>5, MovePreserves
<1> QED
  BY <1>4, <1>5, Zenon DEF TriggerConflict, Fault, Throws

\* The steps up to the transaction keep the inductive invariant.
LEMMA BuildPreserves ==
  ASSUME IInv, NEW j \in Jobs,
         \/ Load(j) \/ Lookup(j) \/ Noop(j) \/ Start(j) \/ Build(j) \/ CommitConflict(j)
  PROVE  IInv'
<1>1. /\ jPc[j] \notin {"absent", "done", "fanin", "inflight", "trigger"}
      /\ UNCHANGED <<jWhole, jTries, book, sourceVars, audioVars, requestVars, troubles>>
  BY DEF Load, Lookup, Noop, Start, Build, CommitConflict
<1>2. j[1] \in Chapters
  BY JobParts
<1>3. BookKept /\ jTries'[j] < MaxAttempts
  BY <1>1 DEF BookKept, BookAsked, IInv, DeliveryInStep
<1>4. book' \in [BookKeys -> {"ABSENT", "CREATED", "SUCCEEDED", "FAILED"}]
  BY <1>1 DEF IInv, TypeOK
<1>5. CASE Load(j)
  <2>1. /\ jTake' = [jTake EXCEPT ![j] = take[j[1]]] /\ jPc' = [jPc EXCEPT ![j] = "lookup"]
        /\ UNCHANGED <<jStatus, jVersion, jInTry>> /\ jStatus[j] \notin {"SUCCEEDED", "FAILED"}
        /\ complete[j[1]]
    BY <1>5 DEF Load, Goto
  <2>2. take[j[1]] \in 1..take[j[1]] /\ take[j[1]] \in Takes
    <3>1. take[j[1]] \in 0..MaxTake[j[1]] /\ take[j[1]] # 0 /\ MaxTake[j[1]] \in Nat
      BY <1>2, <2>1, NumbersAssumption DEF IInv, TakesCounted
    <3>2. take[j[1]] \in 1..MaxTake[j[1]] /\ take[j[1]] \in 1..take[j[1]]
      BY <3>1
    <3> QED
      BY <1>2, <3>2, TakesAre
  <2>3. JobsTyped' /\ Alone(j)
    BY <1>1, <2>1, <2>2 DEF IInv, TypeOK, JobsTyped, Alone, JobPcs
  <2>4. jPc'[j] = "lookup" /\ jTake'[j] = take[j[1]]
    BY <2>1 DEF IInv, TypeOK
  <2> QED
    BY <1>1, <1>3, <1>4, <2>1, <2>2, <2>3, <2>4, MovePreserves
<1>6. CASE Lookup(j)
  <2> DEFINE v == VersionOf(j[1], jTake[j])
  <2>1. v = 0 \/ (v \in Versions /\ audio[j[1]][v] = jTake[j])
    BY Zenon DEF VersionOf
  <2>2. PICK pc \in {"start", "noop"} :
          /\ jVersion' = [jVersion EXCEPT ![j] = v] /\ jPc' = [jPc EXCEPT ![j] = pc]
          /\ pc = "noop" => v # 0
          /\ UNCHANGED <<jStatus, jTake, jInTry>> /\ jPc[j] = "lookup"
    BY <1>6 DEF Lookup, Goto
  <2> HIDE DEF v
  <2>3. JobsTyped' /\ Alone(j)
    BY <1>1, <2>1, <2>2 DEF IInv, TypeOK, JobsTyped, Alone, JobPcs
  <2>4. jPc'[j] = pc /\ jVersion'[j] = v
    BY <2>2 DEF IInv, TypeOK
  <2>5. jTake[j] \in 1..take[j[1]] /\ jStatus[j] \notin {"SUCCEEDED", "FAILED"}
    BY <2>2 DEF IInv, DeliveryInStep
  <2> QED
    BY <1>1, <1>3, <1>4, <2>1, <2>2, <2>3, <2>4, <2>5, MovePreserves
<1>7. CASE Noop(j)
  <2>1. /\ jStatus' = [jStatus EXCEPT ![j] = "SUCCEEDED"] /\ jPc' = [jPc EXCEPT ![j] = "fanin"]
        /\ UNCHANGED <<jTake, jVersion, jInTry>> /\ jPc[j] = "noop"
    BY <1>7 DEF Noop, Goto
  <2>2. JobsTyped' /\ Alone(j)
    BY <1>1, <2>1 DEF IInv, TypeOK, JobsTyped, Alone, JobPcs
  <2>3. jPc'[j] = "fanin" /\ jStatus'[j] = "SUCCEEDED"
    BY <2>1 DEF IInv, TypeOK
  <2>4. jVersion[j] \in Versions /\ audio[j[1]][jVersion[j]] = jTake[j] /\ jTake[j] # 0
    BY <2>1 DEF IInv, DeliveryInStep
  <2> QED
    BY <1>1, <1>3, <1>4, <2>1, <2>2, <2>3, <2>4, MovePreserves
<1>8. CASE Start(j)
  <2>1. /\ jStatus' = [jStatus EXCEPT ![j] = "RUNNING"] /\ jPc' = [jPc EXCEPT ![j] = "build"]
        /\ jInTry' = [jInTry EXCEPT ![j] = TRUE] /\ UNCHANGED <<jTake, jVersion>> /\ jPc[j] = "start"
    BY <1>8 DEF Start, Goto
  <2>2. JobsTyped' /\ Alone(j)
    BY <1>1, <2>1 DEF IInv, TypeOK, JobsTyped, Alone, JobPcs
  <2>3. jPc'[j] = "build" /\ jStatus'[j] = "RUNNING"
    BY <2>1 DEF IInv, TypeOK
  <2>4. jTake[j] \in 1..take[j[1]]
    BY <2>1 DEF IInv, DeliveryInStep
  <2> QED
    BY <1>1, <1>3, <1>4, <2>1, <2>2, <2>3, <2>4, MovePreserves
<1>9. CASE Build(j)
  <2> DEFINE n == NextVersion(j[1])
  <2>1. /\ jVersion' = [jVersion EXCEPT ![j] = n] /\ jPc' = [jPc EXCEPT ![j] = "commit"]
        /\ UNCHANGED <<jStatus, jTake, jInTry>> /\ jPc[j] = "build"
    BY <1>9 DEF Build, Goto
  <2>2. n = current[j[1]] + 1 /\ current[j[1]] \in Nat
    BY <1>2, NextVersionIs
  <2> HIDE DEF n
  <2>3. n \in Versions \cup {v + 1 : v \in Versions}
    <3>1. CASE current[j[1]] = 0
      <4>1. 1 \in 1..MaxTake[j[1]]
        BY <1>2, JobParts, NumbersAssumption
      <4> QED
        BY <1>2, <2>2, <3>1, <4>1, TakesAre
    <3>2. CASE current[j[1]] # 0
      <4>1. current[j[1]] \in Versions
        BY <1>2, <3>2 DEF IInv, TypeOK
      <4> QED
        BY <2>2, <4>1
    <3> QED
      BY <3>1, <3>2
  <2>4. JobsTyped' /\ Alone(j)
    BY <1>1, <2>1, <2>3 DEF IInv, TypeOK, JobsTyped, Alone, JobPcs
  <2>5. jPc'[j] = "commit" /\ jVersion'[j] = n
    BY <2>1 DEF IInv, TypeOK
  <2>6. jTake[j] \in 1..take[j[1]] /\ jStatus[j] \notin {"SUCCEEDED", "FAILED"}
    BY <2>1 DEF IInv, DeliveryInStep
  <2>7. n \in 1..current[j[1]] + 1
    BY <2>2
  <2> QED
    BY <1>1, <1>3, <1>4, <2>1, <2>4, <2>5, <2>6, <2>7, MovePreserves
<1>10. CASE CommitConflict(j)
  <2>1. /\ jPc' = [jPc EXCEPT ![j] = "fail"] /\ UNCHANGED <<jStatus, jTake, jVersion, jInTry>>
        /\ jPc[j] = "commit"
    BY <1>10 DEF CommitConflict, Goto
  <2>2. JobsTyped' /\ Alone(j)
    BY <1>1, <2>1 DEF IInv, TypeOK, JobsTyped, Alone, JobPcs
  <2>3. jPc'[j] = "fail"
    BY <2>1 DEF IInv, TypeOK
  <2>4. jStatus[j] \notin {"SUCCEEDED", "FAILED"}
    BY <2>1 DEF IInv, DeliveryInStep
  <2> QED
    BY <1>1, <1>3, <1>4, <2>1, <2>2, <2>3, <2>4, MovePreserves
<1> QED
  BY <1>5, <1>6, <1>7, <1>8, <1>9, <1>10

\* maybeTriggerAudiobookFanIn keeps the inductive invariant.
LEMMA FanInPreserves ==
  ASSUME IInv, NEW j \in Jobs, FanIn(j) \/ InFlight(j) \/ Trigger(j)
  PROVE  IInv'
<1>1. /\ jPc[j] \in {"fanin", "inflight", "trigger"}
      /\ UNCHANGED <<jWhole, jTries, sourceVars, audioVars, requestVars, troubles>>
  BY DEF FanIn, InFlight, Trigger
<1>2. jStatus[j] = "SUCCEEDED" /\ jTries[j] < MaxAttempts
  BY <1>1 DEF IInv, DeliveryInStep
<1>3. jVersion[j] \in Versions /\ jTake[j] # 0 /\ audio[j[1]][jVersion[j]] = jTake[j]
  BY <1>2 DEF IInv, ResultNamed
<1>4. ASSUME NEW pc \in {"inflight", "trigger", "enqueue"}, Goto(j, pc),
             UNCHANGED <<jStatus, jTake, jVersion, jInTry>>, BookKept,
             book' \in [BookKeys -> {"ABSENT", "CREATED", "SUCCEEDED", "FAILED"}],
             pc = "enqueue" => BookAsked'
      PROVE  IInv'
  <2>1. JobsTyped' /\ Alone(j)
    BY <1>1, <1>4 DEF Goto, IInv, TypeOK, JobsTyped, Alone, JobPcs
  <2>2. jPc'[j] = pc
    BY <1>4 DEF Goto, IInv, TypeOK
  <2> QED
    BY <1>1, <1>2, <1>3, <1>4, <2>1, <2>2, MovePreserves
<1>5. UNCHANGED book => BookKept /\ book' \in [BookKeys -> {"ABSENT", "CREATED", "SUCCEEDED", "FAILED"}]
  BY DEF BookKept, BookAsked, IInv, TypeOK
<1>6. CASE FanIn(j)
  <2>1. UNCHANGED book
    BY <1>6 DEF FanIn
  <2>2. CASE jWhole[j] /\ Ready
    <3>1. Goto(j, "inflight") /\ UNCHANGED <<jStatus, jTake, jVersion, jInTry>>
      BY <1>6, <2>2, Zenon DEF FanIn, Proceed
    <3> QED
      BY <1>4, <1>5, <2>1, <3>1
  <2>3. CASE ~(jWhole[j] /\ Ready)
    <3>1. Leave(j, "done", jStatus[j])
      BY <1>6, <2>3, Zenon DEF FanIn, Proceed
    <3> QED
      BY <1>1, <1>2, <2>1, <2>3, <3>1, LeavePreserves
  <2> QED
    BY <2>2, <2>3
<1>7. CASE InFlight(j)
  <2>1. UNCHANGED book
    BY <1>7 DEF InFlight
  <2>2. CASE \A k \in BookKeys : book[k] # "CREATED"
    <3>1. Goto(j, "trigger") /\ UNCHANGED <<jStatus, jTake, jVersion, jInTry>>
      BY <1>7, <2>2, Zenon DEF InFlight, Proceed
    <3> QED
      BY <1>4, <1>5, <2>1, <3>1
  <2>3. CASE ~(\A k \in BookKeys : book[k] # "CREATED")
    <3>1. Leave(j, "done", jStatus[j])
      BY <1>7, <2>3, Zenon DEF InFlight, Proceed
    <3>2. BookAsked
      BY <2>3 DEF BookAsked
    <3> QED
      BY <1>1, <1>2, <2>1, <3>1, <3>2, LeavePreserves
  <2> QED
    BY <2>2, <2>3
<1>8. CASE Trigger(j)
  <2>1. /\ book' = [book EXCEPT ![<<"fanin">>] = "CREATED"] /\ Goto(j, "enqueue")
        /\ UNCHANGED <<jStatus, jTake, jVersion, jInTry>>
    BY <1>8 DEF Trigger
  <2>2. <<"fanin">> \in BookKeys
    BY DEF BookKeys
  <2>3. book' \in [BookKeys -> {"ABSENT", "CREATED", "SUCCEEDED", "FAILED"}] /\ book'[<<"fanin">>] = "CREATED"
    BY <2>1, <2>2 DEF IInv, TypeOK
  <2>4. BookAsked' /\ BookKept
    BY <2>2, <2>3 DEF BookAsked, BookKept
  <2> QED
    BY <1>4, <2>1, <2>3, <2>4
<1> QED
  BY <1>6, <1>7, <1>8

\* The transaction that creates the audio row keeps the inductive invariant: its version is the
\* next one, and there is room for it.
LEMMA CommitPreserves ==
  ASSUME IInv, NEW j \in Jobs, Commit(j)
  PROVE  IInv'
<1> DEFINE c == j[1]
           n == jVersion[j]
           t == jTake[j]
<1>1. c \in Chapters
  BY JobParts
<1>2. /\ jPc[j] = "commit" /\ VersionOf(c, t) = 0 /\ audio[c][n] = 0
      /\ audio' = [audio EXCEPT ![c][n] = t] /\ current' = [current EXCEPT ![c] = n]
      /\ jStatus' = [jStatus EXCEPT ![j] = "SUCCEEDED"] /\ jPc' = [jPc EXCEPT ![j] = "fanin"]
      /\ UNCHANGED <<jWhole, jTries, jTake, jVersion, jInTry>>
      /\ UNCHANGED <<sourceVars, book, requestVars, troubles>>
  BY DEF Commit, RowFree, Goto
<1>3. t \in 1..take[c] /\ n \in 1..current[c] + 1 /\ take[c] \in Nat /\ take[c] <= MaxTake[c]
      /\ MaxTake[c] \in Nat /\ current[c] \in 0..take[c]
  BY <1>1, <1>2, NumbersAssumption DEF IInv, DeliveryInStep, TakesCounted, RowsNumbered
<1>4. \A v \in Versions : audio[c][v] # t
  <2> SUFFICES ASSUME NEW v \in Versions, audio[c][v] = t PROVE FALSE
    OBVIOUS
  <2>1. VersionOf(c, t) = CHOOSE w \in Versions : audio[c][w] = t
    BY DEF VersionOf
  <2>2. VersionOf(c, t) \in Versions
    BY <2>1
  <2> QED
    BY <1>2, <2>2, TakesAre
<1>5. current[c] + 1 <= take[c]
  BY <1>1, <1>3, <1>4, RoomForTake
<1>6. n \in Nat /\ n \in 1..MaxTake[c]
  BY <1>3, <1>5
<1>7. n \in Versions /\ t \in Takes
  <2>1. t \in 1..MaxTake[c]
    BY <1>3
  <2> QED
    BY <1>1, <1>6, <2>1, TakesAre
<1>8. n = current[c] + 1
  <2>1. ~(n <= current[c])
    BY <1>1, <1>2, <1>7 DEF IInv, RowsNumbered
  <2> QED
    BY <1>3, <1>6, <2>1
<1> HIDE DEF c, n, t
<1>9. /\ \A d \in Chapters \ {c} : audio'[d] = audio[d] /\ current'[d] = current[d]
      /\ current'[c] = n
      /\ \A v \in Versions : audio'[c][v] = IF v = n THEN t ELSE audio[c][v]
      /\ audio' \in [Chapters -> [Versions -> Takes \cup {0}]]
      /\ current' \in [Chapters -> Versions \cup {0}]
  <2> DEFINE row == [audio[c] EXCEPT ![n] = t]
  <2>1. audio' = [audio EXCEPT ![c] = row]
    BY <1>2
  <2>2. audio[c] \in [Versions -> Takes \cup {0}]
    BY <1>1 DEF IInv, TypeOK
  <2>3. /\ row \in [Versions -> Takes \cup {0}]
        /\ \A v \in Versions : row[v] = IF v = n THEN t ELSE audio[c][v]
    BY <1>7, <2>2
  <2> HIDE DEF row
  <2>4. audio \in [Chapters -> [Versions -> Takes \cup {0}]] /\ current \in [Chapters -> Versions \cup {0}]
    BY DEF IInv, TypeOK
  <2> QED
    BY <1>1, <1>2, <1>7, <2>1, <2>3, <2>4
<1>10. JobsTyped' /\ Alone(j) /\ jPc'[j] = "fanin" /\ jStatus'[j] = "SUCCEEDED"
  BY <1>2 DEF IInv, TypeOK, JobsTyped, Alone, JobPcs
<1>11. TypeOK'
  BY <1>2, <1>9, <1>10 DEF IInv, TypeOK, JobsTyped, sourceVars, requestVars
<1>12. TakesCounted' /\ take' = take
  BY <1>2 DEF IInv, TakesCounted, sourceVars
<1>13. RowsNumbered'
  <2> SUFFICES ASSUME NEW d \in Chapters
               PROVE  /\ current'[d] \in 0..take[d]
                      /\ \A v \in Versions :
                           /\ audio'[d][v] \in 0..take[d]
                           /\ audio'[d][v] # 0 <=> v <= current'[d]
                           /\ \A w \in Versions : audio'[d][v] = audio'[d][w] => v = w \/ audio'[d][v] = 0
    BY <1>12 DEF RowsNumbered
  <2>1. /\ current[d] \in 0..take[d]
        /\ \A v \in Versions :
             /\ audio[d][v] \in 0..take[d]
             /\ audio[d][v] # 0 <=> v <= current[d]
             /\ \A w \in Versions : audio[d][v] = audio[d][w] => v = w \/ audio[d][v] = 0
    BY DEF IInv, RowsNumbered
  <2>2. CASE d # c
    BY <1>9, <2>1, <2>2
  <2>3. CASE d = c
    <3>1. \A v \in Versions : v \in Nat
      BY TakesAre
    <3>2. t \in 0..take[c] /\ t # 0 /\ n \in 0..take[c]
      BY <1>3, <1>5, <1>8
    <3>3. \A v \in Versions : audio'[c][v] \in 0..take[c] /\ (audio'[c][v] # 0 <=> v <= n)
      <4> SUFFICES ASSUME NEW v \in Versions
                   PROVE  audio'[c][v] \in 0..take[c] /\ (audio'[c][v] # 0 <=> v <= n)
        OBVIOUS
      <4>1. audio[c][v] \in 0..take[c] /\ (audio[c][v] # 0 <=> v <= current[c])
        BY <2>1, <2>3
      <4>2. v \in Nat /\ current[c] \in Nat /\ (v <= n <=> v <= current[c] \/ v = n)
        BY <1>3, <1>8, <3>1
      <4>3. audio'[c][v] = IF v = n THEN t ELSE audio[c][v]
        BY <1>9
      <4> QED
        BY <3>2, <4>1, <4>2, <4>3
    <3>4. \A v, w \in Versions : audio'[c][v] = audio'[c][w] => v = w \/ audio'[c][v] = 0
      BY <1>4, <1>9, <2>1, <2>3
    <3> QED
      BY <1>9, <2>3, <3>2, <3>3, <3>4
  <2> QED
    BY <2>2, <2>3
<1>14. \A d \in Chapters, v \in Versions : audio[d][v] # 0 => audio'[d][v] = audio[d][v]
  BY <1>2, <1>9 DEF c, n
<1>15. \A d \in Chapters : current[d] <= current'[d] /\ current[d] \in Nat /\ current'[d] \in Nat
  <2>1. \A d \in Chapters : current[d] \in Nat
    BY NextVersionIs
  <2> QED
    BY <1>6, <1>8, <1>9, <2>1
<1>16. \A k \in Jobs : k[1] \in Chapters
  BY JobParts
<1>17. DeliveryInStep'
  <2> SUFFICES ASSUME NEW k \in Jobs
               PROVE  /\ jPc'[k] \in {"lookup", "noop", "start", "build", "commit"} =>
                           jTake[k] \in 1..take[k[1]] /\ jStatus'[k] \notin {"SUCCEEDED", "FAILED"}
                      /\ jPc'[k] = "noop" =>
                           jVersion[k] \in Versions /\ audio'[k[1]][jVersion[k]] = jTake[k]
                      /\ jPc'[k] = "commit" => jVersion[k] \in 1..current'[k[1]] + 1
                      /\ jPc'[k] \in {"fanin", "inflight", "trigger", "enqueue"} => jStatus'[k] = "SUCCEEDED"
                      /\ jPc'[k] # "done" => jTries[k] < MaxAttempts
    BY <1>2, <1>12 DEF DeliveryInStep
  <2>1. CASE k = j
    BY <1>2, <1>10, <2>1 DEF IInv, DeliveryInStep
  <2>2. CASE k # j
    <3>1. jPc'[k] = jPc[k] /\ jStatus'[k] = jStatus[k]
      BY <1>10, <2>2 DEF Alone
    <3>2. /\ jPc[k] \in {"lookup", "noop", "start", "build", "commit"} =>
               jTake[k] \in 1..take[k[1]] /\ jStatus[k] \notin {"SUCCEEDED", "FAILED"}
          /\ jPc[k] = "noop" => jVersion[k] \in Versions /\ audio[k[1]][jVersion[k]] = jTake[k]
          /\ jPc[k] = "commit" => jVersion[k] \in 1..current[k[1]] + 1
          /\ jPc[k] \in {"fanin", "inflight", "trigger", "enqueue"} => jStatus[k] = "SUCCEEDED"
          /\ jPc[k] # "done" => jTries[k] < MaxAttempts
      BY DEF IInv, DeliveryInStep
    <3>3. jPc[k] = "noop" => audio'[k[1]][jVersion[k]] = jTake[k]
      <4>1. jTake[k] \in 1..take[k[1]] => jTake[k] # 0
        OBVIOUS
      <4> QED
        BY <1>14, <1>16, <3>2, <4>1
    <3>4. jPc[k] = "commit" => jVersion[k] \in 1..current'[k[1]] + 1
      BY <1>15, <1>16, <3>2
    <3> QED
      BY <3>1, <3>2, <3>3, <3>4
  <2> QED
    BY <2>1, <2>2
<1>18. ResultNamed'
  <2> SUFFICES ASSUME NEW k \in Jobs, jStatus'[k] = "SUCCEEDED"
               PROVE  jVersion[k] \in Versions /\ jTake[k] # 0 /\ audio'[k[1]][jVersion[k]] = jTake[k]
    BY <1>2 DEF ResultNamed
  <2>1. CASE k = j
    BY <1>3, <1>7, <1>9, <2>1 DEF c, n, t
  <2>2. CASE k # j
    <3>1. jVersion[k] \in Versions /\ jTake[k] # 0 /\ audio[k[1]][jVersion[k]] = jTake[k]
      BY <1>10, <2>2 DEF Alone, IInv, ResultNamed
    <3> QED
      BY <1>14, <1>16, <3>1
  <2> QED
    BY <2>1, <2>2
<1>19. NoJobLeftBehind'
  BY <1>2, <1>10 DEF Alone, IInv, NoJobLeftBehind
<1>20. FanInPending'
  <2>1. BookKept
    BY <1>2 DEF BookKept, BookAsked
  <2> QED
    BY <1>2, <1>10, <2>1, FanInKept
<1> QED
  BY <1>11, <1>12, <1>13, <1>17, <1>18, <1>19, <1>20 DEF IInv

-----------------------------------------------------------------------------
(* The chunks, the audiobook job and startAssembly *)

\* New chunks, and the end of the audiobook's job, keep the inductive invariant.
LEMMA OutsidePreserves ==
  ASSUME IInv,
         \/ \E c \in Chapters : Synthesise(c) \/ Withdraw(c)
         \/ \E k \in BookKeys : BookJobEnds(k)
  PROVE  IInv'
<1>1. UNCHANGED <<audioVars, requestVars, jobVars, troubles>>
  BY DEF Synthesise, Withdraw, BookJobEnds
<1>2. ASSUME NEW c \in Chapters, Synthesise(c) \/ Withdraw(c) PROVE IInv'
  <2>1. take[c] \in 0..MaxTake[c] /\ take[c] < MaxTake[c] /\ MaxTake[c] \in Nat
    BY <1>2, NumbersAssumption DEF Synthesise, Withdraw, IInv, TakesCounted
  <2>2. take[c] + 1 \in 0..MaxTake[c] /\ take[c] + 1 # 0 /\ take[c] + 1 \in Takes
    <3>1. take[c] + 1 \in 1..MaxTake[c]
      BY <2>1
    <3> QED
      BY <3>1, TakesAre
  <2>3. /\ \/ take' = take
           \/ take' = [take EXCEPT ![c] = take[c] + 1] /\ complete' = [complete EXCEPT ![c] = TRUE]
        /\ \/ complete' = [complete EXCEPT ![c] = TRUE] /\ take' = [take EXCEPT ![c] = take[c] + 1]
           \/ complete' = [complete EXCEPT ![c] = FALSE]
        /\ book' = book
    BY <1>2 DEF Synthesise, Withdraw
  <2>4. /\ take' \in [Chapters -> Takes \cup {0}] /\ complete' \in [Chapters -> BOOLEAN]
        /\ \A d \in Chapters : take'[d] = take[d] \/ (d = c /\ take'[d] = take[c] + 1)
        /\ \A d \in Chapters : complete'[d] => complete[d] \/ (d = c /\ take'[d] = take[c] + 1)
    BY <2>2, <2>3 DEF IInv, TypeOK
  <2>5. TakesCounted'
    BY <2>2, <2>4 DEF IInv, TakesCounted
  <2>6. \A d \in Chapters : take[d] <= take'[d]
    <3>1. \A d \in Chapters : take[d] \in Nat
      BY NumbersAssumption DEF IInv, TakesCounted
    <3> QED
      BY <2>4, <3>1
  <2>7. BookKept
    BY <2>3 DEF BookKept, BookAsked
  <2>8. RowsNumbered' /\ DeliveryInStep' /\ ResultNamed' /\ NoJobLeftBehind' /\ FanInPending'
    BY <1>1, <2>5, <2>6, <2>7, JobsKept
  <2>9. TypeOK'
    BY <1>1, <2>3, <2>4 DEF IInv, TypeOK, audioVars, requestVars, jobVars
  <2> QED
    BY <2>5, <2>8, <2>9 DEF IInv
<1>3. ASSUME NEW k \in BookKeys, BookJobEnds(k) PROVE IInv'
  <2>1. PICK outcome \in {"SUCCEEDED", "FAILED"} : book' = [book EXCEPT ![k] = outcome]
    BY <1>3 DEF BookJobEnds
  <2>2. book' \in [BookKeys -> {"ABSENT", "CREATED", "SUCCEEDED", "FAILED"}] /\ book'[k] = outcome
    BY <2>1 DEF IInv, TypeOK
  <2>3. BookKept
    BY <2>2 DEF BookKept, BookAsked
  <2>4. UNCHANGED sourceVars
    BY <1>3 DEF BookJobEnds
  <2>5. TakesCounted' /\ \A d \in Chapters : take[d] <= take'[d]
    BY <2>4, NumbersAssumption DEF IInv, TakesCounted, sourceVars
  <2>6. RowsNumbered' /\ DeliveryInStep' /\ ResultNamed' /\ NoJobLeftBehind' /\ FanInPending'
    BY <1>1, <2>3, <2>5, JobsKept
  <2>7. TypeOK'
    BY <1>1, <2>2, <2>4 DEF IInv, TypeOK, sourceVars, audioVars, requestVars, jobVars
  <2> QED
    BY <2>5, <2>6, <2>7 DEF IInv
<1> QED
  BY <1>2, <1>3

\* The types of the requests.
RequestsTyped ==
  /\ rPc \in [Clients -> RequestPcs]
  /\ rWhole \in [Clients -> BOOLEAN] /\ rForce \in [Clients -> BOOLEAN]
  /\ rTake \in [Clients -> [Chapters -> Takes \cup {0}]]
  /\ rPlan \in [Clients -> SUBSET Chapters] /\ requests \in 0..MaxRequests

\* The end of a request leaves the variables of requests with their types.
LEMMA RequestTyped ==
  ASSUME IInv, NEW r \in Clients, REnd(r)
  PROVE  RequestsTyped'
<1>1. rPc' \in [Clients -> RequestPcs] /\ requests' \in 0..MaxRequests
  BY DEF REnd, RGoto, IInv, TypeOK, RequestPcs
<1>2. rWhole' \in [Clients -> BOOLEAN] /\ rForce' \in [Clients -> BOOLEAN]
  BY DEF REnd, IInv, TypeOK
<1>3. rTake' \in [Clients -> [Chapters -> Takes \cup {0}]]
  <2>1. [c \in Chapters |-> 0] \in [Chapters -> Takes \cup {0}]
    OBVIOUS
  <2> QED
    BY <2>1, Zenon DEF REnd, IInv, TypeOK
<1>4. rPlan' \in [Clients -> SUBSET Chapters]
  BY DEF REnd, IInv, TypeOK
<1> QED
  BY <1>1, <1>2, <1>3, <1>4 DEF RequestsTyped

\* A request that creates no chapter job keeps the inductive invariant.
LEMMA RequestPreserves ==
  ASSUME IInv, NEW r \in Clients,
         \/ \E body \in Requests : RRead(r, body)
         \/ RDecide(r) \/ RCommitConflict(r) \/ RBook(r)
  PROVE  IInv'
<1>1. UNCHANGED <<sourceVars, audioVars, jobVars, troubles>>
  BY DEF RRead, RDecide, RCommitConflict, RBook
<1>2. RequestsTyped'
  <2>1. CASE REnd(r)
    BY <2>1, RequestTyped
  <2>2. ASSUME NEW body \in Requests, RRead(r, body)
        PROVE  RequestsTyped'
    <3> DEFINE candidates == {c \in body.chapters : complete[c]}
               read == [c \in Chapters |-> IF c \in candidates THEN take[c] ELSE 0]
    <3>1. body.whole \in BOOLEAN /\ body.force \in BOOLEAN
      BY RequestsAssumption
    <3>2. read \in [Chapters -> Takes \cup {0}]
      BY DEF IInv, TypeOK
    <3>3. /\ requests < MaxRequests /\ requests' = requests + 1
          /\ rPc' = [rPc EXCEPT ![r] = "decide"]
          /\ rWhole' = [rWhole EXCEPT ![r] = body.whole]
          /\ rForce' = [rForce EXCEPT ![r] = body.force]
          /\ rTake' = [rTake EXCEPT ![r] = read] /\ rPlan' = rPlan
      BY <2>2, Zenon DEF RRead, RGoto
    <3> HIDE DEF read
    <3>4. requests' \in 0..MaxRequests
      BY <3>3, NumbersAssumption DEF IInv, TypeOK
    <3>5. rPc' \in [Clients -> RequestPcs] /\ rTake' \in [Clients -> [Chapters -> Takes \cup {0}]]
      BY <3>2, <3>3 DEF IInv, TypeOK, RequestPcs
    <3>6. /\ rWhole' \in [Clients -> BOOLEAN] /\ rForce' \in [Clients -> BOOLEAN]
          /\ rPlan' \in [Clients -> SUBSET Chapters]
      BY <3>1, <3>3 DEF IInv, TypeOK
    <3> QED
      BY <3>4, <3>5, <3>6 DEF RequestsTyped
  <2>3. ASSUME RDecide(r), ~REnd(r) PROVE RequestsTyped'
    <3>1. PICK pc \in {"book", "commit"} :
            /\ rPc' = [rPc EXCEPT ![r] = pc] /\ rPlan' = [rPlan EXCEPT ![r] = Outdated(r)]
            /\ UNCHANGED <<rWhole, rForce, rTake, requests>>
      BY <2>3 DEF RDecide, RGoto
    <3>2. Outdated(r) \in SUBSET Chapters
      BY DEF Outdated
    <3> QED
      BY <3>1, <3>2 DEF IInv, TypeOK, RequestPcs, RequestsTyped
  <2> QED
    BY <2>1, <2>2, <2>3 DEF RCommitConflict, RBook
<1>3. BookKept /\ book' \in [BookKeys -> {"ABSENT", "CREATED", "SUCCEEDED", "FAILED"}]
  <2>1. CASE UNCHANGED book
    BY <2>1 DEF BookKept, BookAsked, IInv, TypeOK
  <2>2. ASSUME RBook(r), book' # book
        PROVE  BookKept /\ book' \in [BookKeys -> {"ABSENT", "CREATED", "SUCCEEDED", "FAILED"}]
    <3> DEFINE k == <<"api", current>>
    <3>1. Ready /\ book' = [book EXCEPT ![k] = "CREATED"]
      BY <2>2 DEF RBook
    <3>2. k \in BookKeys
      <4>1. \A c \in Chapters : current[c] \in Versions
        BY <3>1 DEF Ready, IInv, TypeOK
      <4>2. current \in [Chapters -> Versions]
        BY <4>1 DEF IInv, TypeOK
      <4> QED
        BY <4>2 DEF BookKeys
    <3> HIDE DEF k
    <3>3. book' \in [BookKeys -> {"ABSENT", "CREATED", "SUCCEEDED", "FAILED"}] /\ book'[k] = "CREATED"
      BY <3>1, <3>2 DEF IInv, TypeOK
    <3> QED
      BY <3>2, <3>3 DEF BookKept, BookAsked
  <2> QED
    BY <2>1, <2>2 DEF RRead, RDecide, RCommitConflict
<1>4. TakesCounted' /\ \A d \in Chapters : take[d] <= take'[d]
  BY <1>1, NumbersAssumption DEF IInv, TakesCounted, sourceVars
<1>5. RowsNumbered' /\ DeliveryInStep' /\ ResultNamed' /\ NoJobLeftBehind' /\ FanInPending'
  BY <1>1, <1>3, <1>4, JobsKept
<1>6. TypeOK'
  BY <1>1, <1>2, <1>3 DEF IInv, TypeOK, RequestsTyped, sourceVars, audioVars, jobVars
<1> QED
  BY <1>4, <1>5, <1>6 DEF IInv

\* The transaction that creates the planned jobs keeps the inductive invariant.
LEMMA PlanPreserves ==
  ASSUME IInv, NEW r \in Clients, RCommit(r)
  PROVE  IInv'
<1>1. /\ REnd(r) /\ UNCHANGED <<sourceVars, audioVars, book, jTake, jVersion, jInTry, troubles>>
      /\ \A j \in Planned(r) : KeyFree(jStatus[j])
      /\ jStatus' = [j \in Jobs |-> IF j \in Planned(r) THEN "CREATED" ELSE jStatus[j]]
      /\ jWhole' = [j \in Jobs |-> IF j \in Planned(r) THEN rWhole[r] ELSE jWhole[j]]
      /\ jPc' = [j \in Jobs |-> IF j \in Planned(r) THEN "wait" ELSE jPc[j]]
      /\ jTries' = [j \in Jobs |-> IF j \in Planned(r) THEN 0 ELSE jTries[j]]
  BY DEF RCommit
<1>2. \A j \in Jobs :
        \/ /\ jStatus'[j] = "CREATED" /\ jPc'[j] = "wait" /\ jTries'[j] = 0
           /\ jStatus[j] # "SUCCEEDED"
        \/ jStatus'[j] = jStatus[j] /\ jPc'[j] = jPc[j] /\ jTries'[j] = jTries[j] /\ jWhole'[j] = jWhole[j]
  BY <1>1 DEF KeyFree
<1>3. 0 \in 0..MaxAttempts /\ 0 < MaxAttempts
  BY NumbersAssumption
<1>4. JobsTyped'
  <2>1. jStatus' \in [Jobs -> {"ABSENT", "CREATED", "RUNNING", "SUCCEEDED", "FAILED"}] /\ jPc' \in [Jobs -> JobPcs]
    BY <1>1 DEF IInv, TypeOK, JobPcs
  <2>2. jWhole' \in [Jobs -> BOOLEAN]
    BY <1>1 DEF IInv, TypeOK
  <2>3. jTries' \in [Jobs -> 0..MaxAttempts]
    BY <1>1, <1>3 DEF IInv, TypeOK
  <2> QED
    BY <1>1, <2>1, <2>2, <2>3 DEF IInv, TypeOK, JobsTyped
<1>5. TypeOK'
  <2>1. RequestsTyped'
    BY <1>1, RequestTyped
  <2> QED
    BY <1>1, <1>4, <2>1 DEF IInv, TypeOK, JobsTyped, RequestsTyped, sourceVars, audioVars
<1>6. TakesCounted' /\ RowsNumbered'
  BY <1>1 DEF IInv, TakesCounted, RowsNumbered, sourceVars, audioVars
<1>7. DeliveryInStep'
  BY <1>1, <1>2, <1>3 DEF IInv, DeliveryInStep, sourceVars, audioVars
<1>8. ResultNamed' /\ NoJobLeftBehind'
  BY <1>1, <1>2 DEF IInv, ResultNamed, NoJobLeftBehind, audioVars
<1>9. FanInPending'
  <2> SUFFICES ASSUME troubles = 0, NEW s \in [Chapters -> Takes], Covers(s)'
               PROVE  BookAsked' \/ \E c \in Chapters : jPc'[<<c, s[c]>>] \in {"fanin", "inflight", "trigger"}
    BY <1>1 DEF FanInPending
  <2>1. \A c \in Chapters :
          /\ s[c] <= MaxTake[c] /\ <<c, s[c]>> \in Jobs
          /\ jStatus'[<<c, s[c]>>] = "SUCCEEDED" /\ jWhole'[<<c, s[c]>>]
    BY JobParts DEF Covers
  <2>2. \A c \in Chapters :
          /\ jStatus[<<c, s[c]>>] = "SUCCEEDED" /\ jWhole[<<c, s[c]>>]
          /\ jPc'[<<c, s[c]>>] = jPc[<<c, s[c]>>]
    BY <1>2, <2>1
  <2>3. Covers(s)
    BY <2>1, <2>2 DEF Covers
  <2> QED
    BY <1>1, <2>2, <2>3 DEF IInv, FanInPending, BookAsked
<1> QED
  BY <1>5, <1>6, <1>7, <1>8, <1>9 DEF IInv

-----------------------------------------------------------------------------
(* The invariant of the specification *)

\* Every initial state satisfies the inductive invariant.
LEMMA InitSatisfies == Init => IInv
<1> SUFFICES ASSUME Init PROVE IInv
  OBVIOUS
<1> USE NumbersAssumption DEF Init
<1>1. TypeOK
  BY DEF TypeOK, RequestPcs, JobPcs
<1>2. TakesCounted
  BY DEF TakesCounted
<1>3. RowsNumbered
  <2>1. \A v \in Versions : v \in Nat /\ v # 0
    BY TakesAre
  <2> QED
    BY <2>1 DEF RowsNumbered
<1>4. DeliveryInStep /\ ResultNamed /\ NoJobLeftBehind
  BY DEF DeliveryInStep, ResultNamed, NoJobLeftBehind
<1>5. FanInPending
  <2> SUFFICES ASSUME NEW s \in [Chapters -> Takes], Covers(s) PROVE FALSE
    BY DEF FanInPending
  <2>1. PICK c \in Chapters : TRUE
    BY ChaptersAssumption
  <2>2. <<c, s[c]>> \in Jobs /\ jStatus[<<c, s[c]>>] = "SUCCEEDED"
    BY JobParts DEF Covers
  <2> QED
    BY <2>2
<1> QED
  BY <1>1, <1>2, <1>3, <1>4, <1>5 DEF IInv

\* Every step, and every stuttering step, keeps the inductive invariant.
LEMMA NextPreserves == IInv /\ [Next]_vars => IInv'
<1> SUFFICES ASSUME IInv, [Next]_vars PROVE IInv'
  OBVIOUS
<1>1. CASE Next
  <2>1. CASE \/ \E c \in Chapters : Synthesise(c) \/ Withdraw(c)
             \/ \E k \in BookKeys : BookJobEnds(k)
    BY <2>1, OutsidePreserves
  <2>2. ASSUME NEW r \in Clients,
               \/ \E body \in Requests : RRead(r, body)
               \/ RDecide(r) \/ RCommit(r) \/ RCommitConflict(r) \/ RBook(r)
        PROVE  IInv'
    BY <2>2, RequestPreserves, PlanPreserves
  <2>3. ASSUME NEW j \in Jobs, JobStep(j) \/ Fault(j) \/ Crash(j) PROVE IInv'
    BY <2>3, EndPreserves, ThrowPreserves, BuildPreserves, FanInPreserves, CommitPreserves DEF JobStep
  <2> QED
    BY <1>1, <2>1, <2>2, <2>3 DEF Next
<1>2. CASE UNCHANGED vars
  <2> USE <1>2 DEF vars, sourceVars, audioVars, requestVars, jobVars
  <2>1. BookKept
    BY DEF BookKept, BookAsked
  <2>2. TakesCounted' /\ \A d \in Chapters : take[d] <= take'[d]
    BY NumbersAssumption DEF IInv, TakesCounted
  <2>3. RowsNumbered' /\ DeliveryInStep' /\ ResultNamed' /\ NoJobLeftBehind' /\ FanInPending'
    BY <2>1, <2>2, JobsKept
  <2>4. TypeOK'
    BY DEF IInv, TypeOK
  <2> QED
    BY <2>2, <2>3, <2>4 DEF IInv
<1> QED
  BY <1>1, <1>2

\* IInv holds in every state the program reaches, for every value of the constants.
THEOREM Invariance == Spec => []IInv
  BY InitSatisfies, NextPreserves, PTL DEF Spec

\* The rows, the requests and the deliveries keep their types.
THEOREM TypeCorrect == Spec => []TypeOK
<1>1. IInv => TypeOK
  BY DEF IInv
<1> QED
  BY <1>1, Invariance, PTL

\* A SUCCEEDED chapter job names a chapter_audio row of exactly the chunks it read, however
\* many jobs of the chapter raced for the version and the manifest.
THEOREM AudiosMatchTheirJobs == Spec => []AudioOfResult
<1>1. IInv => AudioOfResult
  <2>1. \A v \in Versions : v # 0
    BY TakesAre
  <2> QED
    BY <2>1 DEF IInv, ResultNamed, AudioOfResult
<1> QED
  BY <1>1, Invariance, PTL

\* Without a fault or a death, no chapter job is left without an outcome when its message is
\* gone.
THEOREM JobsHaveOutcomes == Spec => []NoJobLeftBehind
<1>1. IInv => NoJobLeftBehind
  BY DEF IInv
<1> QED
  BY <1>1, Invariance, PTL

\* Without a fault or a death, jobs that cover every chapter of the book with scope AUDIOBOOK do
\* not all end without the audiobook having been asked for.
THEOREM FanInIsNotLost == Spec => []FanInNotLost
<1>1. IInv => FanInNotLost
  <2> SUFFICES ASSUME IInv, troubles = 0,
                      \A c \in Chapters : \E t \in 1..MaxTake[c] :
                        jStatus[<<c, t>>] = "SUCCEEDED" /\ jWhole[<<c, t>>] /\ jPc[<<c, t>>] = "done"
               PROVE  BookAsked
    BY DEF FanInNotLost, BookAsked
  <2> DEFINE Over(c, t) ==
               jStatus[<<c, t>>] = "SUCCEEDED" /\ jWhole[<<c, t>>] /\ jPc[<<c, t>>] = "done"
             Chosen(c) == CHOOSE t \in 1..MaxTake[c] : Over(c, t)
             s == [c \in Chapters |-> Chosen(c)]
  <2>1. \A c \in Chapters : Chosen(c) \in 1..MaxTake[c] /\ Over(c, Chosen(c))
    OBVIOUS
  <2> HIDE DEF Chosen
  <2>2. \A c \in Chapters : Chosen(c) \in Takes /\ Chosen(c) <= MaxTake[c]
    <3> SUFFICES ASSUME NEW c \in Chapters PROVE Chosen(c) \in Takes /\ Chosen(c) <= MaxTake[c]
      OBVIOUS
    <3>1. MaxTake[c] \in Nat /\ Chosen(c) \in 1..MaxTake[c]
      BY <2>1, NumbersAssumption
    <3>2. Chosen(c) \in Takes
      BY <3>1, TakesAre, Zenon
    <3> QED
      BY <3>1, <3>2
  <2>3. s \in [Chapters -> Takes] /\ \A c \in Chapters : s[c] = Chosen(c)
    BY <2>2
  <2> HIDE DEF s
  <2>4. \A c \in Chapters : s[c] <= MaxTake[c] /\ Over(c, s[c])
    BY <2>1, <2>2, <2>3
  <2>5. Covers(s) /\ \A c \in Chapters : jPc[<<c, s[c]>>] = "done"
    BY <2>4 DEF Covers
  <2> QED
    BY <2>3, <2>5 DEF IInv, FanInPending
<1> QED
  BY <1>1, Invariance, PTL
=============================================================================
