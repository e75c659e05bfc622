-------------------------- MODULE StoryBibleProofs --------------------------
(***************************************************************************)
(* Proofs about StoryBible, for every number of runs, every set of plans   *)
(* and every number of attempts, troubles and cancellations.  IInv is      *)
(* inductive; one version is current, and the chain of jobs implements the *)
(* numbered versions of VersionChain.                                      *)
(***************************************************************************)
EXTENDS StoryBible, FiniteSetTheorems, FunctionTheorems, SequenceTheorems,
        NaturalsInduction, WellFoundedInduction, TLAPS

-----------------------------------------------------------------------------
(* Numbers *)

\* A nonempty set of numbers has a least element.
LEMMA LeastNumber ==
  ASSUME NEW S \in SUBSET Nat, S # {}
  PROVE  \E m \in S : \A k \in S : m <= k
<1> DEFINE R == {ss \in Nat \X Nat : ss[1] < ss[2]}
<1>1. IsWellFoundedOn(R, Nat)
  BY NatLessThanWellFounded DEF OpToRel
<1> HIDE DEF R
<1>2. PICK m \in S : \A k \in S : ~(<<k, m>> \in R)
  BY <1>1, WFMin, Zenon
<1>3. ASSUME NEW k \in S, k < m PROVE <<k, m>> \in R
  <2>1. <<k, m>> \in Nat \X Nat /\ <<k, m>>[1] = k /\ <<k, m>>[2] = m
    OBVIOUS
  <2> QED
    BY <1>3, <2>1, Zenon DEF R
<1>4. ASSUME NEW k \in S PROVE m <= k
  <2>1. ~(k < m)
    BY <1>2, <1>3, Zenon
  <2>2. k \in Nat /\ m \in Nat
    OBVIOUS
  <2> QED
    BY <2>1, <2>2
<1> QED
  BY <1>4

\* The maximum of a nonempty set of numbers up to a bound.
LEMMA MaxIs ==
  ASSUME NEW n \in Nat, NEW S \in SUBSET (0..n), S # {}
  PROVE  Max(S) \in S /\ \A k \in S : k <= Max(S)
<1> DEFINE U == {u \in Nat : \A k \in S : k <= u}
<1>1. n \in U
  OBVIOUS
<1>2. PICK u \in U : \A w \in U : u <= w
  BY <1>1, LeastNumber
<1>3. u \in S
  <2> SUFFICES ASSUME u \notin S PROVE FALSE
    OBVIOUS
  <2>1. \A k \in S : k <= u - 1
    OBVIOUS
  <2>2. PICK k \in S : TRUE
    OBVIOUS
  <2>3. u - 1 \in U
    BY <2>1, <2>2
  <2> QED
    BY <1>2, <2>3
<1>4. \E m \in S : \A k \in S : m >= k
  BY <1>3
<1> DEFINE top == CHOOSE m \in S : \A k \in S : m >= k
<1>5. top \in S /\ \A k \in S : top >= k
  BY <1>4, Zenon
<1>6. Max(S) = top
  BY Zenon DEF Max
<1> HIDE DEF top
<1> QED
  BY <1>5, <1>6

\* There are fewer numbers with a run of their own each than runs, if one run has none.
LEMMA FewerThanRuns ==
  ASSUME NEW m \in Nat, NEW r \in Runs, NEW f \in [1..m -> Runs \ {r}],
         \A v, w \in 1..m : f[v] = f[w] => v = w
  PROVE  m + 1 <= Cardinality(Runs) /\ Cardinality(Runs) \in Nat
<1> DEFINE A == 1..m
           B == Runs \ {r}
<1>1. IsFiniteSet(Runs)
  BY RunsAssumption
<1>2. /\ IsFiniteSet(B) /\ Cardinality(B) = Cardinality(Runs) - 1
      /\ Cardinality(Runs) \in Nat
  BY <1>1, FS_RemoveElement, FS_CardinalityType
<1>3. Cardinality(A) = m
  BY FS_Interval
<1> HIDE DEF A, B
<1>4. f \in [A -> B] /\ \A v, w \in A : f[v] = f[w] => v = w
  BY DEF A, B
<1>5. f \in Injection(A, B)
  BY <1>4, Fun_IsInj
<1>6. Cardinality(A) <= Cardinality(B)
  BY <1>2, <1>5, FS_Injection
<1> QED
  BY <1>2, <1>3, <1>6

-----------------------------------------------------------------------------
(* Jobs and their places *)

\* A job is a run, a chapter and a kind.
LEMMA JobParts ==
  /\ \A j \in Jobs : /\ Run(j) \in Runs /\ Chapter(j) \in Chapters
                     /\ j = <<Run(j), Chapter(j), IF IsAnalyze(j) THEN "analyze" ELSE "delta">>
  /\ \A r \in Runs, c \in Chapters :
       /\ <<r, c, "analyze">> \in Jobs /\ <<r, c, "delta">> \in Jobs
       /\ Run(<<r, c, "analyze">>) = r /\ Chapter(<<r, c, "analyze">>) = c /\ IsAnalyze(<<r, c, "analyze">>)
       /\ Run(<<r, c, "delta">>) = r /\ Chapter(<<r, c, "delta">>) = c /\ ~IsAnalyze(<<r, c, "delta">>)
<1>1. Jobs = Runs \X Chapters \X {"analyze", "delta"}
  BY JobsAssumption
<1>2. ASSUME NEW j \in Jobs
      PROVE  /\ Run(j) \in Runs /\ Chapter(j) \in Chapters
             /\ j = <<Run(j), Chapter(j), IF IsAnalyze(j) THEN "analyze" ELSE "delta">>
  BY <1>1 DEF Run, Chapter, IsAnalyze
<1>3. ASSUME NEW r \in Runs, NEW c \in Chapters
      PROVE  /\ <<r, c, "analyze">> \in Jobs /\ <<r, c, "delta">> \in Jobs
             /\ Run(<<r, c, "analyze">>) = r /\ Chapter(<<r, c, "analyze">>) = c
             /\ IsAnalyze(<<r, c, "analyze">>)
             /\ Run(<<r, c, "delta">>) = r /\ Chapter(<<r, c, "delta">>) = c
             /\ ~IsAnalyze(<<r, c, "delta">>)
  BY <1>1 DEF Run, Chapter, IsAnalyze
<1> QED
  BY <1>2, <1>3

\* Jobs of the same run, chapter and kind are the same.
LEMMA SameJob ==
  ASSUME NEW j \in Jobs, NEW k \in Jobs, Run(j) = Run(k), Chapter(j) = Chapter(k),
         IsAnalyze(j) <=> IsAnalyze(k)
  PROVE  j = k
<1>1. /\ j = <<Run(j), Chapter(j), IF IsAnalyze(j) THEN "analyze" ELSE "delta">>
      /\ k = <<Run(k), Chapter(k), IF IsAnalyze(k) THEN "analyze" ELSE "delta">>
  BY JobParts
<1>2. (IF IsAnalyze(j) THEN "analyze" ELSE "delta") = (IF IsAnalyze(k) THEN "analyze" ELSE "delta")
  OBVIOUS
<1> QED
  BY <1>1, <1>2, Zenon

\* What a plan is.
LEMMA PlanParts ==
  ASSUME NEW p \in Plans
  PROVE  /\ p \in Seq(Chapters) /\ p # <<>> /\ Len(p) \in Nat \ {0} /\ DOMAIN p = 1..Len(p)
         /\ \A i \in 1..Len(p) : p[i] \in Chapters
         /\ \A i, k \in 1..Len(p) : p[i] = p[k] => i = k
<1>1. p \in Seq(Chapters) /\ p # <<>>
  BY JobsAssumption
<1>2. Len(p) \in Nat /\ DOMAIN p = 1..Len(p) /\ \A i \in 1..Len(p) : p[i] \in Chapters
  BY <1>1, LenProperties
<1>3. Len(p) # 0
  BY <1>1
<1>4. \A i, k \in DOMAIN p : p[i] = p[k] => i = k
  BY JobsAssumption
<1> QED
  BY <1>1, <1>2, <1>3, <1>4

\* The place of a chapter in its run's plan, which is its only one.
LEMMA PlaceIs ==
  ASSUME NEW j \in Jobs, plan[Run(j)] \in Plans, NEW i \in 1..Len(plan[Run(j)]),
         plan[Run(j)][i] = Chapter(j)
  PROVE  Place(j) = i
<1> DEFINE p == plan[Run(j)]
           place == CHOOSE n \in DOMAIN p : p[n] = Chapter(j)
<1>1. /\ DOMAIN p = 1..Len(p) /\ \A m, k \in 1..Len(p) : p[m] = p[k] => m = k
  BY PlanParts
<1>2. Place(j) = place
  BY DEF Place
<1>3. place \in DOMAIN p /\ p[place] = Chapter(j)
  BY <1>1, Zenon
<1> HIDE DEF p, place
<1> QED
  BY <1>1, <1>2, <1>3 DEF p

\* A plan that a step leaves alone has its places and successors where they were.
LEMMA PlacesKept ==
  ASSUME NEW j \in Jobs, plan'[Run(j)] = plan[Run(j)]
  PROVE  Place(j)' = Place(j) /\ Remaining(j)' = Remaining(j) /\ Successor(j)' = Successor(j)
<1>1. Place(j)' = Place(j)
  BY Zenon DEF Place
<1>2. Remaining(j)' = Remaining(j)
  BY <1>1, Zenon DEF Remaining
<1>3. Successor(j)' = Successor(j)
  BY <1>2, Zenon DEF Successor
<1> QED
  BY <1>1, <1>2, <1>3

\* What follows from a place: what remains after it, and the job that is next.
LEMMA SuccessorIs ==
  ASSUME NEW j \in Jobs, plan[Run(j)] \in Plans, Place(j) \in 1..Len(plan[Run(j)]),
         plan[Run(j)][Place(j)] = Chapter(j)
  PROVE  /\ Remaining(j) = <<>> <=> Place(j) = Len(plan[Run(j)])
         /\ IsAnalyze(j) => Successor(j) = <<Run(j), Chapter(j), "delta">>
         /\ ~IsAnalyze(j) /\ Place(j) < Len(plan[Run(j)]) =>
              Successor(j) = <<Run(j), plan[Run(j)][Place(j) + 1], "analyze">>
<1> DEFINE p == plan[Run(j)]
           i == Place(j)
<1>1. /\ Len(p) \in Nat /\ i \in 1..Len(p) /\ i + 1 \in Int
      /\ \A k \in (i + 1)..Len(p) : p[k] \in Chapters
  BY PlanParts
<1>2. Remaining(j) = SubSeq(p, i + 1, Len(p))
  BY DEF Remaining
<1> HIDE DEF p, i
<1>3. /\ SubSeq(p, i + 1, Len(p)) \in Seq(Chapters)
      /\ Len(SubSeq(p, i + 1, Len(p))) = IF i + 1 <= Len(p) THEN Len(p) - (i + 1) + 1 ELSE 0
      /\ \A k \in 1..(Len(p) - (i + 1) + 1) : SubSeq(p, i + 1, Len(p))[k] = p[i + 1 + k - 1]
  BY <1>1, SubSeqProperties
<1>4. Remaining(j) = <<>> <=> i = Len(p)
  <2> DEFINE rest == SubSeq(p, i + 1, Len(p))
  <2>1. rest \in Seq(Chapters) /\ (rest = <<>> <=> Len(rest) = 0)
    BY <1>3, EmptySeq
  <2> HIDE DEF rest
  <2>2. Len(rest) = 0 <=> i = Len(p)
    BY <1>1, <1>3 DEF rest
  <2> QED
    BY <1>2, <2>1, <2>2 DEF rest
<1>5. ASSUME i < Len(p) PROVE Head(Remaining(j)) = p[i + 1]
  BY <1>1, <1>2, <1>3, <1>5
<1> QED
  BY <1>4, <1>5 DEF Successor, p, i

-----------------------------------------------------------------------------
(* Rows and messages *)

\* A version holds a number of chapters.
LEMMA CountIs ==
  ASSUME IInv, NEW r \in Runs
  PROVE  /\ Count(r) \in Nat
         /\ version[r] # 0 => /\ version[r] \in Versions /\ version[r] \in Opened
                              /\ integrated[version[r]] \in Seq(Chapters)
                              /\ Count(r) = Len(integrated[version[r]])
         /\ version[r] = 0 => Count(r) = 0
<1>1. version[r] # 0 => version[r] \in Versions /\ integrated[version[r]] \in Seq(Chapters)
  BY DEF IInv, TypeOK
<1>2. version[r] # 0 => Len(integrated[version[r]]) \in Nat
  BY <1>1, LenProperties
<1>3. version[r] # 0 => version[r] \in Opened
  BY DEF Opened
<1> QED
  BY <1>1, <1>2, <1>3 DEF Count

\* What a row says of its run: it is planned, and the row's chapter has a place in the plan.
LEMMA RowFacts ==
  ASSUME IInv, NEW j \in Jobs, status[j] # "ABSENT"
  PROVE  /\ RowInStep(j) /\ rPc[Run(j)] = "done" /\ plan[Run(j)] \in Plans
         /\ Place(j) \in 1..Len(plan[Run(j)]) /\ plan[Run(j)][Place(j)] = Chapter(j)
         /\ Len(plan[Run(j)]) \in Nat
<1>1. Run(j) \in Runs
  BY JobParts
<1>2. RowInStep(j)
  BY DEF IInv, ChainInStep
<1>3. rPc[Run(j)] = "done" /\ plan[Run(j)] \in Plans
  BY <1>1, <1>2 DEF RowInStep, IInv, RunsPlanned
<1>4. DOMAIN plan[Run(j)] = 1..Len(plan[Run(j)]) /\ Len(plan[Run(j)]) \in Nat
  BY <1>3, PlanParts
<1>5. PICK i \in 1..Len(plan[Run(j)]) : plan[Run(j)][i] = Chapter(j)
  BY <1>2, <1>4 DEF RowInStep
<1>6. Place(j) = i
  BY <1>3, <1>5, PlaceIs
<1> QED
  BY <1>2, <1>3, <1>4, <1>5, <1>6

\* The successor of a job with one is a job of the run: the delta of its chapter, or the
\* analysis of the chapter at the next place.
LEMMA SuccessorFacts ==
  ASSUME IInv, NEW j \in Jobs, status[j] # "ABSENT", IsAnalyze(j) \/ Place(j) < Len(plan[Run(j)])
  PROVE  /\ Successor(j) \in Jobs /\ Run(Successor(j)) = Run(j) /\ Successor(j) # j
         /\ IsAnalyze(j) => /\ Successor(j) = <<Run(j), Chapter(j), "delta">> /\ ~IsAnalyze(Successor(j))
                            /\ Chapter(Successor(j)) = Chapter(j) /\ Place(Successor(j)) = Place(j)
         /\ ~IsAnalyze(j) => IsAnalyze(Successor(j)) /\ Place(Successor(j)) = Place(j) + 1
<1> DEFINE r == Run(j)
           p == plan[r]
<1>1. /\ r \in Runs /\ Chapter(j) \in Chapters /\ p \in Plans /\ Place(j) \in 1..Len(p)
      /\ p[Place(j)] = Chapter(j) /\ Len(p) \in Nat
  BY RowFacts, JobParts
<1>2. CASE IsAnalyze(j)
  <2> DEFINE d == <<r, Chapter(j), "delta">>
  <2>1. Successor(j) = d
    BY <1>1, <1>2, SuccessorIs
  <2>2. d \in Jobs /\ Run(d) = r /\ Chapter(d) = Chapter(j) /\ ~IsAnalyze(d)
    BY <1>1, JobParts
  <2> HIDE DEF d
  <2>3. Place(d) = Place(j)
    BY <1>1, <2>2, PlaceIs
  <2> QED
    BY <1>2, <2>1, <2>2, <2>3 DEF d
<1>3. CASE ~IsAnalyze(j)
  <2> DEFINE i == Place(j) + 1
             s == <<r, p[i], "analyze">>
  <2>1. Successor(j) = s
    BY <1>1, <1>3, SuccessorIs
  <2>2. i \in 1..Len(p) /\ p[i] \in Chapters
    BY <1>1, <1>3, PlanParts
  <2> HIDE DEF i
  <2>3. s \in Jobs /\ Run(s) = r /\ Chapter(s) = p[i] /\ IsAnalyze(s)
    BY <1>1, <2>2, JobParts
  <2> HIDE DEF s
  <2>4. Place(s) = i
    BY <1>1, <2>2, <2>3, PlaceIs
  <2> QED
    BY <1>3, <2>1, <2>3, <2>4 DEF i
<1> QED
  BY <1>2, <1>3

\* The last delta of a chain sets the row of the first job, whose work is done, if a redelivery
\* has cancelled it.
RootEnded(k) == status[k] = "CANCELLED" /\ pc[k] = "idle" /\ status'[k] = "SUCCEEDED" /\ Settled(k)

\* Where the message and the handler of one job move, and its row stays a row, every message
\* stays in step.
LEMMA MessagesMove ==
  ASSUME IInv, NEW j \in Jobs, UNCHANGED <<plan, version>>,
         \A k \in Jobs \ {j} : /\ status'[k] = status[k] \/ RootEnded(k)
                               /\ pc'[k] = pc[k] /\ msg'[k] = msg[k] /\ tries'[k] = tries[k],
         \A r \in Runs : next[r] # 0 => next'[r] # 0,
         status[j] # "ABSENT", status'[j] # "ABSENT", pc'[j] # "enqueue",
         msg'[j] \in {"none", "wait", "active"} => tries'[j] < MaxAttempts,
         pc'[j] \in {"analyze", "number", "persist"} => IsAnalyze(j) /\ status'[j] = "RUNNING",
         pc'[j] = "number" => version[Run(j)] = 0,
         pc'[j] = "persist" /\ version[Run(j)] = 0 => next'[Run(j)] # 0,
         msg[j] = "none" => msg'[j] = "none" \/ j = Root(Run(j))
  PROVE  MessagesInStep'
<1>1. plan' = plan /\ version' = version
  OBVIOUS
<1>2. \A k \in Jobs : status'[k] = "ABSENT" <=> status[k] = "ABSENT"
  BY DEF RootEnded
<1>3. ASSUME NEW k \in Jobs PROVE Place(k)' = Place(k) /\ Successor(k)' = Successor(k)
  BY <1>1, PlacesKept
<1>4. ASSUME NEW k \in Jobs PROVE MessageInStep(k)'
  <2>1. MessageInStep(k)
    BY DEF IInv, MessagesInStep
  <2>2. CASE k = j
    BY <1>1, <2>2 DEF MessageInStep
  <2>3. CASE k # j
    <3>1. /\ msg'[k] # "none" => status'[k] # "ABSENT"
          /\ msg'[k] \in {"none", "wait", "active"} => tries'[k] < MaxAttempts
          /\ pc'[k] \in {"analyze", "number", "persist"} => IsAnalyze(k) /\ status'[k] = "RUNNING"
          /\ pc'[k] = "number" => version'[Run(k)] = 0
      BY <1>1, <2>1, <2>3 DEF MessageInStep, RootEnded
    <3>2. pc'[k] = "persist" /\ version'[Run(k)] = 0 => next'[Run(k)] # 0
      BY <1>1, <2>1, <2>3, JobParts DEF MessageInStep
    <3>3. ASSUME pc'[k] = "enqueue"
          PROVE  /\ status'[k] = "SUCCEEDED" /\ (IsAnalyze(k) \/ Place(k) < Len(plan[Run(k)]))
                 /\ msg'[Successor(k)] = "none" /\ status'[Successor(k)] # "ABSENT"
      <4>1. /\ status[k] = "SUCCEEDED" /\ (IsAnalyze(k) \/ Place(k) < Len(plan[Run(k)]))
            /\ msg[Successor(k)] = "none" /\ status[Successor(k)] # "ABSENT"
        BY <2>1, <2>3, <3>3 DEF MessageInStep
      <4>2. Successor(k) \in Jobs
        BY <4>1, SuccessorFacts
      <4>3. Successor(k) # Root(Run(Successor(k)))
        <5> DEFINE s == Successor(k)
                   p == plan[Run(k)]
        <5>1. /\ Run(s) = Run(k) /\ (IsAnalyze(k) => ~IsAnalyze(s))
              /\ (~IsAnalyze(k) => Place(s) = Place(k) + 1)
          BY <4>1, SuccessorFacts
        <5>2. p \in Plans /\ Place(k) \in 1..Len(p)
          BY <4>1, RowFacts
        <5>3. Len(p) \in Nat \ {0} /\ 1 \in 1..Len(p) /\ p[1] \in Chapters
          BY <5>2, PlanParts
        <5>4. /\ Root(Run(k)) \in Jobs /\ Run(Root(Run(k))) = Run(k)
              /\ Chapter(Root(Run(k))) = p[1] /\ IsAnalyze(Root(Run(k)))
          BY <5>3, JobParts DEF Root
        <5>5. Place(Root(Run(k))) = 1
          BY <5>2, <5>3, <5>4, PlaceIs
        <5> HIDE DEF s, p
        <5> QED
          BY <5>1, <5>2, <5>3, <5>4, <5>5 DEF s
      <4>4. msg'[Successor(k)] = "none"
        BY <4>1, <4>2, <4>3
      <4> QED
        BY <1>2, <2>3, <4>1, <4>2, <4>4 DEF RootEnded
    <3> QED
      BY <1>1, <1>3, <3>1, <3>2, <3>3 DEF MessageInStep
  <2> QED
    BY <2>2, <2>3
<1> QED
  BY <1>4 DEF MessagesInStep

\* Where the row of one job changes to another status, its message and its handler move, and
\* nothing of a version does, every row and message stays in step.
LEMMA MovePreserves ==
  ASSUME IInv, NEW j \in Jobs, UNCHANGED <<runVars, version, integrated>>,
         \A k \in Jobs \ {j} : /\ status'[k] = status[k] /\ pc'[k] = pc[k]
                               /\ msg'[k] = msg[k] /\ tries'[k] = tries[k],
         \A r \in Runs : next[r] # 0 => next'[r] # 0,
         status[j] # "ABSENT", status'[j] # "ABSENT",
         Settled(j) => /\ status'[j] \in {"SUCCEEDED", "CANCELLED"}
                       /\ pc'[j] # "idle" => status'[j] = "SUCCEEDED",
         status'[j] = "SUCCEEDED" => Settled(j),
         pc'[j] # "enqueue",
         msg'[j] \in {"none", "wait", "active"} => tries'[j] < MaxAttempts,
         pc'[j] \in {"analyze", "number", "persist"} => IsAnalyze(j) /\ status'[j] = "RUNNING",
         pc'[j] = "number" => version[Run(j)] = 0,
         pc'[j] = "persist" /\ version[Run(j)] = 0 => next'[Run(j)] # 0,
         msg[j] = "none" => msg'[j] = "none" \/ j = Root(Run(j))
  PROVE  ChainInStep' /\ MessagesInStep'
<1>1. plan' = plan /\ rPc' = rPc /\ version' = version /\ integrated' = integrated
  BY DEF runVars
<1>2. \A k \in Jobs : status'[k] = "ABSENT" <=> status[k] = "ABSENT"
  OBVIOUS
<1>3. ASSUME NEW k \in Jobs
      PROVE  /\ Place(k)' = Place(k) /\ Successor(k)' = Successor(k)
             /\ Count(Run(k))' = Count(Run(k)) /\ (Settled(k)' <=> Settled(k))
  <2>1. Place(k)' = Place(k) /\ Successor(k)' = Successor(k)
    BY <1>1, PlacesKept
  <2>2. Count(Run(k))' = Count(Run(k))
    BY <1>1 DEF Count
  <2>3. <<Run(k), Chapter(k), "delta">> \in Jobs
    BY JobParts
  <2> QED
    BY <1>2, <2>1, <2>2, <2>3 DEF Settled
<1>4. ASSUME NEW k \in Jobs, status'[k] # "ABSENT" PROVE RowInStep(k)'
  <2>1. RowInStep(k)
    BY <1>2, <1>4, RowFacts
  <2>2. Run(k) \in Runs /\ <<Run(k), Chapter(k), "analyze">> \in Jobs
    BY JobParts
  <2>3. /\ Settled(k) => /\ status'[k] \in {"SUCCEEDED", "CANCELLED"}
                         /\ pc'[k] # "idle" => status'[k] = "SUCCEEDED"
        /\ status'[k] = "SUCCEEDED" => Settled(k)
    <3>1. CASE k = j
      BY <3>1
    <3>2. CASE k # j
      BY <2>1, <3>2 DEF RowInStep
    <3> QED
      BY <3>1, <3>2
  <2>4. rPc'[Run(k)] = "done" /\ \E i \in DOMAIN plan'[Run(k)] : plan'[Run(k)][i] = Chapter(k)
    BY <1>1, <2>1 DEF RowInStep
  <2>5. /\ Place(k)' <= Count(Run(k))' + 1
        /\ Place(k)' <= Count(Run(k))' => Settled(k)'
    BY <1>3, <2>1 DEF RowInStep
  <2>6. ~IsAnalyze(k) => /\ version'[Run(k)] # 0
                         /\ status'[<<Run(k), Chapter(k), "analyze">>] # "ABSENT"
    BY <1>1, <1>2, <2>1, <2>2 DEF RowInStep
  <2> QED
    BY <1>3, <2>3, <2>4, <2>5, <2>6 DEF RowInStep
<1>5. MessagesInStep'
  BY <1>1, MessagesMove
<1> QED
  BY <1>4, <1>5 DEF ChainInStep

\* Runs and versions that a step leaves alone stay as they should be.
LEMMA RestKept ==
  ASSUME IInv, UNCHANGED <<runVars, version, next, integrated, isCurrent, superseded, bible>>
  PROVE  RunsPlanned' /\ VersionsNumbered' /\ VersionsFilled' /\ OneCurrent'
<1>1. plan' = plan /\ rPc' = rPc /\ version' = version /\ integrated' = integrated /\ next' = next
      /\ isCurrent' = isCurrent /\ superseded' = superseded /\ bible' = bible
  BY DEF runVars
<1>2. Opened' = Opened
  BY <1>1 DEF Opened
<1>3. RunsPlanned' /\ OneCurrent'
  BY <1>1 DEF IInv, RunsPlanned, OneCurrent
<1>4. VersionsNumbered'
  BY <1>1, <1>2 DEF IInv, VersionsNumbered
<1>5. VersionsFilled'
  BY <1>1, <1>2 DEF IInv, VersionsFilled, Completed
<1> QED
  BY <1>3, <1>4, <1>5

\* A job that a handler has, or whose message waits: its row is there, and an attempt left.
LEMMA InHand ==
  ASSUME IInv, NEW j \in Jobs, msg[j] \in {"wait", "active"} \/ pc[j] # "idle"
  PROVE  /\ status[j] # "ABSENT" /\ tries[j] \in 0..MaxAttempts /\ tries[j] < MaxAttempts
         /\ RowInStep(j) /\ MessageInStep(j)
<1>1. msg[j] \in {"wait", "active"} /\ tries[j] \in 0..MaxAttempts
  BY DEF IInv, TypeOK, ChainTypeOK
<1>2. MessageInStep(j)
  BY DEF IInv, MessagesInStep
<1>3. status[j] # "ABSENT" /\ tries[j] < MaxAttempts
  BY <1>1, <1>2 DEF MessageInStep
<1> QED
  BY <1>1, <1>2, <1>3, RowFacts

\* The end of a handler, or of a delivery at the gate.
LEMMA FinishTyped ==
  ASSUME IInv, NEW j \in Jobs, msg[j] \in {"wait", "active"} \/ pc[j] # "idle",
         NEW outcome \in {"completed", "failed", "retry"}, Finish(j, outcome)
  PROVE  /\ msg' \in [Jobs -> {"none", "wait", "active", "completed", "failed", "removed"}]
         /\ tries' \in [Jobs -> 0..MaxAttempts] /\ pc' \in [Jobs -> Steps]
         /\ \A k \in Jobs : pc'[k] # "idle" <=> msg'[k] = "active"
         /\ \A k \in Jobs \ {j} : pc'[k] = pc[k] /\ msg'[k] = msg[k] /\ tries'[k] = tries[k]
         /\ pc'[j] = "idle" /\ msg[j] # "none"
         /\ msg'[j] \in {"none", "wait", "active"} => tries'[j] < MaxAttempts
<1>1. tries[j] \in 0..MaxAttempts /\ tries[j] < MaxAttempts /\ MaxAttempts \in Nat
  BY InHand, ChainAssumption
<1>2. /\ msg \in [Jobs -> {"none", "wait", "active", "completed", "failed", "removed"}]
      /\ tries \in [Jobs -> 0..MaxAttempts] /\ pc \in [Jobs -> Steps]
      /\ \A k \in Jobs : pc[k] # "idle" <=> msg[k] = "active"
  BY DEF IInv, TypeOK, ChainTypeOK
<1> DEFINE m == IF outcome = "retry" THEN IF Final(j) THEN "failed" ELSE "wait" ELSE outcome
<1>3. /\ msg' = [msg EXCEPT ![j] = m] /\ tries' = [tries EXCEPT ![j] = tries[j] + 1]
      /\ pc' = [pc EXCEPT ![j] = "idle"]
  BY DEF Finish, Goto
<1>4. m \in {"completed", "failed", "wait"} /\ (m = "wait" => tries[j] + 1 < MaxAttempts)
  BY <1>1 DEF Final
<1>5. tries[j] + 1 \in 0..MaxAttempts
  BY <1>1
<1> HIDE DEF m
<1>6. /\ msg' \in [Jobs -> {"none", "wait", "active", "completed", "failed", "removed"}]
      /\ pc' \in [Jobs -> Steps]
  BY <1>2, <1>3, <1>4 DEF Steps
<1>7. tries' \in [Jobs -> 0..MaxAttempts] /\ tries'[j] = tries[j] + 1
  BY <1>2, <1>3, <1>5
<1>8. /\ msg'[j] = m /\ pc'[j] = "idle" /\ msg[j] # "none"
      /\ \A k \in Jobs \ {j} : pc'[k] = pc[k] /\ msg'[k] = msg[k] /\ tries'[k] = tries[k]
  BY <1>2, <1>3
<1>9. \A k \in Jobs : pc'[k] # "idle" <=> msg'[k] = "active"
  BY <1>2, <1>4, <1>8
<1> QED
  BY <1>4, <1>6, <1>7, <1>8, <1>9

\* A handler of a job that ends without a result leaves the invariant: the row keeps its
\* status, or a failed or cancelled one is written that no committed work contradicts.
LEMMA EndPreserves ==
  ASSUME IInv, NEW j \in Jobs, msg[j] \in {"wait", "active"} \/ pc[j] # "idle",
         NEW outcome \in {"completed", "failed", "retry"}, Finish(j, outcome),
         NEW st \in {"FAILED", "CANCELLED", status[j]}, status' = [status EXCEPT ![j] = st],
         st = "FAILED" => st = status[j] \/ ~Settled(j),
         cancel' = cancel, UNCHANGED <<runVars, versionVars, bookVars>>
  PROVE  IInv'
<1> USE DEF versionVars, bookVars
<1>1. /\ msg' \in [Jobs -> {"none", "wait", "active", "completed", "failed", "removed"}]
      /\ tries' \in [Jobs -> 0..MaxAttempts] /\ pc' \in [Jobs -> Steps]
      /\ \A k \in Jobs : pc'[k] # "idle" <=> msg'[k] = "active"
      /\ \A k \in Jobs \ {j} : pc'[k] = pc[k] /\ msg'[k] = msg[k] /\ tries'[k] = tries[k]
      /\ pc'[j] = "idle" /\ msg[j] # "none"
      /\ msg'[j] \in {"none", "wait", "active"} => tries'[j] < MaxAttempts
  BY FinishTyped
<1>2. status[j] # "ABSENT" /\ RowInStep(j)
  BY InHand
<1>3. status \in [Jobs -> Statuses] /\ st \in Statuses /\ st # "ABSENT"
  BY <1>2 DEF IInv, TypeOK, ChainTypeOK, Statuses
<1>4. /\ status' \in [Jobs -> Statuses] /\ status'[j] = st
      /\ \A k \in Jobs \ {j} : status'[k] = status[k]
  BY <1>3
<1>5. /\ Settled(j) => st \in {"SUCCEEDED", "CANCELLED"}
      /\ st = "SUCCEEDED" => Settled(j)
  BY <1>2 DEF RowInStep
<1>6. \A r \in Runs : next[r] # 0 => next'[r] # 0
  OBVIOUS
<1>7. ChainInStep' /\ MessagesInStep'
  BY <1>1, <1>2, <1>3, <1>4, <1>5, <1>6, MovePreserves
<1>8. RunsPlanned' /\ VersionsNumbered' /\ VersionsFilled' /\ OneCurrent'
  BY RestKept
<1>9. ChainTypeOK'
  BY <1>1, <1>4 DEF IInv, TypeOK, ChainTypeOK
<1>10. TypeOK'
  BY <1>1, <1>9 DEF IInv, TypeOK, runVars
<1> QED
  BY <1>7, <1>8, <1>10 DEF IInv

\* A row that keeps its status, as EXCEPT says it.
LEMMA SameStatus ==
  ASSUME IInv, NEW j \in Jobs
  PROVE  status = [status EXCEPT ![j] = status[j]]
  BY DEF IInv, TypeOK, ChainTypeOK

\* The gate keeps the invariant: a message of a job that was asked to stop ends it, and one
\* of a job whose work is committed reaches the handler as SUCCEEDED.
LEMMA TakePreserves ==
  ASSUME IInv, NEW j \in Jobs, Take(j), UNCHANGED <<runVars, versionVars, bookVars>>
  PROVE  IInv'
<1> USE DEF versionVars, bookVars
<1>1. msg[j] = "wait" /\ cancel' = cancel
  BY DEF Take, rowVars
<1>2. CASE status[j] = "CANCELLED" /\ Finish(j, "completed") /\ UNCHANGED status
  BY <1>1, <1>2, SameStatus, EndPreserves
<1>3. CASE status' = [status EXCEPT ![j] = "CANCELLED"] /\ Finish(j, "completed")
  BY <1>1, <1>3, EndPreserves
<1>4. CASE /\ status[j] # "CANCELLED" /\ msg' = [msg EXCEPT ![j] = "active"]
           /\ Goto(j, "load") /\ UNCHANGED <<status, tries>>
  <2>1. status[j] # "ABSENT" /\ tries[j] < MaxAttempts /\ RowInStep(j)
    BY <1>1, InHand
  <2>2. /\ msg \in [Jobs -> {"none", "wait", "active", "completed", "failed", "removed"}]
        /\ pc \in [Jobs -> Steps]
        /\ \A k \in Jobs : pc[k] # "idle" <=> msg[k] = "active"
    BY DEF IInv, TypeOK, ChainTypeOK
  <2>3. /\ msg' \in [Jobs -> {"none", "wait", "active", "completed", "failed", "removed"}]
        /\ pc' \in [Jobs -> Steps] /\ msg'[j] = "active" /\ pc'[j] = "load"
        /\ \A k \in Jobs \ {j} : pc'[k] = pc[k] /\ msg'[k] = msg[k]
    BY <1>4, <2>2 DEF Goto, Steps
  <2>4. \A k \in Jobs : pc'[k] # "idle" <=> msg'[k] = "active"
    BY <2>2, <2>3
  <2>5. /\ Settled(j) => status[j] = "SUCCEEDED"
        /\ status[j] = "SUCCEEDED" => Settled(j)
    BY <1>4, <2>1 DEF RowInStep
  <2>6. ChainInStep' /\ MessagesInStep'
    BY <1>1, <1>4, <2>1, <2>3, <2>5, MovePreserves
  <2>7. RunsPlanned' /\ VersionsNumbered' /\ VersionsFilled' /\ OneCurrent'
    BY RestKept
  <2>8. ChainTypeOK'
    BY <1>1, <1>4, <2>3, <2>4 DEF IInv, TypeOK, ChainTypeOK
  <2>9. TypeOK'
    BY <2>3, <2>8 DEF IInv, TypeOK, runVars
  <2> QED
    BY <2>6, <2>7, <2>9 DEF IInv
<1> QED
  BY <1>2, <1>3, <1>4 DEF Take

\* A worker that skips, raises or dies, and a cancel, keep the invariant.
LEMMA FaultPreserves ==
  ASSUME IInv, NEW j \in Jobs, Skip(j) \/ Faults(j), UNCHANGED <<runVars, versionVars, bookVars>>
  PROVE  IInv'
<1> USE DEF versionVars, bookVars
<1>1. CASE Skip(j) \/ Raise(j)
  <2>1. PICK outcome \in {"completed", "retry"} :
          /\ Finish(j, outcome) /\ UNCHANGED rowVars /\ pc[j] # "idle"
    BY <1>1 DEF Skip, Raise
  <2> QED
    BY <2>1, SameStatus, EndPreserves DEF rowVars
<1>2. CASE Die(j)
  <2>1. status[j] # "ABSENT" /\ tries[j] < MaxAttempts /\ RowInStep(j)
    BY <1>2, InHand DEF Die
  <2>2. /\ msg' = [msg EXCEPT ![j] = "wait"] /\ pc' = [pc EXCEPT ![j] = "idle"] /\ pc[j] # "idle"
        /\ UNCHANGED <<status, cancel, tries>>
    BY <1>2 DEF Die, Goto, rowVars
  <2>3. /\ msg \in [Jobs -> {"none", "wait", "active", "completed", "failed", "removed"}]
        /\ pc \in [Jobs -> Steps]
        /\ \A k \in Jobs : pc[k] # "idle" <=> msg[k] = "active"
    BY DEF IInv, TypeOK, ChainTypeOK
  <2>4. /\ msg' \in [Jobs -> {"none", "wait", "active", "completed", "failed", "removed"}]
        /\ pc' \in [Jobs -> Steps] /\ msg'[j] = "wait" /\ pc'[j] = "idle" /\ msg[j] # "none"
        /\ \A k \in Jobs \ {j} : pc'[k] = pc[k] /\ msg'[k] = msg[k]
    BY <2>2, <2>3 DEF Steps
  <2>5. \A k \in Jobs : pc'[k] # "idle" <=> msg'[k] = "active"
    BY <2>3, <2>4
  <2>6. /\ Settled(j) => status[j] \in {"SUCCEEDED", "CANCELLED"}
        /\ status[j] = "SUCCEEDED" => Settled(j)
    BY <2>1 DEF RowInStep
  <2>7. ChainInStep' /\ MessagesInStep'
    BY <2>1, <2>2, <2>4, <2>6, MovePreserves
  <2>8. RunsPlanned' /\ VersionsNumbered' /\ VersionsFilled' /\ OneCurrent'
    BY RestKept
  <2>9. ChainTypeOK'
    BY <2>2, <2>4, <2>5 DEF IInv, TypeOK, ChainTypeOK
  <2>10. TypeOK'
    BY <2>4, <2>9 DEF IInv, TypeOK, runVars
  <2> QED
    BY <2>7, <2>8, <2>10 DEF IInv
<1>3. CASE Cancel(j)
  <2> DEFINE st == IF status[j] = "CREATED" THEN "CANCELLED" ELSE status[j]
             m == IF msg[j] = "wait" /\ status[j] = "CREATED" THEN "removed" ELSE msg[j]
  <2>1. /\ status[j] \in Active /\ cancel' = [cancel EXCEPT ![j] = TRUE]
        /\ status' = [status EXCEPT ![j] = st] /\ msg' = [msg EXCEPT ![j] = m]
        /\ UNCHANGED <<tries, pc>>
    BY <1>3 DEF Cancel
  <2>2. /\ st # "ABSENT" /\ (status[j] = "RUNNING" => st = "RUNNING") /\ st \in {"RUNNING", "CANCELLED"}
        /\ st \in Statuses
    BY <2>1 DEF Active, Statuses
  <2>3. /\ msg \in [Jobs -> {"none", "wait", "active", "completed", "failed", "removed"}]
        /\ status \in [Jobs -> Statuses] /\ cancel \in [Jobs -> BOOLEAN]
        /\ \A k \in Jobs : pc[k] # "idle" <=> msg[k] = "active"
    BY DEF IInv, TypeOK, ChainTypeOK
  <2>4. /\ m \in {"none", "wait", "active", "completed", "failed", "removed"}
        /\ m = msg[j] \/ (msg[j] = "wait" /\ m = "removed")
    BY <2>3
  <2> HIDE DEF st, m
  <2>5. /\ msg' \in [Jobs -> {"none", "wait", "active", "completed", "failed", "removed"}]
        /\ msg'[j] = m /\ \A k \in Jobs \ {j} : msg'[k] = msg[k]
    BY <2>1, <2>3, <2>4
  <2>6. /\ status' \in [Jobs -> Statuses]
        /\ status'[j] = st /\ \A k \in Jobs \ {j} : status'[k] = status[k]
    BY <2>1, <2>2, <2>3
  <2>7. /\ cancel' \in [Jobs -> BOOLEAN]
        /\ \A k \in Jobs : pc'[k] # "idle" <=> msg'[k] = "active"
    BY <2>1, <2>3, <2>4, <2>5
  <2>8. status[j] # "ABSENT" /\ status[j] # "SUCCEEDED" /\ status[j] # "CANCELLED"
    BY <2>1 DEF Active
  <2>9. RowInStep(j) /\ MessageInStep(j)
    BY <2>8, RowFacts DEF IInv, MessagesInStep
  <2>10. ~Settled(j) /\ pc[j] # "enqueue"
    BY <2>8, <2>9 DEF RowInStep, MessageInStep
  <2>11. /\ msg'[j] \in {"none", "wait", "active"} => tries'[j] < MaxAttempts
         /\ pc'[j] \in {"analyze", "number", "persist"} => IsAnalyze(j) /\ status'[j] = "RUNNING"
         /\ pc'[j] = "number" => version[Run(j)] = 0
         /\ pc'[j] = "persist" /\ version[Run(j)] = 0 => next'[Run(j)] # 0
         /\ msg[j] = "none" => msg'[j] = "none"
    BY <2>1, <2>2, <2>4, <2>5, <2>6, <2>9 DEF MessageInStep
  <2>12. \A k \in Jobs \ {j} : pc'[k] = pc[k] /\ tries'[k] = tries[k]
    BY <2>1
  <2>13. ChainInStep' /\ MessagesInStep'
    BY <2>1, <2>2, <2>5, <2>6, <2>8, <2>10, <2>11, <2>12, MovePreserves
  <2>14. RunsPlanned' /\ VersionsNumbered' /\ VersionsFilled' /\ OneCurrent'
    BY RestKept
  <2>15. ChainTypeOK'
    BY <2>1, <2>5, <2>6, <2>7 DEF IInv, TypeOK, ChainTypeOK
  <2>16. TypeOK'
    BY <2>1, <2>15 DEF IInv, TypeOK, runVars
  <2> QED
    BY <2>13, <2>14, <2>16 DEF IInv
<1> QED
  BY <1>1, <1>2, <1>3 DEF Faults

\* The first job of a run that has a plan.
LEMMA RootIs ==
  ASSUME IInv, NEW r \in Runs, plan[r] \in Plans
  PROVE  /\ Root(r) \in Jobs /\ Run(Root(r)) = r /\ Chapter(Root(r)) = plan[r][1]
         /\ IsAnalyze(Root(r)) /\ Place(Root(r)) = 1
<1>1. Len(plan[r]) \in Nat \ {0} /\ 1 \in 1..Len(plan[r]) /\ plan[r][1] \in Chapters
  BY PlanParts
<1>2. /\ Root(r) \in Jobs /\ Run(Root(r)) = r /\ Chapter(Root(r)) = plan[r][1]
      /\ IsAnalyze(Root(r))
  BY <1>1, JobParts DEF Root
<1> QED
  BY <1>1, <1>2, PlaceIs

\* The API and the sweeper enqueue the first job of a run.
LEMMA DispatchPreserves == ASSUME IInv, NEW r \in Runs, Dispatches(r) PROVE IInv'
<1> USE DEF versionVars, bookVars
<1> DEFINE j == Root(r)
<1>1. rPc[r] = "done" /\ DispatchRoot(j) /\ UNCHANGED <<runVars, versionVars, bookVars>>
  BY DEF Dispatches
<1>2. j \in Jobs /\ Run(j) = r
  BY <1>1, RootIs DEF IInv, RunsPlanned
<1> HIDE DEF j
<1>3. /\ status[j] = "CREATED" /\ msg[j] = "none" /\ msg' = [msg EXCEPT ![j] = "wait"]
      /\ UNCHANGED <<status, cancel, tries, pc>>
  BY <1>1 DEF DispatchRoot, rowVars
<1>4. /\ msg \in [Jobs -> {"none", "wait", "active", "completed", "failed", "removed"}]
      /\ \A k \in Jobs : pc[k] # "idle" <=> msg[k] = "active"
  BY DEF IInv, TypeOK, ChainTypeOK
<1>5. /\ msg' \in [Jobs -> {"none", "wait", "active", "completed", "failed", "removed"}]
      /\ msg'[j] = "wait" /\ pc[j] = "idle" /\ \A k \in Jobs \ {j} : msg'[k] = msg[k]
  BY <1>2, <1>3, <1>4
<1>6. \A k \in Jobs : pc'[k] # "idle" <=> msg'[k] = "active"
  BY <1>3, <1>4, <1>5
<1>7. RowInStep(j) /\ MessageInStep(j)
  BY <1>2, <1>3, RowFacts DEF IInv, MessagesInStep
<1>8. ~Settled(j) /\ tries[j] < MaxAttempts
  BY <1>3, <1>7 DEF RowInStep, MessageInStep
<1>9. ChainInStep' /\ MessagesInStep'
  BY <1>1, <1>2, <1>3, <1>5, <1>8, MovePreserves DEF j
<1>10. RunsPlanned' /\ VersionsNumbered' /\ VersionsFilled' /\ OneCurrent'
  BY <1>1, RestKept
<1>11. ChainTypeOK'
  BY <1>3, <1>5, <1>6 DEF IInv, TypeOK, ChainTypeOK
<1>12. TypeOK'
  BY <1>1, <1>3, <1>11 DEF IInv, TypeOK, runVars
<1> QED
  BY <1>9, <1>10, <1>12 DEF IInv

\* Two jobs about to enqueue their successors have different ones.
LEMMA SuccessorsDiffer ==
  ASSUME IInv, NEW j \in Jobs, NEW k \in Jobs, pc[j] = "enqueue", pc[k] = "enqueue",
         Successor(j) = Successor(k)
  PROVE  j = k
<1>1. /\ status[j] # "ABSENT" /\ (IsAnalyze(j) \/ Place(j) < Len(plan[Run(j)]))
      /\ status[k] # "ABSENT" /\ (IsAnalyze(k) \/ Place(k) < Len(plan[Run(k)]))
  BY DEF IInv, MessagesInStep, MessageInStep
<1> DEFINE s == Successor(j)
<1>2. /\ Run(s) = Run(j) /\ (IsAnalyze(j) <=> ~IsAnalyze(s))
      /\ IsAnalyze(j) => Chapter(s) = Chapter(j)
      /\ ~IsAnalyze(j) => Place(s) = Place(j) + 1
  BY <1>1, SuccessorFacts
<1>3. /\ Run(s) = Run(k) /\ (IsAnalyze(k) <=> ~IsAnalyze(s))
      /\ IsAnalyze(k) => Chapter(s) = Chapter(k)
      /\ ~IsAnalyze(k) => Place(s) = Place(k) + 1
  BY <1>1, SuccessorFacts
<1>4. /\ plan[Run(j)][Place(j)] = Chapter(j) /\ plan[Run(k)][Place(k)] = Chapter(k)
      /\ Place(j) \in 1..Len(plan[Run(j)]) /\ Place(k) \in 1..Len(plan[Run(k)])
      /\ Len(plan[Run(j)]) \in Nat /\ Len(plan[Run(k)]) \in Nat
  BY <1>1, RowFacts
<1> HIDE DEF s
<1>5. Chapter(j) = Chapter(k)
  <2>1. CASE IsAnalyze(j)
    BY <1>2, <1>3, <2>1
  <2>2. CASE ~IsAnalyze(j)
    <3>1. Place(j) \in Int /\ Place(k) \in Int /\ Place(j) + 1 = Place(k) + 1
      BY <1>2, <1>3, <1>4, <2>2
    <3>2. Place(j) = Place(k)
      BY <3>1
    <3> QED
      BY <1>2, <1>3, <1>4, <3>2
  <2> QED
    BY <2>1, <2>2
<1> QED
  BY <1>2, <1>3, <1>5, SameJob

\* The enqueue of the successor keeps the invariant, and so does one that Redis refuses.
LEMMA EnqueuePreserves ==
  ASSUME IInv, NEW j \in Jobs, Enqueue(j, Successor(j)), UNCHANGED <<runVars, versionVars, bookVars>>
  PROVE  IInv'
<1> USE DEF versionVars, bookVars
<1>1. pc[j] = "enqueue" /\ UNCHANGED <<status, cancel>>
  BY DEF Enqueue, rowVars
<1>2. CASE Finish(j, "retry")
  BY <1>1, <1>2, SameStatus, EndPreserves
<1> DEFINE s == Successor(j)
<1>3. CASE /\ msg' = [msg EXCEPT ![s] = "wait", ![j] = "completed"]
           /\ tries' = [tries EXCEPT ![j] = @ + 1] /\ Goto(j, "idle")
  <2>1. /\ status[j] # "ABSENT" /\ tries[j] \in 0..MaxAttempts /\ tries[j] < MaxAttempts
        /\ RowInStep(j) /\ MessageInStep(j)
    BY <1>1, InHand
  <2>2. /\ IsAnalyze(j) \/ Place(j) < Len(plan[Run(j)])
        /\ msg[s] = "none" /\ status[s] # "ABSENT"
    BY <1>1, <2>1 DEF MessageInStep
  <2>3. s \in Jobs /\ s # j
    BY <2>1, <2>2, SuccessorFacts
  <2> HIDE DEF s
  <2>4. /\ msg \in [Jobs -> {"none", "wait", "active", "completed", "failed", "removed"}]
        /\ tries \in [Jobs -> 0..MaxAttempts] /\ pc \in [Jobs -> Steps]
        /\ \A k \in Jobs : pc[k] # "idle" <=> msg[k] = "active"
    BY DEF IInv, TypeOK, ChainTypeOK
  <2>5. /\ msg' \in [Jobs -> {"none", "wait", "active", "completed", "failed", "removed"}]
        /\ msg'[s] = "wait" /\ msg'[j] = "completed"
        /\ \A k \in Jobs \ {j, s} : msg'[k] = msg[k]
    BY <1>3, <2>3, <2>4
  <2>6. pc' \in [Jobs -> Steps] /\ pc'[j] = "idle" /\ \A k \in Jobs \ {j} : pc'[k] = pc[k]
    BY <1>3, <2>4 DEF Goto, Steps
  <2>7. tries[j] + 1 \in 0..MaxAttempts
    BY <2>1, ChainAssumption
  <2>8. tries' \in [Jobs -> 0..MaxAttempts] /\ \A k \in Jobs \ {j} : tries'[k] = tries[k]
    BY <1>3, <2>4, <2>7
  <2>9. pc[s] = "idle" /\ \A k \in Jobs : pc'[k] # "idle" <=> msg'[k] = "active"
    BY <2>2, <2>3, <2>4, <2>5, <2>6
  <2>10. plan' = plan /\ rPc' = rPc /\ version' = version /\ integrated' = integrated /\ next' = next
    BY DEF runVars
  <2>11. ASSUME NEW k \in Jobs, status'[k] # "ABSENT" PROVE RowInStep(k)'
    <3>1. RowInStep(k)
      BY <1>1, <2>11, RowFacts
    <3>2. /\ Place(k)' = Place(k) /\ Count(Run(k))' = Count(Run(k)) /\ (Settled(k)' <=> Settled(k))
      BY <1>1, <2>10, PlacesKept DEF Count, Settled
    <3>3. pc'[k] # "idle" => pc[k] # "idle"
      BY <2>6
    <3> QED
      BY <1>1, <2>10, <3>1, <3>2, <3>3 DEF RowInStep
  <2>12. ASSUME NEW k \in Jobs PROVE MessageInStep(k)'
    <3>1. MessageInStep(k)
      BY DEF IInv, MessagesInStep
    <3>2. Place(k)' = Place(k) /\ Successor(k)' = Successor(k)
      BY <2>10, PlacesKept
    <3>3. CASE k = j
      BY <1>1, <2>1, <2>5, <2>6, <3>3 DEF MessageInStep
    <3>4. CASE k = s
      BY <1>1, <2>2, <2>3, <2>5, <2>6, <2>8, <2>9, <3>1, <3>4 DEF MessageInStep
    <3>5. CASE k # j /\ k # s
      <4>1. pc'[k] = pc[k] /\ msg'[k] = msg[k] /\ tries'[k] = tries[k] /\ status'[k] = status[k]
        BY <1>1, <2>5, <2>6, <2>8, <3>5
      <4>2. ASSUME pc[k] = "enqueue"
            PROVE  msg'[Successor(k)] = "none" /\ status'[Successor(k)] # "ABSENT"
        <5>1. /\ msg[Successor(k)] = "none" /\ status[Successor(k)] # "ABSENT" /\ status[k] # "ABSENT"
              /\ IsAnalyze(k) \/ Place(k) < Len(plan[Run(k)])
          BY <3>1, <4>2 DEF MessageInStep
        <5>2. Successor(k) \in Jobs
          BY <5>1, SuccessorFacts
        <5>3. Successor(k) # s
          BY <1>1, <3>5, <4>2, SuccessorsDiffer DEF s
        <5>4. Successor(k) # j
          BY <1>1, <2>4, <5>1
        <5> QED
          BY <1>1, <2>5, <5>1, <5>2, <5>3, <5>4
      <4> QED
        BY <2>10, <3>1, <3>2, <4>1, <4>2 DEF MessageInStep
    <3> QED
      BY <3>3, <3>4, <3>5
  <2>13. ChainInStep' /\ MessagesInStep'
    BY <2>11, <2>12 DEF ChainInStep, MessagesInStep
  <2>14. RunsPlanned' /\ VersionsNumbered' /\ VersionsFilled' /\ OneCurrent'
    BY RestKept
  <2>15. ChainTypeOK'
    BY <1>1, <2>5, <2>8, <2>9 DEF IInv, TypeOK, ChainTypeOK
  <2>16. TypeOK'
    BY <2>6, <2>15 DEF IInv, TypeOK, runVars
  <2> QED
    BY <2>13, <2>14, <2>16 DEF IInv
<1> QED
  BY <1>2, <1>3 DEF Enqueue

-----------------------------------------------------------------------------
(* The handler of an analysis *)

\* The newest version is the number of versions, and a run without one has room for the next.
LEMMA NextNumber ==
  ASSUME IInv, NEW r \in Runs, version[r] = 0
  PROVE  /\ Max(Opened \cup {0}) + 1 \in Versions /\ Max(Opened \cup {0}) \in Nat
         /\ \A v \in 1..Max(Opened \cup {0}) : v \in Opened
<1> DEFINE n == Cardinality(Runs)
           S == Opened \cup {0}
           m == Max(S)
<1>1. n \in Nat
  BY RunsAssumption, FS_CardinalityType
<1>2. version \in [Runs -> Versions \cup {0}]
  BY DEF IInv, TypeOK
<1>3. S \in SUBSET (0..n) /\ S # {}
  BY <1>1, <1>2 DEF Opened, Versions
<1> HIDE DEF n, S
<1>4. m \in S /\ m \in Nat
  <2>1. m \in S
    BY <1>1, <1>3, MaxIs
  <2> HIDE DEF m
  <2>2. m \in 0..n
    BY <1>3, <2>1, Zenon
  <2> QED
    BY <1>1, <2>1, <2>2
<1> HIDE DEF m
<1>5. \A v \in 1..m : v \in Opened
  <2>1. CASE m = 0
    BY <2>1
  <2>2. CASE m # 0
    <3>1. PICK q \in Runs : version[q] = m
      BY <1>4, <2>2 DEF Opened, S
    <3> QED
      BY <2>2, <3>1 DEF IInv, VersionsNumbered
  <2> QED
    BY <2>1, <2>2
<1> DEFINE f == [v \in 1..m |-> CHOOSE q \in Runs : version[q] = v]
<1>6. \A v \in 1..m : f[v] \in Runs /\ version[f[v]] = v
  <2> SUFFICES ASSUME NEW v \in 1..m PROVE f[v] \in Runs /\ version[f[v]] = v
    OBVIOUS
  <2>1. \E q \in Runs : version[q] = v
    BY <1>5 DEF Opened
  <2>2. f[v] = CHOOSE q \in Runs : version[q] = v
    OBVIOUS
  <2> QED
    BY <2>1, <2>2, Zenon
<1>7. f \in [1..m -> Runs]
  <2>1. f = [v \in 1..m |-> f[v]]
    OBVIOUS
  <2> HIDE DEF f
  <2> QED
    BY <1>6, <2>1
<1> HIDE DEF f
<1>8. f \in [1..m -> Runs \ {r}]
  BY <1>4, <1>6, <1>7
<1>9. \A v, w \in 1..m : f[v] = f[w] => v = w
  BY <1>6
<1>10. m + 1 <= n
  BY <1>4, <1>8, <1>9, FewerThanRuns DEF n
<1>11. m + 1 \in Versions
  BY <1>1, <1>4, <1>10 DEF n, Versions
<1> QED
  BY <1>4, <1>5, <1>11, Zenon DEF m, S

\* A handler that goes on from one step to another, before it commits anything.
LEMMA StepPreserves ==
  ASSUME IInv, NEW j \in Jobs, pc[j] # "idle", IsAnalyze(j), ~Settled(j),
         NEW step \in {"analyze", "number", "persist"}, Goto(j, step),
         status' = [status EXCEPT ![j] = "RUNNING"],
         step = "number" => version[Run(j)] = 0,
         step = "persist" /\ version[Run(j)] = 0 => next'[Run(j)] # 0,
         next' \in [Runs -> Versions \cup {0}], \A r \in Runs : next[r] # 0 => next'[r] # 0,
         \A r \in Runs : next'[r] # 0 => \A v \in 1..(next'[r] - 1) : v \in Opened,
         known' \in [Runs -> SUBSET Names],
         UNCHANGED <<cancel, msg, tries, runVars, version, scenes, integrated, isCurrent, superseded, bookVars>>
  PROVE  IInv'
<1> USE DEF bookVars
<1>1. status[j] # "ABSENT" /\ tries[j] < MaxAttempts /\ msg[j] = "active"
  BY InHand DEF IInv, TypeOK, ChainTypeOK
<1>2. /\ status \in [Jobs -> Statuses] /\ pc \in [Jobs -> Steps]
      /\ \A k \in Jobs : pc[k] # "idle" <=> msg[k] = "active"
  BY DEF IInv, TypeOK, ChainTypeOK
<1>3. /\ status' \in [Jobs -> Statuses] /\ status'[j] = "RUNNING"
      /\ \A k \in Jobs \ {j} : status'[k] = status[k]
  BY <1>2 DEF Statuses, Active
<1>4. /\ pc' \in [Jobs -> Steps] /\ pc'[j] = step /\ \A k \in Jobs \ {j} : pc'[k] = pc[k]
  BY <1>2 DEF Goto, Steps
<1>5. \A k \in Jobs : pc'[k] # "idle" <=> msg'[k] = "active"
  BY <1>1, <1>2, <1>4
<1>6. ChainInStep' /\ MessagesInStep'
  BY <1>1, <1>3, <1>4, MovePreserves
<1>7. plan' = plan /\ rPc' = rPc /\ version' = version /\ Opened' = Opened
  BY DEF runVars, Opened
<1>8. RunsPlanned' /\ OneCurrent'
  BY <1>7 DEF IInv, RunsPlanned, OneCurrent
<1>9. VersionsNumbered'
  BY <1>7 DEF IInv, VersionsNumbered
<1>10. VersionsFilled'
  BY <1>7 DEF IInv, VersionsFilled, Completed
<1>11. ChainTypeOK'
  BY <1>3, <1>5 DEF IInv, TypeOK, ChainTypeOK
<1>12. TypeOK'
  BY <1>4, <1>11 DEF IInv, TypeOK, runVars
<1> QED
  BY <1>6, <1>8, <1>9, <1>10, <1>12 DEF IInv

\* The steps of an analysis before its second transaction, and both handlers' failures.
LEMMA HandlerPreserves ==
  ASSUME IInv, NEW j \in Jobs,
         \/ Gather(j) \/ Analyze(j) \/ GetNextVersionNumber(j) \/ AnalyzeFails(j)
         \/ PersistConflict(j) \/ DeltaConflict(j)
  PROVE  IInv'
<1> USE DEF versionVars, bookVars
<1>1. Run(j) \in Runs
  BY JobParts
<1>2. /\ next \in [Runs -> Versions \cup {0}] /\ known \in [Runs -> SUBSET Names]
      /\ registry \in SUBSET Names
      /\ \A r \in Runs : next[r] # 0 => \A v \in 1..(next[r] - 1) : v \in Opened
  BY DEF IInv, TypeOK, VersionsNumbered
<1>3. CASE Gather(j)
  <2>1. RowInStep(j) /\ pc[j] # "idle" /\ ~Over(j) /\ IsAnalyze(j)
    BY <1>3, InHand DEF Gather
  <2>2. ~Settled(j)
    BY <2>1 DEF RowInStep, Over
  <2>3. /\ known' = [known EXCEPT ![Run(j)] = registry] /\ Goto(j, "analyze")
        /\ status' = [status EXCEPT ![j] = "RUNNING"] /\ next' = next
        /\ UNCHANGED <<cancel, msg, tries, runVars, version, scenes, integrated, isCurrent,
                       superseded, bookVars>>
    BY <1>3 DEF Gather, MarkJobRunning
  <2>4. known' \in [Runs -> SUBSET Names]
    BY <1>2, <2>3
  <2> QED
    BY <1>2, <2>1, <2>2, <2>3, <2>4, StepPreserves
<1>4. ASSUME pc[j] \in {"analyze", "number", "persist"}
      PROVE  IsAnalyze(j) /\ status[j] = "RUNNING" /\ ~Settled(j) /\ MessageInStep(j)
             /\ status = [status EXCEPT ![j] = "RUNNING"]
  <2>1. RowInStep(j) /\ MessageInStep(j)
    BY <1>4, InHand
  <2>2. IsAnalyze(j) /\ status[j] = "RUNNING"
    BY <1>4, <2>1 DEF MessageInStep
  <2> QED
    BY <2>1, <2>2, SameStatus DEF RowInStep
<1>5. CASE Analyze(j)
  <2>1. PICK step \in {"number", "persist"} :
          /\ Goto(j, step)
          /\ step = "number" => version[Run(j)] = 0
          /\ step = "persist" => version[Run(j)] # 0
    BY <1>5 DEF Analyze
  <2>2. /\ pc[j] = "analyze" /\ next' = next /\ status' = status /\ known' = known
        /\ UNCHANGED <<cancel, msg, tries, runVars, version, scenes, integrated, isCurrent,
                       superseded, bookVars>>
    BY <1>5 DEF Analyze, rowVars
  <2> QED
    BY <1>2, <1>4, <2>1, <2>2, StepPreserves
<1>6. CASE GetNextVersionNumber(j)
  <2> DEFINE v == Max(Opened \cup {0}) + 1
  <2>1. /\ pc[j] = "number" /\ next' = [next EXCEPT ![Run(j)] = v] /\ Goto(j, "persist")
        /\ status' = status /\ known' = known
        /\ UNCHANGED <<cancel, msg, tries, runVars, version, scenes, integrated, isCurrent,
                       superseded, bookVars>>
    BY <1>6 DEF GetNextVersionNumber, rowVars
  <2>2. version[Run(j)] = 0
    BY <1>4, <2>1 DEF MessageInStep
  <2>3. v \in Versions /\ \A u \in 1..(v - 1) : u \in Opened
    <3> DEFINE m == Max(Opened \cup {0})
    <3>1. m + 1 \in Versions /\ m \in Nat /\ \A u \in 1..m : u \in Opened
      BY <1>1, <2>2, NextNumber
    <3> HIDE DEF m
    <3>2. (m + 1) - 1 = m
      BY <3>1
    <3> QED
      BY <3>1, <3>2, Zenon DEF m
  <2>4. v # 0
    BY <2>3, RunsAssumption, FS_CardinalityType DEF Versions
  <2> HIDE DEF v
  <2>5. /\ next' \in [Runs -> Versions \cup {0}] /\ next'[Run(j)] = v
        /\ \A r \in Runs : r # Run(j) => next'[r] = next[r]
    BY <1>1, <1>2, <2>1, <2>3
  <2>6. \A r \in Runs : next'[r] # 0 => \A u \in 1..(next'[r] - 1) : u \in Opened
    BY <1>2, <2>3, <2>5
  <2>7. next'[Run(j)] # 0 /\ \A r \in Runs : next[r] # 0 => next'[r] # 0
    BY <2>4, <2>5
  <2> QED
    BY <1>2, <1>4, <2>1, <2>2, <2>5, <2>6, <2>7, StepPreserves
<1>7. CASE AnalyzeFails(j)
  <2>1. PICK outcome \in {"failed", "retry"} : Finish(j, outcome)
    BY <1>7 DEF AnalyzeFails
  <2>2. PICK st \in {"FAILED", status[j]} : status' = [status EXCEPT ![j] = st]
    BY <1>7, SameStatus DEF AnalyzeFails, MarkJobFailed
  <2>3. pc[j] = "analyze" /\ cancel' = cancel /\ UNCHANGED <<runVars, versionVars, bookVars>>
    BY <1>7 DEF AnalyzeFails
  <2> QED
    BY <1>4, <2>1, <2>2, <2>3, EndPreserves
<1>8. CASE PersistConflict(j) \/ DeltaConflict(j)
  <2>1. /\ pc[j] # "idle" /\ Finish(j, "retry") /\ UNCHANGED <<status, cancel>>
        /\ UNCHANGED <<runVars, versionVars, bookVars>>
    BY <1>8 DEF PersistConflict, DeltaConflict, rowVars
  <2> QED
    BY <2>1, SameStatus, EndPreserves
<1> QED
  BY <1>3, <1>5, <1>6, <1>7, <1>8

-----------------------------------------------------------------------------
(* startAnalysis *)

\* A run that has not committed its request has no rows and no version.
LEMMA NothingYet ==
  ASSUME IInv, NEW r \in Runs, rPc[r] # "done"
  PROVE  /\ version[r] = 0
         /\ \A k \in Jobs : Run(k) = r => status[k] = "ABSENT" /\ msg[k] = "none" /\ pc[k] = "idle"
<1>1. version[r] = 0
  BY DEF IInv, VersionsNumbered
<1>2. ASSUME NEW k \in Jobs, Run(k) = r
      PROVE  status[k] = "ABSENT" /\ msg[k] = "none" /\ pc[k] = "idle"
  <2>1. status[k] = "ABSENT"
    BY <1>2, RowFacts
  <2>2. msg[k] = "none"
    BY <2>1 DEF IInv, MessagesInStep, MessageInStep
  <2> QED
    BY <2>1, <2>2 DEF IInv, TypeOK, ChainTypeOK
<1> QED
  BY <1>1, <1>2

\* The check of a request sets the plan of a run that has nothing yet.
LEMMA CheckPreserves ==
  ASSUME IInv, NEW r \in Runs, NEW p \in Plans, NEW m \in Modes, Check(r, p, m)
  PROVE  IInv'
<1> USE DEF versionVars, bookVars, chainVars, rowVars, messageVars
<1>1. /\ rPc[r] = "idle" /\ rPc' = [rPc EXCEPT ![r] = "commit"]
      /\ plan' = [plan EXCEPT ![r] = p] /\ mode' = [mode EXCEPT ![r] = m]
      /\ UNCHANGED <<status, cancel, msg, tries, pc, versionVars, bookVars>>
  BY DEF Check
<1>2. /\ rPc \in [Runs -> {"idle", "commit", "done"}] /\ plan \in [Runs -> Plans \cup {NoPlan}]
      /\ mode \in [Runs -> Modes \cup {NoMode}]
  BY DEF IInv, TypeOK
<1>3. /\ rPc' \in [Runs -> {"idle", "commit", "done"}] /\ plan' \in [Runs -> Plans \cup {NoPlan}]
      /\ mode' \in [Runs -> Modes \cup {NoMode}] /\ plan'[r] = p /\ rPc'[r] = "commit"
      /\ \A q \in Runs \ {r} : plan'[q] = plan[q] /\ rPc'[q] = rPc[q]
  BY <1>1, <1>2
<1>4. /\ version[r] = 0
      /\ \A k \in Jobs : Run(k) = r => status[k] = "ABSENT" /\ msg[k] = "none" /\ pc[k] = "idle"
  BY <1>1, NothingYet
<1>5. Opened' = Opened
  BY <1>1 DEF Opened
<1>6. ASSUME NEW k \in Jobs, status'[k] # "ABSENT" PROVE RowInStep(k)'
  <2>1. RowInStep(k) /\ Run(k) \in Runs \ {r}
    BY <1>1, <1>4, <1>6, RowFacts, JobParts
  <2>2. Place(k)' = Place(k) /\ Count(Run(k))' = Count(Run(k)) /\ (Settled(k)' <=> Settled(k))
    BY <1>1, <1>3, <2>1, PlacesKept DEF Count, Settled
  <2>3. plan'[Run(k)] = plan[Run(k)] /\ rPc'[Run(k)] = rPc[Run(k)]
    BY <1>3, <2>1
  <2> QED
    BY <1>1, <2>1, <2>2, <2>3 DEF RowInStep
<1>7. ASSUME NEW k \in Jobs PROVE MessageInStep(k)'
  <2>1. MessageInStep(k) /\ Run(k) \in Runs
    BY JobParts DEF IInv, MessagesInStep
  <2>2. CASE Run(k) = r
    BY <1>1, <1>4, <2>1, <2>2 DEF MessageInStep
  <2>3. CASE Run(k) # r
    <3>1. plan'[Run(k)] = plan[Run(k)] /\ Place(k)' = Place(k) /\ Successor(k)' = Successor(k)
      BY <1>3, <2>1, <2>3, PlacesKept
    <3> QED
      BY <1>1, <2>1, <3>1 DEF MessageInStep
  <2> QED
    BY <2>2, <2>3
<1>8. ChainInStep' /\ MessagesInStep'
  BY <1>6, <1>7 DEF ChainInStep, MessagesInStep
<1>9. RunsPlanned' /\ OneCurrent'
  BY <1>1, <1>3 DEF IInv, RunsPlanned, OneCurrent
<1>10. VersionsNumbered'
  <2>1. \A q \in Runs : version[q] # 0 => rPc'[q] = "done"
    BY <1>3, <1>4 DEF IInv, VersionsNumbered
  <2> QED
    BY <1>1, <1>5, <2>1 DEF IInv, VersionsNumbered
<1>11. VersionsFilled'
  <2>1. \A q \in Runs : version[q] # 0 => plan'[q] = plan[q]
    BY <1>3, <1>4
  <2> QED
    BY <1>1, <1>5, <2>1 DEF IInv, VersionsFilled, Completed
<1>12. TypeOK'
  BY <1>1, <1>3 DEF IInv, TypeOK, ChainTypeOK
<1> QED
  BY <1>8, <1>9, <1>10, <1>11, <1>12 DEF IInv

\* The commit of a request creates the run's first row.
LEMMA CommitPreserves == ASSUME IInv, NEW r \in Runs, Commit(r) PROVE IInv'
<1> USE DEF versionVars, messageVars
<1>1. plan[r] \in Plans
  BY DEF Commit, IInv, RunsPlanned
<1>2. PICK j \in Jobs : j = Root(r)
  BY <1>1, RootIs
<1>3. /\ rPc[r] = "commit" /\ rPc' = [rPc EXCEPT ![r] = "done"]
      /\ status' = [status EXCEPT ![j] = "CREATED"] /\ book' = "ANALYZING"
      /\ UNCHANGED <<cancel, msg, tries, pc, plan, mode, versionVars, registry, bible>>
  BY <1>2 DEF Commit
<1>4. /\ j \in Jobs /\ Run(j) = r /\ IsAnalyze(j) /\ Place(j) = 1 /\ Chapter(j) = plan[r][1]
  BY <1>1, <1>2, RootIs
<1>5. /\ version[r] = 0
      /\ \A k \in Jobs : Run(k) = r => status[k] = "ABSENT" /\ msg[k] = "none" /\ pc[k] = "idle"
  BY <1>3, NothingYet
<1>6. rPc \in [Runs -> {"idle", "commit", "done"}] /\ status \in [Jobs -> Statuses]
  BY DEF IInv, TypeOK, ChainTypeOK
<1>7. /\ rPc' \in [Runs -> {"idle", "commit", "done"}] /\ rPc'[r] = "done"
      /\ \A q \in Runs \ {r} : rPc'[q] = rPc[q]
  BY <1>3, <1>6
<1>8. /\ status' \in [Jobs -> Statuses] /\ status'[j] = "CREATED"
      /\ \A k \in Jobs \ {j} : status'[k] = status[k]
  BY <1>3, <1>4, <1>6 DEF Statuses, Active
<1>9. Opened' = Opened
  BY <1>3 DEF Opened
<1>10. ASSUME NEW k \in Jobs
      PROVE  /\ Place(k)' = Place(k) /\ Successor(k)' = Successor(k)
             /\ Count(Run(k))' = Count(Run(k))
  BY <1>3, PlacesKept DEF Count
<1>11. RowInStep(j)'
  <2>1. <<Run(j), Chapter(j), "delta">> \in Jobs /\ <<Run(j), Chapter(j), "delta">> # j
        /\ Run(<<Run(j), Chapter(j), "delta">>) = r
    BY <1>4, JobParts
  <2>2. ~Settled(j)'
    BY <1>4, <1>5, <1>8, <2>1 DEF Settled
  <2>3. Count(r)' = 0
    BY <1>3, <1>5 DEF Count
  <2>4. 1 \in DOMAIN plan[r]
    BY <1>1, PlanParts
  <2> QED
    BY <1>3, <1>4, <1>7, <1>8, <1>10, <2>2, <2>3, <2>4 DEF RowInStep
<1>12. ASSUME NEW k \in Jobs, status'[k] # "ABSENT" PROVE RowInStep(k)'
  <2>1. CASE k = j
    BY <1>11, <2>1
  <2>2. CASE k # j
    <3>1. status[k] # "ABSENT" /\ RowInStep(k) /\ Run(k) \in Runs \ {r}
      BY <1>5, <1>8, <1>12, <2>2, RowFacts, JobParts
    <3>2. /\ <<Run(k), Chapter(k), "delta">> \in Jobs \ {j}
          /\ <<Run(k), Chapter(k), "analyze">> \in Jobs \ {j}
      BY <1>4, <3>1, JobParts
    <3>3. Settled(k)' <=> Settled(k)
      BY <1>8, <1>10, <3>2 DEF Settled
    <3>4. status'[k] = status[k] /\ rPc'[Run(k)] = rPc[Run(k)]
          /\ status'[<<Run(k), Chapter(k), "analyze">>] = status[<<Run(k), Chapter(k), "analyze">>]
      BY <1>7, <1>8, <2>2, <3>1, <3>2
    <3> QED
      BY <1>3, <1>10, <3>1, <3>3, <3>4 DEF RowInStep
  <2> QED
    BY <2>1, <2>2
<1>13. ASSUME NEW k \in Jobs PROVE MessageInStep(k)'
  <2>1. MessageInStep(k)
    BY DEF IInv, MessagesInStep
  <2>2. CASE Run(k) = r
    BY <1>3, <1>5, <2>1, <2>2 DEF MessageInStep
  <2>3. CASE Run(k) # r
    <3>1. status'[k] = status[k]
      BY <1>4, <1>8, <2>3
    <3>2. pc[k] = "enqueue" => status'[Successor(k)] # "ABSENT"
      <4>1. ASSUME pc[k] = "enqueue" PROVE Successor(k) \in Jobs /\ status[Successor(k)] # "ABSENT"
        BY <2>1, <4>1, SuccessorFacts DEF MessageInStep
      <4> QED
        BY <1>8, <4>1
    <3> QED
      BY <1>3, <1>10, <2>1, <3>1, <3>2 DEF MessageInStep
  <2> QED
    BY <2>2, <2>3
<1>14. ChainInStep' /\ MessagesInStep'
  BY <1>12, <1>13 DEF ChainInStep, MessagesInStep
<1>15. RunsPlanned' /\ OneCurrent'
  BY <1>3, <1>1, <1>7 DEF IInv, RunsPlanned, OneCurrent
<1>16. VersionsNumbered'
  <2>1. \A q \in Runs : version[q] # 0 => rPc'[q] = "done"
    BY <1>7 DEF IInv, VersionsNumbered
  <2> QED
    BY <1>3, <1>9, <2>1 DEF IInv, VersionsNumbered
<1>17. VersionsFilled'
  BY <1>3, <1>9 DEF IInv, VersionsFilled, Completed
<1>18. TypeOK'
  BY <1>3, <1>7, <1>8 DEF IInv, TypeOK, ChainTypeOK
<1> QED
  BY <1>14, <1>15, <1>16, <1>17, <1>18 DEF IInv

-----------------------------------------------------------------------------
(* The transactions that do a job's work *)

\* A row whose work is not committed is of the first chapter that is not integrated.
LEMMA AtWork ==
  ASSUME IInv, NEW j \in Jobs, status[j] # "ABSENT", ~Settled(j)
  PROVE  Place(j) = Count(Run(j)) + 1 /\ Place(j) \in Nat /\ Count(Run(j)) \in Nat
<1>1. RowInStep(j) /\ Place(j) \in 1..Len(plan[Run(j)]) /\ Len(plan[Run(j)]) \in Nat
  BY RowFacts
<1>2. Count(Run(j)) \in Nat /\ Place(j) \in Nat
  BY <1>1, CountIs, JobParts
<1> QED
  BY <1>1, <1>2 DEF RowInStep

\* A job that commits its work and the row of its successor keeps messages in step.
LEMMA HandsOn ==
  ASSUME IInv, NEW j \in Jobs, NEW s \in Jobs, s = Successor(j),
         pc[j] \in Steps \ {"idle", "enqueue"}, status[j] # "SUCCEEDED",
         IsAnalyze(j) \/ Place(j) < Len(plan[Run(j)]), status[s] = "ABSENT",
         status' = MarkJobSucceeded(CreateChildJob(status, s), j), Goto(j, "enqueue"),
         UNCHANGED <<msg, tries, plan, next>>, version \in [Runs -> Versions \cup {0}],
         \A q \in Runs : version[q] # 0 => version'[q] # 0,
         \A k \in Jobs \ {j} : pc[k] = "number" => version'[Run(k)] = 0
  PROVE  /\ MessagesInStep' /\ status[j] # "ABSENT" /\ s # j
         /\ status' \in [Jobs -> Statuses] /\ status'[j] = "SUCCEEDED" /\ status'[s] = "CREATED"
         /\ \A k \in Jobs \ {j, s} : status'[k] = status[k]
         /\ pc' \in [Jobs -> Steps] /\ pc'[j] = "enqueue" /\ \A k \in Jobs \ {j} : pc'[k] = pc[k]
         /\ \A k \in Jobs : pc'[k] # "idle" <=> msg'[k] = "active"
<1>1. /\ status[j] # "ABSENT" /\ tries[j] < MaxAttempts /\ msg[j] = "active"
  BY InHand DEF IInv, TypeOK, ChainTypeOK
<1>2. s # j
  BY <1>1
<1>3. /\ status \in [Jobs -> Statuses] /\ pc \in [Jobs -> Steps]
      /\ \A k \in Jobs : pc[k] # "idle" <=> msg[k] = "active"
  BY DEF IInv, TypeOK, ChainTypeOK
<1>4. /\ status' \in [Jobs -> Statuses] /\ status'[j] = "SUCCEEDED" /\ status'[s] = "CREATED"
      /\ \A k \in Jobs \ {j, s} : status'[k] = status[k]
  BY <1>2, <1>3 DEF MarkJobSucceeded, CreateChildJob, Statuses, Active
<1>5. pc' \in [Jobs -> Steps] /\ pc'[j] = "enqueue" /\ \A k \in Jobs \ {j} : pc'[k] = pc[k]
  BY <1>3 DEF Goto, Steps
<1>6. \A k \in Jobs : pc'[k] # "idle" <=> msg'[k] = "active"
  BY <1>1, <1>3, <1>5
<1>7. msg[s] = "none" /\ tries[s] < MaxAttempts /\ pc[s] = "idle"
  BY <1>3 DEF IInv, MessagesInStep, MessageInStep
<1>8. ASSUME NEW k \in Jobs PROVE MessageInStep(k)'
  <2>1. MessageInStep(k) /\ Run(k) \in Runs
    BY JobParts DEF IInv, MessagesInStep
  <2>2. Place(k)' = Place(k) /\ Successor(k)' = Successor(k)
    BY PlacesKept
  <2>3. CASE k = j
    BY <1>1, <1>4, <1>5, <1>7, <2>2, <2>3 DEF MessageInStep
  <2>4. CASE k = s
    BY <1>2, <1>4, <1>5, <1>7, <2>4 DEF MessageInStep
  <2>5. CASE k # j /\ k # s
    <3>1. pc'[k] = pc[k] /\ msg'[k] = msg[k] /\ tries'[k] = tries[k] /\ status'[k] = status[k]
      BY <1>4, <1>5, <2>5
    <3>2. /\ pc[k] = "number" => version'[Run(k)] = 0
          /\ pc[k] = "persist" /\ version'[Run(k)] = 0 => next'[Run(k)] # 0
      BY <2>1, <2>5 DEF MessageInStep
    <3>3. ASSUME pc[k] = "enqueue" PROVE status'[Successor(k)] # "ABSENT"
      <4>1. /\ status[Successor(k)] # "ABSENT" /\ status[k] # "ABSENT"
            /\ IsAnalyze(k) \/ Place(k) < Len(plan[Run(k)])
        BY <2>1, <3>3 DEF MessageInStep
      <4>2. Successor(k) \in Jobs
        BY <4>1, SuccessorFacts
      <4> QED
        BY <1>4, <4>1, <4>2
    <3> QED
      BY <2>1, <2>2, <3>1, <3>2, <3>3 DEF MessageInStep
  <2> QED
    BY <2>3, <2>4, <2>5
<1> QED
  BY <1>1, <1>2, <1>4, <1>5, <1>6, <1>8 DEF MessagesInStep

\* What the second transaction of an analysis does to the versions: the run's is opened if it
\* has none, with the number that was read and is still free.
LEMMA PersistOpens ==
  ASSUME IInv, NEW j \in Jobs, PersistAnalysis(j), NEW r \in Runs, r = Run(j)
  PROVE  /\ version' \in [Runs -> Versions \cup {0}] /\ version'[r] # 0 /\ version'[r] \in Versions
         /\ \A q \in Runs \ {r} : version'[q] = version[q]
         /\ version[r] # 0 => version' = version /\ bible' = bible
         /\ version[r] = 0 => version'[r] = next[r] /\ next[r] \notin Opened
         /\ Opened' = Opened \cup {version'[r]}
         /\ bible' \in [status : {"ABSENT", "BUILDING", "READY"}, current : Versions \cup {0}, analyzed : Nat]
         /\ bible'.current = bible.current
<1>1. /\ version \in [Runs -> Versions \cup {0}] /\ next \in [Runs -> Versions \cup {0}]
      /\ bible \in [status : {"ABSENT", "BUILDING", "READY"}, current : Versions \cup {0}, analyzed : Nat]
  BY DEF IInv, TypeOK
<1>2. CASE version[r] # 0
  <2>1. version' = version /\ bible' = bible
    BY <1>2 DEF PersistAnalysis
  <2>2. Opened' = Opened \cup {version'[r]}
    BY <1>2, <2>1 DEF Opened
  <2> QED
    BY <1>1, <1>2, <2>1, <2>2
<1>3. CASE version[r] = 0
  <2>1. /\ next[r] \notin Opened /\ version' = [version EXCEPT ![r] = next[r]]
        /\ bible' = [bible EXCEPT !.status = "BUILDING"] /\ pc[j] = "persist"
    BY <1>3 DEF PersistAnalysis, CreateStoryBibleVersion
  <2>2. next[r] # 0 /\ next[r] \in Versions
    BY <1>1, <1>3, <2>1 DEF IInv, MessagesInStep, MessageInStep
  <2>3. /\ version' \in [Runs -> Versions \cup {0}] /\ version'[r] = next[r]
        /\ \A q \in Runs \ {r} : version'[q] = version[q]
    BY <1>1, <2>1
  <2>4. Opened' = Opened \cup {version'[r]}
    BY <1>3, <2>2, <2>3 DEF Opened
  <2>5. /\ bible' \in [status : {"ABSENT", "BUILDING", "READY"}, current : Versions \cup {0}, analyzed : Nat]
        /\ bible'.current = bible.current
    BY <1>1, <2>1
  <2> QED
    BY <1>3, <2>1, <2>2, <2>3, <2>4, <2>5
<1> QED
  BY <1>2, <1>3

\* The second transaction of an analysis keeps the invariant.
LEMMA PersistPreserves == ASSUME IInv, NEW j \in Jobs, PersistAnalysis(j) PROVE IInv'
<1>1. PICK r \in Runs : r = Run(j)
  BY JobParts
<1>2. /\ IsAnalyze(j) /\ pc[j] = "persist" /\ CreateCharacters(j)
      /\ CreateScenes(version'[r], Chapter(j))
      /\ status' = MarkJobSucceeded(CreateChildJob(status, Successor(j)), j)
      /\ Goto(j, "enqueue")
      /\ UNCHANGED <<cancel, msg, tries, rPc, plan, mode, next, known, integrated, isCurrent, superseded, book>>
  BY <1>1 DEF PersistAnalysis, runVars
<1>3. status[j] = "RUNNING" /\ RowInStep(j)
  BY <1>2, InHand DEF MessageInStep
<1>4. ~Settled(j)
  BY <1>3 DEF RowInStep
<1>5. PICK d \in Jobs : d = Successor(j)
  BY <1>2, <1>3, SuccessorFacts
<1>6. /\ d = <<r, Chapter(j), "delta">> /\ Run(d) = r /\ ~IsAnalyze(d) /\ Place(d) = Place(j)
      /\ Chapter(d) = Chapter(j) /\ j = <<r, Chapter(j), "analyze">>
  BY <1>1, <1>2, <1>3, <1>5, SuccessorFacts, JobParts
<1>7. status[d] = "ABSENT"
  BY <1>1, <1>2, <1>4, <1>6 DEF Settled
<1>8. /\ version' \in [Runs -> Versions \cup {0}] /\ version'[r] # 0 /\ version'[r] \in Versions
      /\ \A q \in Runs \ {r} : version'[q] = version[q]
      /\ version[r] # 0 => version' = version /\ bible' = bible
      /\ version[r] = 0 => version'[r] = next[r] /\ next[r] \notin Opened
      /\ Opened' = Opened \cup {version'[r]}
      /\ bible' \in [status : {"ABSENT", "BUILDING", "READY"}, current : Versions \cup {0}, analyzed : Nat]
      /\ bible'.current = bible.current
  BY <1>1, PersistOpens
<1>9. Place(j) = Count(r) + 1 /\ Place(j) \in Nat /\ Count(r) \in Nat
  BY <1>1, <1>3, <1>4, AtWork
<1>10. \A k \in Jobs \ {j} : pc[k] = "number" => version'[Run(k)] = 0
  <2> SUFFICES ASSUME NEW k \in Jobs \ {j}, pc[k] = "number" PROVE version'[Run(k)] = 0
    OBVIOUS
  <2>1. version[Run(k)] = 0 /\ IsAnalyze(k) /\ status[k] = "RUNNING" /\ RowInStep(k)
    BY InHand DEF MessageInStep
  <2>2. Place(k) = Count(Run(k)) + 1
    BY <2>1, AtWork DEF RowInStep
  <2>3. Run(k) # r
    <3> SUFFICES ASSUME Run(k) = r PROVE FALSE
      OBVIOUS
    <3>1. Place(k) = Place(j)
      BY <1>9, <2>2
    <3>2. Chapter(k) = Chapter(j)
      BY <1>1, <1>3, <2>1, <3>1, RowFacts
    <3> QED
      BY <1>1, <1>2, <2>1, <3>2, SameJob
  <2> QED
    BY <1>8, <2>1, <2>3, JobParts
<1>11. /\ MessagesInStep' /\ status[j] # "ABSENT" /\ d # j
       /\ status' \in [Jobs -> Statuses] /\ status'[j] = "SUCCEEDED" /\ status'[d] = "CREATED"
       /\ \A k \in Jobs \ {j, d} : status'[k] = status[k]
       /\ pc' \in [Jobs -> Steps] /\ pc'[j] = "enqueue" /\ \A k \in Jobs \ {j} : pc'[k] = pc[k]
       /\ \A k \in Jobs : pc'[k] # "idle" <=> msg'[k] = "active"
  <2>1. version \in [Runs -> Versions \cup {0}] /\ \A q \in Runs : version[q] # 0 => version'[q] # 0
    BY <1>8 DEF IInv, TypeOK
  <2>2. pc[j] \in Steps \ {"idle", "enqueue"} /\ status[j] # "SUCCEEDED"
    BY <1>2, <1>3 DEF Steps
  <2> QED
    BY <1>2, <1>5, <1>7, <1>10, <2>1, <2>2, HandsOn
<1>12. \A q \in Runs : Count(q)' = Count(q)
  <2> SUFFICES ASSUME NEW q \in Runs PROVE Count(q)' = Count(q)
    OBVIOUS
  <2>1. CASE version'[q] = version[q]
    BY <1>2, <2>1 DEF Count
  <2>2. CASE version'[q] # version[q]
    <3>1. q = r /\ version[r] = 0 /\ version'[r] = next[r] /\ next[r] \notin Opened /\ next[r] \in Versions
      BY <1>8, <2>2
    <3>2. integrated[next[r]] = <<>>
      BY <3>1 DEF IInv, VersionsFilled
    <3> QED
      BY <1>2, <1>8, <3>1, <3>2 DEF Count
  <2> QED
    BY <2>1, <2>2
<1>13. ASSUME NEW k \in Jobs, k # j, k # d
       PROVE  /\ Place(k)' = Place(k) /\ Count(Run(k))' = Count(Run(k))
              /\ Settled(k)' <=> Settled(k)
  <2>1. Place(k)' = Place(k) /\ Count(Run(k))' = Count(Run(k)) /\ Run(k) \in Runs
    BY <1>2, <1>12, PlacesKept, JobParts
  <2>2. ASSUME IsAnalyze(k) PROVE <<Run(k), Chapter(k), "delta">> \in Jobs \ {j, d}
    <3> DEFINE e == <<Run(k), Chapter(k), "delta">>
    <3>1. e \in Jobs /\ Run(e) = Run(k) /\ Chapter(e) = Chapter(k) /\ ~IsAnalyze(e)
      BY JobParts
    <3> HIDE DEF e
    <3>2. e # d
      BY <1>1, <1>2, <1>6, <1>13, <2>2, <3>1, SameJob
    <3> QED
      BY <1>2, <3>1, <3>2 DEF e
  <2> QED
    BY <1>11, <2>1, <2>2 DEF Settled
<1>14. RowInStep(j)'
  <2>1. Place(j)' = Place(j) /\ Count(Run(j))' = Count(Run(j))
    BY <1>1, <1>2, <1>12, PlacesKept
  <2>2. Settled(j)'
    BY <1>1, <1>2, <1>6, <1>11 DEF Settled
  <2> QED
    BY <1>2, <1>3, <1>11, <2>1, <2>2 DEF RowInStep
<1>15. RowInStep(d)'
  <2>1. Place(d)' = Place(j) /\ Count(r)' = Count(r)
    BY <1>2, <1>6, <1>12, PlacesKept
  <2>2. ~Settled(d)'
    BY <1>6, <1>9, <2>1 DEF Settled
  <2>3. rPc[r] = "done" /\ \E i \in DOMAIN plan[r] : plan[r][i] = Chapter(d)
    BY <1>1, <1>3, <1>6 DEF RowInStep
  <2>4. <<Run(d), Chapter(d), "analyze">> = j
    BY <1>6
  <2> QED
    BY <1>2, <1>6, <1>8, <1>9, <1>11, <2>1, <2>2, <2>3, <2>4 DEF RowInStep
<1>16. ASSUME NEW k \in Jobs, status'[k] # "ABSENT", k # j, k # d PROVE RowInStep(k)'
  <2>1. status'[k] = status[k] /\ pc'[k] = pc[k]
    BY <1>11, <1>16
  <2>2. RowInStep(k) /\ Run(k) \in Runs /\ <<Run(k), Chapter(k), "analyze">> \in Jobs
    BY <1>16, <2>1, RowFacts, JobParts
  <2>3. ~IsAnalyze(k) => /\ version'[Run(k)] # 0
                         /\ status'[<<Run(k), Chapter(k), "analyze">>] # "ABSENT"
    BY <1>8, <1>11, <2>2 DEF RowInStep
  <2> QED
    BY <1>2, <1>13, <1>16, <2>1, <2>2, <2>3 DEF RowInStep
<1>17. ChainInStep'
  BY <1>14, <1>15, <1>16 DEF ChainInStep
<1>18. VersionsNumbered'
  <2>1. rPc'[r] = "done"
    BY <1>1, <1>2, <1>3 DEF RowInStep
  <2>2. \A v \in 1..version'[r] : v \in Opened'
    <3>1. CASE version[r] # 0
      BY <1>8, <3>1 DEF IInv, VersionsNumbered
    <3>2. CASE version[r] = 0
      <4>1. version'[r] = next[r] /\ next[r] # 0 /\ next[r] \in Nat
        BY <1>8, <3>2 DEF Versions
      <4>2. \A v \in 1..(next[r] - 1) : v \in Opened
        BY <4>1 DEF IInv, VersionsNumbered
      <4> QED
        BY <1>8, <4>1, <4>2
    <3> QED
      BY <3>1, <3>2
  <2>3. \A q \in Runs : version'[q] = version'[r] => q = r
    <3>1. CASE version[r] # 0
      BY <1>8, <3>1 DEF IInv, VersionsNumbered
    <3>2. CASE version[r] = 0
      BY <1>8, <3>2 DEF Opened
    <3> QED
      BY <3>1, <3>2
  <2>4. ASSUME NEW q \in Runs, q # r, version'[q] # 0
        PROVE  /\ rPc'[q] = "done" /\ \A v \in 1..version'[q] : v \in Opened'
               /\ \A p \in Runs : version'[p] = version'[q] => p = q
    <3>1. version'[q] = version[q]
      BY <1>8, <2>4
    <3>2. /\ rPc[q] = "done" /\ \A v \in 1..version[q] : v \in Opened
          /\ \A p \in Runs : version[p] = version[q] => p = q
      BY <2>4, <3>1 DEF IInv, VersionsNumbered
    <3> QED
      BY <1>2, <1>8, <2>3, <2>4, <3>1, <3>2
  <2>5. \A q \in Runs : next'[q] # 0 => \A v \in 1..(next'[q] - 1) : v \in Opened'
    BY <1>2, <1>8 DEF IInv, VersionsNumbered
  <2> QED
    BY <2>1, <2>2, <2>3, <2>4, <2>5 DEF VersionsNumbered
<1>19. VersionsFilled'
  <2>1. \A v \in Versions : v \notin Opened' => integrated'[v] = <<>>
    BY <1>2, <1>8 DEF IInv, VersionsFilled
  <2>2. isCurrent' \cup superseded' \subseteq Opened'
    BY <1>2, <1>8 DEF IInv, VersionsFilled
  <2>3. ASSUME NEW q \in Runs, version'[q] # 0
        PROVE  /\ Len(integrated'[version'[q]]) <= Len(plan'[q])
               /\ \A i \in 1..Len(integrated'[version'[q]]) : integrated'[version'[q]][i] = plan'[q][i]
               /\ Completed(q)' => Len(integrated'[version'[q]]) = Len(plan'[q])
    <3>1. CASE version'[q] = version[q]
      BY <1>2, <2>3, <3>1 DEF IInv, VersionsFilled, Completed
    <3>2. CASE version'[q] # version[q]
      <4>1. q = r /\ version'[r] = next[r] /\ next[r] \notin Opened /\ next[r] \in Versions
        BY <1>8, <3>2
      <4>2. integrated[next[r]] = <<>> /\ ~Completed(q)'
        BY <1>2, <4>1 DEF IInv, VersionsFilled, Completed
      <4>3. plan[r] \in Plans
        BY <1>1, <1>3, RowFacts
      <4>4. Len(plan[r]) \in Nat
        BY <4>3, PlanParts
      <4> QED
        BY <1>2, <4>1, <4>2, <4>4
    <3> QED
      BY <3>1, <3>2
  <2> QED
    BY <2>1, <2>2, <2>3 DEF VersionsFilled
<1>20. RunsPlanned' /\ OneCurrent'
  BY <1>2, <1>8 DEF IInv, RunsPlanned, OneCurrent
<1>21. registry' \subseteq Names
  BY <1>1, <1>2, JobParts, JobsAssumption DEF IInv, TypeOK, CreateCharacters, Discovered
<1>22. scenes' \in [Versions -> Seq(Chapters)]
  <2> DEFINE v == version'[r]
             more == Append(scenes[v], Chapter(j))
  <2>1. scenes \in [Versions -> Seq(Chapters)] /\ v \in Versions /\ Chapter(j) \in Chapters
    BY <1>8, JobParts DEF IInv, TypeOK
  <2>2. scenes' = [scenes EXCEPT ![v] = more]
    BY <1>2 DEF CreateScenes
  <2>3. more \in Seq(Chapters)
    BY <2>1, AppendProperties
  <2> HIDE DEF more, v
  <2> QED
    BY <2>1, <2>2, <2>3
<1>23. TypeOK'
  <2>1. ChainTypeOK'
    BY <1>2, <1>11 DEF IInv, TypeOK, ChainTypeOK
  <2> QED
    BY <1>2, <1>8, <1>11, <1>21, <1>22, <2>1 DEF IInv, TypeOK
<1> QED
  BY <1>11, <1>17, <1>18, <1>19, <1>20, <1>23 DEF IInv

\* A delta that is run is of the chapter after those its version holds, and the version has
\* not been current.
LEMMA DeltaAtWork ==
  ASSUME IInv, NEW j \in Jobs, ~IsAnalyze(j), pc[j] = "load", ~Over(j), NEW r \in Runs, r = Run(j),
         NEW v, v = version[r]
  PROVE  /\ status[j] # "ABSENT" /\ status[j] # "SUCCEEDED" /\ msg[j] = "active" /\ rPc[r] = "done"
         /\ v \in Versions /\ v # 0 /\ v \in Opened
         /\ integrated[v] \in Seq(Chapters) /\ plan[r] \in Plans /\ Chapter(j) \in Chapters
         /\ Len(integrated[v]) \in Nat /\ Len(plan[r]) \in Nat
         /\ Count(r) = Len(integrated[v]) /\ Place(j) = Len(integrated[v]) + 1
         /\ Place(j) <= Len(plan[r]) /\ Chapter(j) = plan[r][Place(j)]
         /\ Remaining(j) = <<>> <=> Place(j) = Len(plan[r])
         /\ ~Completed(r)
<1>1. status[j] # "ABSENT" /\ RowInStep(j) /\ msg[j] = "active"
  BY InHand DEF IInv, TypeOK, ChainTypeOK
<1>2. ~Settled(j) /\ status[j] # "SUCCEEDED" /\ rPc[r] = "done" /\ version[r] # 0
  BY <1>1 DEF RowInStep, Over
<1>3. /\ Place(j) = Count(r) + 1 /\ plan[r] \in Plans /\ Place(j) \in 1..Len(plan[r])
      /\ plan[r][Place(j)] = Chapter(j) /\ Len(plan[r]) \in Nat
  BY <1>1, <1>2, AtWork, RowFacts
<1>4. /\ v \in Versions /\ v \in Opened /\ integrated[v] \in Seq(Chapters)
      /\ Count(r) = Len(integrated[v]) /\ Count(r) \in Nat
  BY <1>2, CountIs
<1>5. Remaining(j) = <<>> <=> Place(j) = Len(plan[r])
  BY <1>3, SuccessorIs
<1>6. ~Completed(r)
  <2>1. Completed(r) => Len(integrated[v]) = Len(plan[r])
    BY <1>2 DEF IInv, VersionsFilled
  <2> QED
    BY <1>3, <1>4, <2>1
<1>7. Chapter(j) \in Chapters
  BY JobParts
<1> QED
  BY <1>1, <1>2, <1>3, <1>4, <1>5, <1>6, <1>7

\* The chapter of a delta is added to its version and no other.
LEMMA IntegratesOne ==
  ASSUME IInv, NEW j \in Jobs, ~IsAnalyze(j), pc[j] = "load", ~Over(j), NEW r \in Runs, r = Run(j),
         NEW v, v = version[r], Integrates(j), UNCHANGED <<version, plan, rPc, next>>
  PROVE  /\ integrated' \in [Versions -> Seq(Chapters)]
         /\ integrated' = [integrated EXCEPT ![v] = Append(integrated[v], plan[r][Len(integrated[v]) + 1])]
         /\ Len(integrated'[v]) = Len(integrated[v]) + 1
         /\ \A i \in 1..Len(integrated'[v]) : integrated'[v][i] = plan[r][i]
         /\ \A w \in Versions \ {v} : integrated'[w] = integrated[w]
         /\ \A q \in Runs : Count(q)' = IF q = r THEN Count(q) + 1 ELSE Count(q)
         /\ VersionsNumbered' /\ Opened' = Opened
<1>1. /\ v \in Versions /\ v # 0 /\ integrated[v] \in Seq(Chapters) /\ Chapter(j) \in Chapters
      /\ Len(integrated[v]) \in Nat /\ Count(r) = Len(integrated[v])
      /\ Place(j) = Len(integrated[v]) + 1 /\ Chapter(j) = plan[r][Place(j)]
  BY DeltaAtWork
<1>2. integrated \in [Versions -> Seq(Chapters)]
  BY DEF IInv, TypeOK
<1> DEFINE more == Append(integrated[v], Chapter(j))
<1>3. integrated' = [integrated EXCEPT ![v] = more]
  BY DEF Integrates
<1>4. /\ more \in Seq(Chapters) /\ Len(more) = Len(integrated[v]) + 1
      /\ \A i \in 1..Len(integrated[v]) : more[i] = integrated[v][i]
      /\ more[Len(integrated[v]) + 1] = Chapter(j)
  BY <1>1, AppendProperties
<1>5. more = Append(integrated[v], plan[r][Len(integrated[v]) + 1])
  BY <1>1
<1> HIDE DEF more
<1>6. /\ integrated' \in [Versions -> Seq(Chapters)] /\ integrated'[v] = more
      /\ \A w \in Versions \ {v} : integrated'[w] = integrated[w]
  BY <1>1, <1>2, <1>3, <1>4
<1>7. \A i \in 1..Len(integrated[v]) : integrated[v][i] = plan[r][i]
  BY <1>1 DEF IInv, VersionsFilled
<1>8. \A i \in 1..Len(more) : more[i] = plan[r][i]
  BY <1>1, <1>4, <1>7
<1>9. ASSUME NEW q \in Runs PROVE Count(q)' = IF q = r THEN Count(q) + 1 ELSE Count(q)
  <2>1. CASE q = r
    <3>1. Count(q)' = Len(integrated'[v])
      BY <1>1, <2>1 DEF Count
    <3> QED
      BY <1>1, <1>4, <1>6, <2>1, <3>1
  <2>2. CASE q # r
    <3>1. version[q] # v /\ version[q] \in Versions \cup {0}
      BY <1>1, <2>2 DEF IInv, TypeOK, VersionsNumbered
    <3> QED
      BY <1>6, <2>2, <3>1 DEF Count
  <2> QED
    BY <2>1, <2>2
<1>10. Opened' = Opened
  BY DEF Opened
<1>11. VersionsNumbered'
  BY <1>10 DEF IInv, VersionsNumbered
<1> QED
  BY <1>3, <1>4, <1>5, <1>6, <1>8, <1>9, <1>10, <1>11

\* The rows of all runs stay in step with a delta that commits its chapter.
LEMMA DeltaRows ==
  ASSUME IInv, NEW j \in Jobs, ~IsAnalyze(j), pc[j] = "load", ~Over(j), NEW r \in Runs, r = Run(j),
         Integrates(j), UNCHANGED <<version, plan, rPc, next>>,
         status'[j] = "SUCCEEDED",
         \A k \in Jobs \ {j} : status[k] # "ABSENT" =>
           (status'[k] = status[k] \/ RootEnded(k)) /\ pc'[k] = pc[k],
         \A k \in Jobs : ~IsAnalyze(k) /\ status[k] = "ABSENT" => status'[k] = "ABSENT",
         NEW k \in Jobs, status[k] # "ABSENT"
  PROVE  RowInStep(k)'
<1>1. PICK v : v = version[r]
  OBVIOUS
<1>2. /\ status[j] # "ABSENT" /\ Count(r) \in Nat /\ Place(j) = Count(r) + 1
      /\ plan[r] \in Plans /\ Chapter(j) = plan[r][Place(j)]
  BY <1>1, DeltaAtWork
<1>3. \A q \in Runs : Count(q)' = IF q = r THEN Count(q) + 1 ELSE Count(q)
  BY <1>1, IntegratesOne
<1>4. RowInStep(k) /\ Run(k) \in Runs /\ Place(k) \in Nat /\ plan[Run(k)][Place(k)] = Chapter(k)
  BY RowFacts, JobParts
<1>5. Place(k)' = Place(k) /\ Count(Run(k)) \in Nat
  BY <1>4, PlacesKept, CountIs
<1> DEFINE e == <<Run(k), Chapter(k), "delta">>
           a == <<Run(k), Chapter(k), "analyze">>
<1>6. /\ e \in Jobs /\ Run(e) = Run(k) /\ Chapter(e) = Chapter(k) /\ ~IsAnalyze(e)
      /\ a \in Jobs /\ IsAnalyze(a)
  BY JobParts
<1>7. status'[e] = "ABSENT" <=> status[e] = "ABSENT"
  BY <1>6 DEF RootEnded
<1>8. ~IsAnalyze(k) => version'[Run(k)] # 0 /\ status'[a] # "ABSENT"
  BY <1>4, <1>6 DEF RowInStep, RootEnded
<1>9. rPc'[Run(k)] = "done" /\ \E i \in DOMAIN plan'[Run(k)] : plan'[Run(k)][i] = Chapter(k)
  BY <1>4 DEF RowInStep
<1>10. IsAnalyze(k) => (Settled(k)' <=> Settled(k))
  BY <1>7 DEF Settled
<1>11. CASE Run(k) # r
  <2>1. Count(Run(k))' = Count(Run(k)) /\ (Settled(k)' <=> Settled(k)) /\ k # j
    BY <1>3, <1>4, <1>5, <1>10, <1>11 DEF Settled
  <2>2. (status'[k] = status[k] \/ RootEnded(k)) /\ pc'[k] = pc[k]
    BY <2>1
  <2> QED
    BY <1>4, <1>5, <1>8, <1>9, <1>11, <2>1, <2>2 DEF RowInStep, RootEnded
<1>12. CASE Run(k) = r
  <2>1. Count(r)' = Count(r) + 1 /\ Place(k) <= Count(r) + 1
    BY <1>3, <1>4, <1>12 DEF RowInStep
  <2>2. Place(k) = Count(r) + 1 => Chapter(k) = Chapter(j)
    BY <1>2, <1>4, <1>12
  <2>3. CASE IsAnalyze(k)
    <3>1. Settled(k)
      <4>1. CASE Place(k) <= Count(r)
        BY <1>4, <1>12, <4>1 DEF RowInStep
      <4>2. CASE Place(k) = Count(r) + 1
        <5>1. e = j
          BY <1>6, <1>12, <2>2, <4>2, SameJob
        <5> QED
          BY <1>2, <2>3, <5>1 DEF Settled
      <4> QED
        BY <1>2, <1>4, <2>1, <4>1, <4>2
    <3>2. k # j /\ (status'[k] = status[k] \/ RootEnded(k)) /\ pc'[k] = pc[k] /\ Settled(k)'
      BY <1>10, <2>3, <3>1
    <3> QED
      BY <1>2, <1>4, <1>5, <1>8, <1>9, <1>12, <2>1, <3>1, <3>2 DEF RowInStep, RootEnded
  <2>4. CASE ~IsAnalyze(k)
    <3>1. Settled(k)'
      BY <1>5, <1>12, <2>1, <2>4 DEF Settled
    <3>2. /\ status'[k] \in {"SUCCEEDED", "CANCELLED"}
          /\ pc'[k] # "idle" => status'[k] = "SUCCEEDED"
      <4>1. CASE k = j
        BY <4>1
      <4>2. CASE k # j
        <5>1. Place(k) # Count(r) + 1
          BY <1>12, <2>2, <2>4, <4>2, SameJob
        <5>2. Place(k) <= Count(r)
          BY <1>2, <1>4, <2>1, <5>1
        <5>3. Settled(k)
          BY <1>4, <1>12, <5>2 DEF RowInStep
        <5> QED
          BY <1>4, <4>2, <5>3 DEF RowInStep, RootEnded
      <4> QED
        BY <4>1, <4>2
    <3> QED
      BY <1>2, <1>4, <1>5, <1>8, <1>9, <1>12, <2>1, <3>1, <3>2 DEF RowInStep
  <2> QED
    BY <2>3, <2>4
<1> QED
  BY <1>11, <1>12

\* What a version holds after a delta, whichever of the two it is.
LEMMA DeltaFills ==
  ASSUME IInv, NEW j \in Jobs, ~IsAnalyze(j), pc[j] = "load", ~Over(j), NEW r \in Runs, r = Run(j),
         Integrates(j), UNCHANGED <<version, plan, rPc, next>>,
         isCurrent' \cup superseded' \subseteq isCurrent \cup superseded \cup {version[r]},
         version[r] \in isCurrent' \cup superseded' => Place(j) = Len(plan[r])
  PROVE  VersionsFilled'
<1>1. PICK v : v = version[r]
  OBVIOUS
<1>2. /\ v \in Versions /\ v # 0 /\ v \in Opened /\ Len(integrated[v]) \in Nat /\ Len(plan[r]) \in Nat
      /\ Place(j) = Len(integrated[v]) + 1 /\ Place(j) <= Len(plan[r]) /\ ~Completed(r)
  BY <1>1, DeltaAtWork
<1>3. /\ Len(integrated'[v]) = Len(integrated[v]) + 1
      /\ \A i \in 1..Len(integrated'[v]) : integrated'[v][i] = plan[r][i]
      /\ \A w \in Versions \ {v} : integrated'[w] = integrated[w]
      /\ Opened' = Opened
  BY <1>1, IntegratesOne
<1>4. \A w \in Versions : w \notin Opened' => integrated'[w] = <<>>
  BY <1>2, <1>3 DEF IInv, VersionsFilled
<1>5. isCurrent' \cup superseded' \subseteq Opened'
  BY <1>1, <1>2, <1>3 DEF IInv, VersionsFilled
<1>6. ASSUME NEW q \in Runs, version'[q] # 0
      PROVE  /\ Len(integrated'[version'[q]]) <= Len(plan'[q])
             /\ \A i \in 1..Len(integrated'[version'[q]]) : integrated'[version'[q]][i] = plan'[q][i]
             /\ Completed(q)' => Len(integrated'[version'[q]]) = Len(plan'[q])
  <2>1. CASE q = r
    <3>1. Completed(q)' => Place(j) = Len(plan[r])
      BY <2>1 DEF Completed
    <3> QED
      BY <1>1, <1>2, <1>3, <2>1, <3>1
  <2>2. CASE q # r
    <3>1. version[q] # v /\ version[q] \in Versions
      BY <1>1, <1>2, <1>6, <2>2 DEF IInv, TypeOK, VersionsNumbered
    <3>2. integrated'[version'[q]] = integrated[version[q]]
      BY <1>3, <3>1
    <3>3. Completed(q)' => Completed(q)
      BY <1>1, <3>1 DEF Completed
    <3> QED
      BY <1>6, <3>2, <3>3 DEF IInv, VersionsFilled
  <2> QED
    BY <2>1, <2>2
<1> QED
  BY <1>4, <1>5, <1>6 DEF VersionsFilled

\* A delta that hands on to the next chapter keeps the invariant.
LEMMA ContinuePreserves == ASSUME IInv, NEW j \in Jobs, ContinueDelta(j) PROVE IInv'
<1>1. PICK r \in Runs : r = Run(j)
  BY JobParts
<1>2. PICK v : v = version[r]
  OBVIOUS
<1>3. /\ ~IsAnalyze(j) /\ pc[j] = "load" /\ ~Over(j) /\ Remaining(j) # <<>> /\ Integrates(j)
      /\ bible' = [bible EXCEPT !.analyzed = @ + 1]
      /\ status' = MarkJobSucceeded(CreateChildJob(status, Successor(j)), j) /\ Goto(j, "enqueue")
      /\ UNCHANGED <<cancel, msg, tries, rPc, plan, mode, version, next, known, scenes, isCurrent,
                     superseded, registry, book>>
  BY DEF ContinueDelta, runVars
<1>4. /\ status[j] # "ABSENT" /\ status[j] # "SUCCEEDED" /\ rPc[r] = "done" /\ v # 0
      /\ plan[r] \in Plans /\ Len(plan[r]) \in Nat /\ Count(r) \in Nat /\ Place(j) = Count(r) + 1
      /\ Place(j) < Len(plan[r]) /\ ~Completed(r)
  BY <1>1, <1>2, <1>3, DeltaAtWork
<1>5. PICK s \in Jobs : s = Successor(j)
  BY <1>1, <1>3, <1>4, SuccessorFacts
<1>6. Run(s) = r /\ IsAnalyze(s) /\ Place(s) = Count(r) + 2
  BY <1>1, <1>3, <1>4, <1>5, SuccessorFacts
<1>7. \A k \in Jobs : Run(k) = r /\ Place(k) = Count(r) + 2 => status[k] = "ABSENT"
  <2> SUFFICES ASSUME NEW k \in Jobs, Run(k) = r, Place(k) = Count(r) + 2, status[k] # "ABSENT"
               PROVE  FALSE
    OBVIOUS
  <2>1. RowInStep(k)
    BY RowFacts
  <2>2. Place(k) <= Count(r) + 1
    BY <2>1 DEF RowInStep
  <2> QED
    BY <1>4, <2>2
<1>8. /\ MessagesInStep' /\ s # j
      /\ status' \in [Jobs -> Statuses] /\ status'[j] = "SUCCEEDED" /\ status'[s] = "CREATED"
      /\ \A k \in Jobs \ {j, s} : status'[k] = status[k]
      /\ pc' \in [Jobs -> Steps] /\ pc'[j] = "enqueue" /\ \A k \in Jobs \ {j} : pc'[k] = pc[k]
      /\ \A k \in Jobs : pc'[k] # "idle" <=> msg'[k] = "active"
  <2>1. status[s] = "ABSENT"
    BY <1>6, <1>7
  <2>2. /\ pc[j] \in Steps \ {"idle", "enqueue"} /\ version \in [Runs -> Versions \cup {0}]
        /\ \A k \in Jobs \ {j} : pc[k] = "number" => version'[Run(k)] = 0
    BY <1>3 DEF IInv, TypeOK, MessagesInStep, MessageInStep, Steps
  <2> QED
    BY <1>1, <1>3, <1>4, <1>5, <2>1, <2>2, HandsOn
<1>9. \A q \in Runs : Count(q)' = IF q = r THEN Count(q) + 1 ELSE Count(q)
  BY <1>1, <1>2, <1>3, IntegratesOne
<1>10. ASSUME NEW k \in Jobs, status[k] # "ABSENT" PROVE RowInStep(k)'
  <2>1. /\ \A i \in Jobs \ {j} : status[i] # "ABSENT" => status'[i] = status[i] /\ pc'[i] = pc[i]
        /\ \A i \in Jobs : ~IsAnalyze(i) /\ status[i] = "ABSENT" => status'[i] = "ABSENT"
    BY <1>4, <1>6, <1>7, <1>8
  <2> QED
    BY <1>1, <1>3, <1>8, <1>10, <2>1, DeltaRows
<1>11. RowInStep(s)'
  <2> DEFINE e == <<r, Chapter(s), "delta">>
  <2>1. e \in Jobs /\ Run(e) = r /\ Chapter(e) = Chapter(s) /\ ~IsAnalyze(e)
    BY JobParts
  <2>2. PICK i \in 1..Len(plan[r]) : i = Count(r) + 2 /\ plan[r][i] = Chapter(s)
    <3> DEFINE n == Place(j) + 1
    <3>1. n \in 1..Len(plan[r]) /\ n = Count(r) + 2
      BY <1>4
    <3>2. Successor(j) = <<r, plan[r][n], "analyze">>
      BY <1>1, <1>3, <1>4, RowFacts, SuccessorIs
    <3>3. plan[r][n] \in Chapters
      BY <1>4, <3>1, PlanParts
    <3> HIDE DEF n
    <3>4. Chapter(s) = plan[r][n]
      BY <1>5, <3>2, <3>3, JobParts
    <3> QED
      BY <3>1, <3>4
  <2>3. i \in DOMAIN plan[r]
    BY <1>4, PlanParts
  <2> HIDE DEF e
  <2>4. Place(e) = i
    BY <1>4, <2>1, <2>2, PlaceIs
  <2>5. status'[e] = "ABSENT"
    BY <1>3, <1>6, <1>7, <1>8, <2>1, <2>2, <2>4, <1>4
  <2>6. ~Settled(s)'
    BY <1>6, <2>5 DEF Settled, e
  <2>7. Place(s)' = Count(r) + 2 /\ Count(r)' = Count(r) + 1
    BY <1>3, <1>6, <1>9, PlacesKept
  <2>8. rPc'[r] = "done" /\ plan'[r] = plan[r]
    BY <1>3, <1>4
  <2> QED
    BY <1>4, <1>6, <1>8, <2>2, <2>3, <2>6, <2>7, <2>8 DEF RowInStep
<1>12. ChainInStep'
  BY <1>4, <1>8, <1>10, <1>11 DEF ChainInStep
<1>13. VersionsNumbered' /\ integrated' \in [Versions -> Seq(Chapters)]
  BY <1>1, <1>2, <1>3, IntegratesOne
<1>14. VersionsFilled'
  BY <1>1, <1>3, <1>4, DeltaFills DEF Completed
<1>15. /\ bible' \in [status : {"ABSENT", "BUILDING", "READY"}, current : Versions \cup {0}, analyzed : Nat]
       /\ bible'.current = bible.current
  <2>1. bible \in [status : {"ABSENT", "BUILDING", "READY"}, current : Versions \cup {0}, analyzed : Nat]
    BY DEF IInv, TypeOK
  <2>2. bible.analyzed + 1 \in Nat
    BY <2>1
  <2>3. bible' = [bible EXCEPT !.analyzed = bible.analyzed + 1]
    BY <1>3
  <2> QED
    BY <2>1, <2>2, <2>3
<1>16. RunsPlanned' /\ OneCurrent'
  BY <1>3, <1>15 DEF IInv, RunsPlanned, OneCurrent
<1>17. TypeOK'
  <2>1. ChainTypeOK'
    BY <1>3, <1>8 DEF IInv, TypeOK, ChainTypeOK
  <2> QED
    BY <1>3, <1>8, <1>13, <1>15, <2>1 DEF IInv, TypeOK
<1> QED
  BY <1>8, <1>12, <1>13, <1>14, <1>16, <1>17 DEF IInv

\* While a delta is at work, the first job of its chain has done its work.
LEMMA RootSettled ==
  ASSUME IInv, NEW j \in Jobs, ~IsAnalyze(j), pc[j] = "load", ~Over(j)
  PROVE  LET root == Root(Run(j)) IN
         /\ root \in Jobs \ {j}
         /\ status[root] # "ABSENT" =>
              status[root] = "SUCCEEDED" \/ (status[root] = "CANCELLED" /\ pc[root] = "idle" /\ Settled(root))
<1> DEFINE r == Run(j)
           root == Root(r)
<1>1. /\ r \in Runs /\ status[j] # "ABSENT" /\ Count(r) \in Nat /\ Place(j) = Count(r) + 1
      /\ plan[r] \in Plans /\ Chapter(j) = plan[r][Place(j)]
  BY JobParts, DeltaAtWork, CountIs
<1>2. root \in Jobs /\ Run(root) = r /\ Chapter(root) = plan[r][1] /\ IsAnalyze(root) /\ Place(root) = 1
  BY <1>1, RootIs
<1> HIDE DEF r, root
<1>3. ASSUME status[root] # "ABSENT" PROVE Settled(root)
  <2>1. CASE Count(r) = 0
    <3>1. Chapter(j) = Chapter(root)
      BY <1>1, <1>2, <2>1
    <3>2. <<Run(root), Chapter(root), "delta">> = j
      BY <1>2, <3>1, SameJob, JobParts DEF r
    <3> QED
      BY <1>1, <1>2, <3>2 DEF Settled
  <2>2. CASE Count(r) # 0
    <3>1. RowInStep(root)
      BY <1>2, <1>3, RowFacts
    <3>2. Place(root) <= Count(r)
      BY <1>1, <1>2, <2>2
    <3> QED
      BY <1>2, <3>1, <3>2 DEF RowInStep
  <2> QED
    BY <2>1, <2>2
<1>4. status[root] # "ABSENT" =>
        status[root] = "SUCCEEDED" \/ (status[root] = "CANCELLED" /\ pc[root] = "idle" /\ Settled(root))
  BY <1>2, <1>3, RowFacts DEF RowInStep
<1> QED
  BY <1>2, <1>4 DEF root, r

\* The delta of the last chapter keeps the invariant: its version is complete, and the only
\* one that is current.
LEMMA FinishPreserves == ASSUME IInv, NEW j \in Jobs, FinishDelta(j) PROVE IInv'
<1>1. PICK r \in Runs : r = Run(j)
  BY JobParts
<1>2. PICK v : v = version[r]
  OBVIOUS
<1>3. /\ ~IsAnalyze(j) /\ pc[j] = "load" /\ ~Over(j) /\ Remaining(j) = <<>> /\ Integrates(j)
      /\ isCurrent' = {v} /\ superseded' = superseded \cup (isCurrent \ {v})
      /\ bible' = [status |-> "READY", current |-> v, analyzed |-> bible.analyzed + 1]
      /\ status' = FinalizeRootJob([status EXCEPT ![j] = "SUCCEEDED"], Root(Run(j)))
      /\ book' = "ANALYZED" /\ Finish(j, "completed")
      /\ UNCHANGED <<cancel, rPc, plan, mode, version, next, known, scenes, registry>>
  BY <1>1, <1>2 DEF FinishDelta, FinalizeStoryBible, MarkJobSucceeded, runVars
<1>4. /\ status[j] # "ABSENT" /\ v \in Versions /\ v # 0 /\ Place(j) = Len(plan[r]) /\ ~Completed(r)
  BY <1>1, <1>2, <1>3, DeltaAtWork
<1>5. /\ msg' \in [Jobs -> {"none", "wait", "active", "completed", "failed", "removed"}]
      /\ tries' \in [Jobs -> 0..MaxAttempts] /\ pc' \in [Jobs -> Steps]
      /\ \A k \in Jobs : pc'[k] # "idle" <=> msg'[k] = "active"
      /\ \A k \in Jobs \ {j} : pc'[k] = pc[k] /\ msg'[k] = msg[k] /\ tries'[k] = tries[k]
      /\ pc'[j] = "idle" /\ msg[j] # "none"
      /\ msg'[j] \in {"none", "wait", "active"} => tries'[j] < MaxAttempts
  BY <1>3, FinishTyped
<1>6. /\ status' \in [Jobs -> Statuses] /\ status'[j] = "SUCCEEDED"
      /\ \A k \in Jobs \ {j} : status'[k] = status[k] \/ RootEnded(k)
  <2> DEFINE root == Root(Run(j))
             rows == [status EXCEPT ![j] = "SUCCEEDED"]
  <2>1. /\ root \in Jobs \ {j}
        /\ status[root] # "ABSENT" => status[root] = "SUCCEEDED" \/
             (status[root] = "CANCELLED" /\ pc[root] = "idle" /\ Settled(root))
    BY <1>3, RootSettled
  <2>2. status \in [Jobs -> Statuses] /\ rows \in [Jobs -> Statuses]
    BY DEF IInv, TypeOK, ChainTypeOK, Statuses
  <2>3. rows[j] = "SUCCEEDED" /\ \A k \in Jobs \ {j} : rows[k] = status[k]
    BY <2>2
  <2>4. status' = FinalizeRootJob(rows, root)
    BY <1>3
  <2> HIDE DEF root, rows
  <2>5. status' = [rows EXCEPT ![root] =
                     IF rows[root] \in {"ABSENT", "SUCCEEDED", "FAILED"} THEN rows[root] ELSE "SUCCEEDED"]
    BY <2>4 DEF FinalizeRootJob
  <2>6. ASSUME NEW k \in Jobs \ {j} PROVE status'[k] = status[k] \/ RootEnded(k)
    BY <2>1, <2>2, <2>3, <2>5 DEF RootEnded
  <2>7. status' \in [Jobs -> Statuses] /\ status'[j] = "SUCCEEDED"
    BY <2>1, <2>2, <2>3, <2>5 DEF Statuses
  <2> QED
    BY <2>6, <2>7
<1>7. MessagesInStep'
  BY <1>3, <1>4, <1>5, <1>6, MessagesMove
<1>8. ChainInStep'
  <2>1. \A k \in Jobs : status'[k] # "ABSENT" => status[k] # "ABSENT"
    BY <1>4, <1>6 DEF RootEnded
  <2>2. \A k \in Jobs : ~IsAnalyze(k) /\ status[k] = "ABSENT" => status'[k] = "ABSENT"
    BY <1>4, <1>6 DEF RootEnded
  <2>3. ASSUME NEW k \in Jobs, status[k] # "ABSENT" PROVE RowInStep(k)'
    BY <1>1, <1>3, <1>4, <1>5, <1>6, <2>2, <2>3, DeltaRows
  <2> QED
    BY <2>1, <2>3 DEF ChainInStep
<1>9. VersionsNumbered' /\ integrated' \in [Versions -> Seq(Chapters)]
  BY <1>1, <1>2, <1>3, IntegratesOne
<1>10. VersionsFilled'
  BY <1>1, <1>2, <1>3, <1>4, DeltaFills
<1>11. OneCurrent'
  BY <1>2, <1>3, <1>4 DEF OneCurrent, Completed
<1>12. RunsPlanned'
  BY <1>3 DEF IInv, RunsPlanned
<1>13. TypeOK'
  <2>1. ChainTypeOK'
    BY <1>3, <1>5, <1>6 DEF IInv, TypeOK, ChainTypeOK
  <2>2. bible' \in [status : {"ABSENT", "BUILDING", "READY"}, current : Versions \cup {0}, analyzed : Nat]
    BY <1>3, <1>4 DEF IInv, TypeOK
  <2>3. isCurrent' \subseteq Versions /\ superseded' \subseteq Versions
    BY <1>3, <1>4 DEF IInv, TypeOK
  <2> QED
    BY <1>3, <1>5, <1>9, <2>1, <2>2, <2>3 DEF IInv, TypeOK
<1> QED
  BY <1>7, <1>8, <1>9, <1>10, <1>11, <1>12, <1>13 DEF IInv

-----------------------------------------------------------------------------
(* The theorems *)

\* Nothing has been asked for at first.
LEMMA InitSatisfies == Init => IInv
<1> SUFFICES ASSUME Init PROVE IInv
  OBVIOUS
<1>1. Opened = {}
  BY DEF Init, Opened
<1>2. ChainTypeOK /\ pc \in [Jobs -> Steps]
  BY ChainAssumption DEF Init, ChainInit, ChainTypeOK, Statuses, Steps
<1>3. /\ scenes \in [Versions -> Seq(Chapters)] /\ integrated \in [Versions -> Seq(Chapters)]
      /\ version \in [Runs -> Versions \cup {0}] /\ next \in [Runs -> Versions \cup {0}]
  BY EmptySeq DEF Init
<1>4. TypeOK
  BY <1>2, <1>3 DEF Init, TypeOK
<1>5. ChainInStep /\ RunsPlanned
  BY DEF Init, ChainInit, ChainInStep, RunsPlanned
<1>6. MessagesInStep
  <2> SUFFICES ASSUME NEW j \in Jobs PROVE MessageInStep(j)
    BY DEF MessagesInStep
  <2>1. msg[j] = "none" /\ pc[j] = "idle" /\ tries[j] = 0
    BY DEF Init, ChainInit
  <2> QED
    BY <2>1, ChainAssumption DEF MessageInStep
<1>7. VersionsNumbered /\ VersionsFilled /\ OneCurrent
  BY <1>1 DEF Init, VersionsNumbered, VersionsFilled, OneCurrent
<1> QED
  BY <1>4, <1>5, <1>6, <1>7 DEF IInv

\* A step that changes nothing keeps the invariant.
LEMMA StutterPreserves == IInv /\ UNCHANGED vars => IInv'
<1> SUFFICES ASSUME IInv, UNCHANGED vars PROVE IInv'
  OBVIOUS
<1> USE DEF vars, chainVars, rowVars, messageVars, bounds, versionVars, bookVars
<1>1. RunsPlanned' /\ VersionsNumbered' /\ VersionsFilled' /\ OneCurrent'
  BY RestKept
<1>2. ASSUME NEW k \in Jobs
      PROVE  /\ Place(k)' = Place(k) /\ Successor(k)' = Successor(k)
             /\ Count(Run(k))' = Count(Run(k)) /\ (Settled(k)' <=> Settled(k))
  <2>1. Place(k)' = Place(k) /\ Successor(k)' = Successor(k)
    BY PlacesKept DEF runVars
  <2> QED
    BY <2>1 DEF Count, Settled
<1>3. ChainInStep'
  BY <1>2 DEF IInv, ChainInStep, RowInStep, runVars
<1>4. MessagesInStep'
  BY <1>2 DEF IInv, MessagesInStep, MessageInStep, runVars
<1>5. TypeOK'
  BY DEF IInv, TypeOK, ChainTypeOK, runVars
<1> QED
  BY <1>1, <1>3, <1>4, <1>5 DEF IInv

\* Every step of the API, the worker and the faults keeps the inductive invariant.
LEMMA NextPreserves == IInv /\ [Next]_vars => IInv'
<1> SUFFICES ASSUME IInv, [Next]_vars PROVE IInv'
  OBVIOUS
<1>1. CASE UNCHANGED vars
  BY <1>1, StutterPreserves
<1>2. ASSUME NEW r \in Runs, (\E p \in Plans, m \in Modes : Check(r, p, m)) \/ Commit(r) \/ Dispatches(r)
      PROVE  IInv'
  BY <1>2, CheckPreserves, CommitPreserves, DispatchPreserves
<1>3. ASSUME NEW j \in Jobs, Works(j) \/ Disturbs(j) PROVE IInv'
  <2>1. CASE \/ Gather(j) \/ Analyze(j) \/ GetNextVersionNumber(j) \/ AnalyzeFails(j)
             \/ PersistConflict(j) \/ DeltaConflict(j)
    BY <2>1, HandlerPreserves
  <2>2. CASE PersistAnalysis(j)
    BY <2>2, PersistPreserves
  <2>3. CASE FinishDelta(j)
    BY <2>3, FinishPreserves
  <2>4. CASE ContinueDelta(j)
    BY <2>4, ContinuePreserves
  <2>5. CASE /\ Delivers(j) \/ Enqueue(j, Successor(j)) \/ Faults(j)
             /\ UNCHANGED <<runVars, versionVars, bookVars>>
    BY <2>5, TakePreserves, FaultPreserves, EnqueuePreserves DEF Delivers
  <2> QED
    BY <1>3, <2>1, <2>2, <2>3, <2>4, <2>5 DEF Works, Disturbs
<1> QED
  BY <1>1, <1>2, <1>3 DEF Next

\* The inductive invariant holds of every behaviour of the analyses: rows, messages and
\* versions keep in step however handlers are redelivered, die, fail or are cancelled.
THEOREM Invariance == Spec => []IInv
<1> QED
  BY InitSatisfies, NextPreserves, PTL DEF Spec

\* Every variable keeps its type.
THEOREM TypeCorrect == Spec => []TypeOK
<1>1. IInv => TypeOK
  BY DEF IInv
<1> QED
  BY <1>1, Invariance, PTL

\* finalize_story_bible leaves one version current, the one story_bible points to, however
\* many runs end and in whatever order.
THEOREM OneVersionIsCurrent == Spec => []OneCurrent
<1>1. IInv => OneCurrent
  BY DEF IInv
<1> QED
  BY <1>1, Invariance, PTL

-----------------------------------------------------------------------------
(* The chain implements the numbered versions *)

\* The run of a version, when there is one only.
LEMMA ChosenRun ==
  ASSUME NEW f, NEW v, NEW q \in Runs, f[q] = v, \A p \in Runs : f[p] = v => p = q
  PROVE  /\ (CHOOSE p \in Runs : f[p] = v) = q
         /\ \E p \in Runs : f[p] = v
<1>1. \E p \in Runs : f[p] = v
  OBVIOUS
<1> DEFINE c == CHOOSE p \in Runs : f[p] = v
<1>2. c \in Runs /\ f[c] = v
  BY <1>1, Zenon
<1> HIDE DEF c
<1>3. c = q
  BY <1>2
<1> QED
  BY <1>1, <1>3 DEF c

\* Versions are positive numbers.
LEMMA VersionsArePositive == \A v \in Versions : v \in Nat /\ v # 0
  BY RunsAssumption, FS_CardinalityType DEF Versions

\* The plan of an opened version is the one of its run, before a step and after it.
LEMMA PlanOfIs ==
  /\ \A q \in Runs, v \in Versions : IInv /\ version[q] = v => PlanOf(v) = plan[q]
  /\ \A q \in Runs, v \in Versions : IInv' /\ version'[q] = v => PlanOf(v)' = plan'[q]
  /\ \A v \in Versions : v \notin Opened => PlanOf(v) = <<>>
  /\ \A v \in Versions : v \notin Opened' => PlanOf(v)' = <<>>
<1>1. ASSUME NEW q \in Runs, NEW v \in Versions, IInv, version[q] = v PROVE PlanOf(v) = plan[q]
  <2>1. \A p \in Runs : version[p] = v => p = q
    BY <1>1, VersionsArePositive DEF IInv, VersionsNumbered
  <2>2. (CHOOSE p \in Runs : version[p] = v) = q /\ \E p \in Runs : version[p] = v
    BY <1>1, <2>1, ChosenRun
  <2> QED
    BY <2>2, Zenon DEF PlanOf
<1>2. ASSUME NEW q \in Runs, NEW v \in Versions, IInv', version'[q] = v PROVE PlanOf(v)' = plan'[q]
  <2>1. \A p \in Runs : version'[p] = v => p = q
    BY <1>2, VersionsArePositive DEF IInv, VersionsNumbered
  <2>2. (CHOOSE p \in Runs : version'[p] = v) = q /\ \E p \in Runs : version'[p] = v
    BY <1>2, <2>1, ChosenRun
  <2> QED
    BY <2>2, Zenon DEF PlanOf
<1>3. ASSUME NEW v \in Versions, v \notin Opened PROVE PlanOf(v) = <<>>
  <2>1. ~\E p \in Runs : version[p] = v
    BY <1>3, VersionsArePositive DEF Opened
  <2> QED
    BY <2>1, Zenon DEF PlanOf
<1>4. ASSUME NEW v \in Versions, v \notin Opened' PROVE PlanOf(v)' = <<>>
  <2>1. ~\E p \in Runs : version'[p] = v
    BY <1>4, VersionsArePositive DEF Opened
  <2> QED
    BY <2>1, Zenon DEF PlanOf
<1> QED
  BY <1>1, <1>2, <1>3, <1>4

\* A step that opens no version, and leaves the plan of every run that has one, leaves the
\* plans of the versions.
LEMMA PlansKept ==
  ASSUME IInv, IInv', version' = version, \A q \in Runs : version[q] # 0 => plan'[q] = plan[q]
  PROVE  /\ Opened' = Opened
         /\ [v \in Versions |-> PlanOf(v)]' = [v \in Versions |-> PlanOf(v)]
<1>1. Opened' = Opened
  BY DEF Opened
<1>2. ASSUME NEW v \in Versions PROVE PlanOf(v)' = PlanOf(v)
  <2>1. CASE v \in Opened
    <3>1. PICK q \in Runs : version[q] = v
      BY <2>1 DEF Opened
    <3>2. PlanOf(v) = plan[q] /\ PlanOf(v)' = plan'[q]
      BY <3>1, PlanOfIs
    <3> QED
      BY <3>1, <3>2, VersionsArePositive
  <2>2. CASE v \notin Opened
    BY <1>1, <2>2, PlanOfIs
  <2> QED
    BY <2>1, <2>2
<1> QED
  BY <1>1, <1>2

\* The other steps are invisible to readers of the story bible.
LEMMA Invisible ==
  ASSUME IInv, IInv', version' = version, \A q \in Runs : version[q] # 0 => plan'[q] = plan[q],
         integrated' = integrated, bible'.current = bible.current
  PROVE  UNCHANGED Bible!vars
  BY PlansKept DEF Bible!vars

\* The second transaction of a run's first analysis opens a version, with the number after
\* the newest; one of any later chapter is invisible.
LEMMA PersistImplements ==
  ASSUME IInv, IInv', NEW j \in Jobs, PersistAnalysis(j)
  PROVE  [Bible!Next]_Bible!vars
<1>1. PICK r \in Runs : r = Run(j)
  BY JobParts
<1>2. integrated' = integrated /\ plan' = plan
  BY DEF PersistAnalysis, runVars
<1>3. /\ version'[r] # 0 /\ version'[r] \in Versions
      /\ \A q \in Runs \ {r} : version'[q] = version[q]
      /\ version[r] # 0 => version' = version /\ bible' = bible
      /\ version[r] = 0 => version'[r] = next[r] /\ next[r] \notin Opened
      /\ Opened' = Opened \cup {version'[r]} /\ bible'.current = bible.current
  BY <1>1, PersistOpens
<1>4. CASE version[r] # 0
  BY <1>2, <1>3, <1>4, Invisible
<1>5. CASE version[r] = 0
  <2>1. PICK v \in Versions : v = version'[r]
    BY <1>3
  <2>2. v = next[r] /\ v \notin Opened /\ v \in Nat /\ v # 0 /\ Opened' = Opened \cup {v}
    BY <1>3, <1>5, <2>1, VersionsArePositive
  <2>3. \A u \in 1..(v - 1) : u \in Opened
    BY <2>2 DEF IInv, VersionsNumbered
  <2>4. ASSUME NEW w \in Opened PROVE w < v
    <3>1. PICK q \in Runs : version[q] = w /\ w # 0
      BY DEF Opened
    <3>2. w \in Nat /\ \A u \in 1..w : u \in Opened
      BY <3>1, VersionsArePositive DEF IInv, TypeOK, VersionsNumbered
    <3> QED
      BY <2>2, <3>2
  <2>5. v = 1 \/ v - 1 \in Opened
    BY <2>2, <2>3
  <2>6. plan[r] \in Plans
    <3>1. rPc[r] = "done"
      BY <1>1, InHand DEF PersistAnalysis, RowInStep
    <3> QED
      BY <3>1 DEF IInv, RunsPlanned
  <2>7. ASSUME NEW w \in Versions PROVE PlanOf(w)' = IF w = v THEN plan[r] ELSE PlanOf(w)
    <3>1. CASE w = v
      BY <1>2, <2>1, <3>1, PlanOfIs
    <3>2. CASE w # v /\ w \in Opened
      <4>1. PICK q \in Runs : version[q] = w
        BY <3>2 DEF Opened
      <4>2. version'[q] = w
        BY <1>3, <1>5, <4>1, VersionsArePositive
      <4> QED
        BY <1>2, <3>2, <4>1, <4>2, PlanOfIs
    <3>3. CASE w # v /\ w \notin Opened
      BY <2>2, <3>3, PlanOfIs
    <3> QED
      BY <3>1, <3>2, <3>3
  <2>8. [w \in Versions |-> PlanOf(w)]' = [[w \in Versions |-> PlanOf(w)] EXCEPT ![v] = plan[r]]
    BY <2>7
  <2>9. Bible!Open(v, plan[r])
    BY <1>2, <1>3, <2>2, <2>4, <2>5, <2>8 DEF Bible!Open
  <2> QED
    BY <2>6, <2>9 DEF Bible!Next
<1> QED
  BY <1>4, <1>5

\* A delta adds the chapter that is next in the plan, and the last one publishes the version.
LEMMA DeltaImplements ==
  ASSUME IInv, IInv', NEW j \in Jobs, ContinueDelta(j) \/ FinishDelta(j)
  PROVE  Bible!Next
<1>1. PICK r \in Runs : r = Run(j)
  BY JobParts
<1>2. PICK v : v = version[r]
  OBVIOUS
<1>3. /\ ~IsAnalyze(j) /\ pc[j] = "load" /\ ~Over(j) /\ Integrates(j)
      /\ UNCHANGED <<version, plan, rPc, next>>
  BY DEF ContinueDelta, FinishDelta, runVars
<1>4. /\ v \in Versions /\ v \in Opened /\ plan[r] \in Plans
      /\ Len(integrated[v]) \in Nat /\ Len(plan[r]) \in Nat
      /\ Place(j) = Len(integrated[v]) + 1 /\ Place(j) <= Len(plan[r])
      /\ Remaining(j) = <<>> <=> Place(j) = Len(plan[r])
  BY <1>1, <1>2, <1>3, DeltaAtWork
<1>5. /\ integrated' \in [Versions -> Seq(Chapters)]
      /\ integrated' = [integrated EXCEPT ![v] = Append(integrated[v], plan[r][Len(integrated[v]) + 1])]
      /\ Len(integrated'[v]) = Len(integrated[v]) + 1
      /\ \A i \in 1..Len(integrated'[v]) : integrated'[v][i] = plan[r][i]
  BY <1>1, <1>2, <1>3, IntegratesOne
<1> DEFINE P == [w \in Versions |-> PlanOf(w)]
<1>6. P' = P /\ Opened' = Opened
  BY <1>3, PlansKept
<1>7. P[v] = plan[r]
  BY <1>2, <1>4, PlanOfIs
<1> HIDE DEF P
<1>8. Bible!AddUnit(v)
  <2>1. v \in Opened /\ Len(integrated[v]) < Len(P[v])
    BY <1>4, <1>7
  <2>2. integrated' = [integrated EXCEPT ![v] = Append(@, P[v][Len(@) + 1])]
    BY <1>5, <1>7
  <2> QED
    BY <2>1, <2>2 DEF Bible!AddUnit, P
<1>9. integrated'[v] = P[v] <=> Place(j) = Len(plan[r])
  <2>1. integrated'[v] \in Seq(Chapters) /\ plan[r] \in Seq(Chapters)
    BY <1>4, <1>5, PlanParts
  <2>2. Len(integrated'[v]) = Len(plan[r]) => integrated'[v] = plan[r]
    BY <1>5, <2>1, SeqEqual
  <2> QED
    BY <1>4, <1>5, <1>7, <2>2
<1>10. CASE ContinueDelta(j)
  <2>1. bible'.current = bible.current
    BY <1>10 DEF ContinueDelta, IInv, TypeOK
  <2>2. integrated'[v] # P[v]
    BY <1>4, <1>9, <1>10 DEF ContinueDelta
  <2>3. Bible!Extend(v)
    BY <1>6, <1>8, <2>1, <2>2 DEF Bible!Extend, P
  <2> QED
    BY <1>4, <2>3 DEF Bible!Next
<1>11. CASE FinishDelta(j)
  <2>1. bible'.current = v
    BY <1>1, <1>2, <1>11 DEF FinishDelta, FinalizeStoryBible
  <2>2. integrated'[v] = P[v]
    BY <1>4, <1>9, <1>11 DEF FinishDelta
  <2>3. Bible!Publish(v)
    BY <1>6, <1>8, <2>1, <2>2 DEF Bible!Publish, P
  <2> QED
    BY <1>4, <2>3 DEF Bible!Next
<1> QED
  BY <1>10, <1>11

\* Every step is a step of the numbered versions, or invisible to their readers.
LEMMA NextImplements == IInv /\ IInv' /\ [Next]_vars => [Bible!Next]_Bible!vars
<1> SUFFICES ASSUME IInv, IInv', [Next]_vars PROVE [Bible!Next]_Bible!vars
  OBVIOUS
<1> USE DEF versionVars, bookVars
<1>1. CASE UNCHANGED vars
  BY <1>1, Invisible DEF vars, runVars
<1>2. ASSUME NEW r \in Runs, NEW p \in Plans, NEW m \in Modes, Check(r, p, m) PROVE UNCHANGED Bible!vars
  <2>1. version[r] = 0
    BY <1>2, NothingYet DEF Check
  <2>2. plan' = [plan EXCEPT ![r] = p] /\ plan \in [Runs -> Plans \cup {NoPlan}]
        /\ UNCHANGED <<version, integrated, bible>>
    BY <1>2 DEF Check, IInv, TypeOK
  <2>3. \A q \in Runs : version[q] # 0 => plan'[q] = plan[q]
    BY <2>1, <2>2
  <2> QED
    BY <2>2, <2>3, Invisible
<1>3. ASSUME NEW r \in Runs, Commit(r) \/ Dispatches(r) PROVE UNCHANGED Bible!vars
  BY <1>3, Invisible DEF Commit, Dispatches, runVars
<1>4. ASSUME NEW j \in Jobs, Works(j) \/ Disturbs(j) PROVE [Bible!Next]_Bible!vars
  <2>1. CASE \/ Gather(j) \/ Analyze(j) \/ GetNextVersionNumber(j) \/ AnalyzeFails(j)
             \/ PersistConflict(j) \/ DeltaConflict(j)
    <3>1. UNCHANGED <<version, plan, integrated, bible>>
      BY <2>1 DEF Gather, Analyze, GetNextVersionNumber, AnalyzeFails, PersistConflict, DeltaConflict, runVars
    <3> QED
      BY <3>1, Invisible
  <2>2. CASE PersistAnalysis(j)
    BY <2>2, PersistImplements
  <2>3. CASE ContinueDelta(j) \/ FinishDelta(j)
    BY <2>3, DeltaImplements
  <2>4. CASE UNCHANGED <<runVars, versionVars, bookVars>>
    BY <2>4, Invisible DEF runVars
  <2> QED
    BY <1>4, <2>1, <2>2, <2>3, <2>4 DEF Works, Disturbs
<1> QED
  BY <1>1, <1>2, <1>3, <1>4 DEF Next

\* No version is open at first.
LEMMA InitImplements == Init => Bible!Init
<1> SUFFICES ASSUME Init PROVE Bible!Init
  OBVIOUS
<1>1. Opened = {}
  BY DEF Init, Opened
<1>2. \A v \in Versions : PlanOf(v) = <<>>
  BY <1>1, PlanOfIs
<1> QED
  BY <1>1, <1>2 DEF Init, Bible!Init

\* The chain of analyze_scene and build_story_bible_delta jobs implements the numbered
\* versions: they are opened in order, each is filled with the chapters of its run in order and
\* once each, however often a job is redelivered, and becomes the current one when it is
\* complete and never changes again.
THEOREM ChainImplementsVersions == Spec => VersionsKept
<1> QED
  BY Invariance, InitImplements, NextImplements, PTL DEF Spec, VersionsKept, Bible!Spec

=============================================================================
