--------------------------- MODULE DirectionProofs ---------------------------
(***************************************************************************)
(* Proofs about Direction, for every number of runs, every set of plans    *)
(* and every number of attempts, troubles, cancellations and edits.  IInv  *)
(* is inductive; the audio scripts implement the numbered versions of      *)
(* VersionChain, and a claimed chunk is changed only by a request that     *)
(* read it before the claim.                                               *)
(***************************************************************************)
EXTENDS Direction, FiniteSetTheorems, FunctionTheorems, SequenceTheorems,
        NaturalsInduction, WellFoundedInduction, TLAPS

-----------------------------------------------------------------------------
(* Numbers *)

\* A nonempty set of numbers has a least element.
LEMMA LeastNumber ==
  ASSUME NEW S \in SUBSET Nat, S # {}
  PROVE  \E m \in S : \A k \in S : m <= k
<1> DEFINE R == {ss \in Nat \X Nat : ss[1] < ss[2]}
<1>1. IsWellFoundedOn(R, Nat)
  BY NatLessThanWellFounded DEF OpToRel
<1> HIDE DEF R
<1>2. PICK m \in S : \A k \in S : ~(<<k, m>> \in R)
  BY <1>1, WFMin, Zenon
<1>3. ASSUME NEW k \in S, k < m PROVE <<k, m>> \in R
  <2>1. <<k, m>> \in Nat \X Nat /\ <<k, m>>[1] = k /\ <<k, m>>[2] = m
    OBVIOUS
  <2> QED
    BY <1>3, <2>1, Zenon DEF R
<1>4. ASSUME NEW k \in S PROVE m <= k
  <2>1. ~(k < m)
    BY <1>2, <1>3, Zenon
  <2>2. k \in Nat /\ m \in Nat
    OBVIOUS
  <2> QED
    BY <2>1, <2>2
<1> QED
  BY <1>4

\* The maximum of a nonempty set of numbers up to a bound.
LEMMA MaxIs ==
  ASSUME NEW n \in Nat, NEW S \in SUBSET (0..n), S # {}
  PROVE  Max(S) \in S /\ \A k \in S : k <= Max(S)
<1> DEFINE U == {u \in Nat : \A k \in S : k <= u}
<1>1. n \in U
  OBVIOUS
<1>2. PICK u \in U : \A w \in U : u <= w
  BY <1>1, LeastNumber
<1>3. u \in S
  <2> SUFFICES ASSUME u \notin S PROVE FALSE
    OBVIOUS
  <2>1. \A k \in S : k <= u - 1
    OBVIOUS
  <2>2. PICK k \in S : TRUE
    OBVIOUS
  <2>3. u - 1 \in U
    BY <2>1, <2>2
  <2> QED
    BY <1>2, <2>3
<1>4. \E m \in S : \A k \in S : m >= k
  BY <1>3
<1> DEFINE top == CHOOSE m \in S : \A k \in S : m >= k
<1>5. top \in S /\ \A k \in S : top >= k
  BY <1>4, Zenon
<1>6. Max(S) = top
  BY Zenon DEF Max
<1> HIDE DEF top
<1> QED
  BY <1>5, <1>6

-----------------------------------------------------------------------------
(* Jobs, plans and places *)

\* A job is of a run and a chapter, or the revision of a chapter.
LEMMA JobParts ==
  /\ \A j \in Jobs : /\ j = <<Run(j), Chapter(j)>>
                     /\ Generates(j) => Run(j) \in Runs /\ Chapter(j) \in Chapters
                     /\ ~Generates(j) => Run(j) = 0 /\ Chapter(j) \in Revised
  /\ \A r \in Runs, c \in Chapters :
       /\ <<r, c>> \in Jobs /\ Run(<<r, c>>) = r /\ Chapter(<<r, c>>) = c /\ Generates(<<r, c>>)
  /\ \A r \in Runs : r \in Nat /\ r # 0
<1>1. Jobs = (Runs \X Chapters) \cup ({0} \X Revised) /\ \A r \in Runs : r \in Nat /\ r # 0
  BY DirectionAssumption
<1>2. ASSUME NEW j \in Jobs
      PROVE  /\ j = <<Run(j), Chapter(j)>>
             /\ Generates(j) => Run(j) \in Runs /\ Chapter(j) \in Chapters
             /\ ~Generates(j) => Run(j) = 0 /\ Chapter(j) \in Revised
  BY <1>1 DEF Run, Chapter, Generates
<1>3. ASSUME NEW r \in Runs, NEW c \in Chapters
      PROVE  <<r, c>> \in Jobs /\ Run(<<r, c>>) = r /\ Chapter(<<r, c>>) = c /\ Generates(<<r, c>>)
  BY <1>1 DEF Run, Chapter, Generates
<1> QED
  BY <1>1, <1>2, <1>3

\* What a plan is.
LEMMA PlanParts ==
  ASSUME NEW p \in Plans
  PROVE  /\ p \in Seq(Chapters) /\ p # <<>> /\ Len(p) \in Nat \ {0} /\ DOMAIN p = 1..Len(p)
         /\ \A i \in 1..Len(p) : p[i] \in Chapters
         /\ \A i, k \in 1..Len(p) : p[i] = p[k] => i = k
<1>1. p \in Seq(Chapters) /\ p # <<>>
  BY DirectionAssumption
<1>2. Len(p) \in Nat /\ DOMAIN p = 1..Len(p) /\ \A i \in 1..Len(p) : p[i] \in Chapters
  BY <1>1, LenProperties
<1>3. Len(p) # 0
  BY <1>1
<1>4. \A i, k \in DOMAIN p : p[i] = p[k] => i = k
  BY DirectionAssumption
<1> QED
  BY <1>1, <1>2, <1>3, <1>4

\* The place of a chapter in its run's plan, which is its only one.
LEMMA PlaceIs ==
  ASSUME NEW j \in Jobs, plan[Run(j)] \in Plans, NEW i \in 1..Len(plan[Run(j)]),
         plan[Run(j)][i] = Chapter(j)
  PROVE  Place(j) = i
<1> DEFINE p == plan[Run(j)]
           place == CHOOSE n \in DOMAIN p : p[n] = Chapter(j)
<1>1. /\ DOMAIN p = 1..Len(p) /\ \A m, k \in 1..Len(p) : p[m] = p[k] => m = k
  BY PlanParts
<1>2. Place(j) = place
  BY DEF Place
<1>3. place \in DOMAIN p /\ p[place] = Chapter(j)
  BY <1>1, Zenon
<1> HIDE DEF p, place
<1> QED
  BY <1>1, <1>2, <1>3 DEF p

\* A plan that a step leaves alone has its root, places and successors where they were.
LEMMA PlacesKept ==
  ASSUME NEW j \in Jobs, plan'[Run(j)] = plan[Run(j)]
  PROVE  /\ Place(j)' = Place(j) /\ Remaining(j)' = Remaining(j)
         /\ Successor(j)' = Successor(j) /\ (IsRoot(j)' <=> IsRoot(j))
<1>1. Place(j)' = Place(j)
  BY Zenon DEF Place
<1>2. Remaining(j)' = Remaining(j)
  BY <1>1, Zenon DEF Remaining
<1>3. Successor(j)' = Successor(j)
  BY <1>2, Zenon DEF Successor
<1>4. IsRoot(j)' <=> IsRoot(j)
  BY Zenon DEF IsRoot, Root
<1> QED
  BY <1>1, <1>2, <1>3, <1>4

\* What follows from a place: what remains after it, and the job that is next.
LEMMA SuccessorIs ==
  ASSUME NEW j \in Jobs, plan[Run(j)] \in Plans, Place(j) \in 1..Len(plan[Run(j)]),
         plan[Run(j)][Place(j)] = Chapter(j)
  PROVE  /\ Remaining(j) = <<>> <=> Place(j) = Len(plan[Run(j)])
         /\ Place(j) < Len(plan[Run(j)]) => Successor(j) = <<Run(j), plan[Run(j)][Place(j) + 1]>>
<1> DEFINE p == plan[Run(j)]
           i == Place(j)
<1>1. /\ Len(p) \in Nat /\ i \in 1..Len(p) /\ i + 1 \in Int
      /\ \A k \in (i + 1)..Len(p) : p[k] \in Chapters
  BY PlanParts
<1>2. Remaining(j) = SubSeq(p, i + 1, Len(p))
  BY DEF Remaining
<1> HIDE DEF p, i
<1>3. /\ SubSeq(p, i + 1, Len(p)) \in Seq(Chapters)
      /\ Len(SubSeq(p, i + 1, Len(p))) = IF i + 1 <= Len(p) THEN Len(p) - (i + 1) + 1 ELSE 0
      /\ \A k \in 1..(Len(p) - (i + 1) + 1) : SubSeq(p, i + 1, Len(p))[k] = p[i + 1 + k - 1]
  BY <1>1, SubSeqProperties
<1>4. Remaining(j) = <<>> <=> i = Len(p)
  <2> DEFINE rest == SubSeq(p, i + 1, Len(p))
  <2>1. rest \in Seq(Chapters) /\ (rest = <<>> <=> Len(rest) = 0)
    BY <1>3, EmptySeq
  <2> HIDE DEF rest
  <2>2. Len(rest) = 0 <=> i = Len(p)
    BY <1>1, <1>3 DEF rest
  <2> QED
    BY <1>2, <2>1, <2>2 DEF rest
<1>5. ASSUME i < Len(p) PROVE Head(Remaining(j)) = p[i + 1]
  BY <1>1, <1>2, <1>3, <1>5
<1> QED
  BY <1>4, <1>5 DEF Successor, p, i

\* The first job of a run that has a plan.
LEMMA RootIs ==
  ASSUME NEW r \in Runs, plan[r] \in Plans
  PROVE  /\ Root(r) \in Jobs /\ Run(Root(r)) = r /\ Chapter(Root(r)) = plan[r][1]
         /\ Generates(Root(r)) /\ IsRoot(Root(r)) /\ Place(Root(r)) = 1
<1>1. Len(plan[r]) \in Nat \ {0} /\ 1 \in 1..Len(plan[r]) /\ plan[r][1] \in Chapters
  BY PlanParts
<1>2. Root(r) = <<r, plan[r][1]>>
  BY DEF Root
<1>3. /\ Root(r) \in Jobs /\ Run(Root(r)) = r /\ Chapter(Root(r)) = plan[r][1]
      /\ Generates(Root(r))
  BY <1>1, <1>2, JobParts
<1> QED
  BY <1>1, <1>3, PlaceIs DEF IsRoot

-----------------------------------------------------------------------------
(* The numbers of scripts *)

\* There is a version number for every attempt and every trouble.
LEMMA AttemptsCounted ==
  /\ IsFiniteSet(Attempts) /\ Cardinality(Attempts) \in Nat
  /\ Versions = 1..(Cardinality(Runs) * MaxAttempts + MaxTroubles)
  /\ Cardinality(Runs) * MaxAttempts + MaxTroubles \in Nat
  /\ Cardinality(Attempts) <= Cardinality(Runs) * MaxAttempts + MaxTroubles
<1> DEFINE A == 1..MaxAttempts
           B == 1..MaxTroubles
           S == Runs \X A
           T == {0} \X B
<1>1. /\ IsFiniteSet(Runs) /\ MaxAttempts \in Nat \ {0} /\ MaxTroubles \in Nat
  BY DirectionAssumption, ChainAssumption
<1>2. /\ IsFiniteSet(A) /\ Cardinality(A) = MaxAttempts
      /\ IsFiniteSet(B) /\ Cardinality(B) = MaxTroubles
  BY <1>1, FS_Interval
<1>3. IsFiniteSet({0}) /\ Cardinality({0}) = 1
  BY FS_Singleton
<1> HIDE DEF A, B
<1>4. IsFiniteSet(S) /\ Cardinality(S) = Cardinality(Runs) * MaxAttempts
  BY <1>1, <1>2, FS_Product
<1>5. IsFiniteSet(T) /\ Cardinality(T) = 1 * MaxTroubles
  BY <1>2, <1>3, FS_Product
<1>6. Cardinality(T) = MaxTroubles
  BY <1>1, <1>5
<1> HIDE DEF S, T
<1>7. /\ IsFiniteSet(S \cup T) /\ Cardinality(S \cup T) = Cardinality(S) + Cardinality(T) - Cardinality(S \cap T)
  BY <1>4, <1>5, FS_Union
<1>8. IsFiniteSet(S \cap T)
  BY <1>4, FS_Subset
<1>9. Cardinality(S \cap T) \in Nat /\ Cardinality(S \cup T) \in Nat /\ Cardinality(S) \in Nat
  BY <1>4, <1>7, <1>8, FS_CardinalityType
<1>10. Attempts = S \cup T
  BY DEF Attempts, S, T, A, B
<1> QED
  BY <1>1, <1>4, <1>6, <1>7, <1>9, <1>10 DEF Versions

\* Versions are positive numbers.
LEMMA VersionsArePositive == \A v \in Versions : v \in Nat /\ v # 0
  BY AttemptsCounted

\* The scripts have the numbers up to some one; the query for the newest finds it.
LEMMA ScriptsUpTo ==
  ASSUME ScriptsNumbered
  PROVE  /\ Max(Opened \cup {0}) \in Nat
         /\ Opened = 1..Max(Opened \cup {0})
<1> DEFINE N == Cardinality(Runs) * MaxAttempts + MaxTroubles
           n == Max(Opened \cup {0})
<1>1. N \in Nat /\ Opened \subseteq 1..N
  BY AttemptsCounted DEF Opened
<1> HIDE DEF N
<1>2. Opened \cup {0} \in SUBSET (0..N) /\ Opened \cup {0} # {}
  BY <1>1
<1>3. n \in Opened \cup {0} /\ \A k \in Opened \cup {0} : k <= n
  BY <1>1, <1>2, MaxIs
<1> HIDE DEF n
<1>4. n \in Nat
  BY <1>1, <1>3
<1>5. \A v \in Opened : v \in 1..n
  BY <1>1, <1>3, <1>4
<1>6. \A u \in 1..n : u \in Opened
  BY <1>3, <1>4 DEF ScriptsNumbered
<1> QED
  BY <1>4, <1>5, <1>6 DEF n

\* While an attempt has opened no script yet, there is a number left for it.
LEMMA RoomLeft ==
  ASSUME ScriptsNumbered, ScriptsCounted, NEW a \in Attempts, ~Used(a)
  PROVE  Max(Opened \cup {0}) + 1 \in Versions
<1> DEFINE n == Max(Opened \cup {0})
<1>1. n \in Nat /\ Opened = 1..n
  BY ScriptsUpTo
<1>2. PICK f \in [Opened -> Attempts] :
        /\ \A v, w \in Opened : f[v] = f[w] => v = w
        /\ \A v \in Opened : Used(f[v])
  BY DEF ScriptsCounted
<1> HIDE DEF n
<1> DEFINE S == 1..(n + 1)
           g == [v \in S |-> IF v = n + 1 THEN a ELSE f[v]]
<1>3. \A v \in S : v = n + 1 \/ v \in Opened
  BY <1>1
<1>4. g \in [S -> Attempts]
  BY <1>2, <1>3
<1>5. ASSUME NEW v \in S, NEW w \in S, g[v] = g[w] PROVE v = w
  BY <1>1, <1>2, <1>3, <1>5
<1>6. Cardinality(S) = n + 1
  BY <1>1, FS_Interval
<1> HIDE DEF S, g
<1>7. g \in Injection(S, Attempts)
  BY <1>4, <1>5, Fun_IsInj
<1>8. Cardinality(S) <= Cardinality(Attempts)
  BY <1>7, AttemptsCounted, FS_Injection
<1> QED
  BY <1>1, <1>6, <1>8, AttemptsCounted DEF n

\* Scripts stay counted where none is opened and no attempt is given back.
LEMMA CountedKept ==
  ASSUME ScriptsCounted, Opened' = Opened, \A a \in Attempts : Used(a) => Used(a)'
  PROVE  ScriptsCounted'
<1>1. PICK f \in [Opened -> Attempts] :
        /\ \A v, w \in Opened : f[v] = f[w] => v = w
        /\ \A v \in Opened : Used(f[v])
  BY DEF ScriptsCounted
<1>2. \A v \in Opened : Used(f[v])'
  BY <1>1
<1> QED
  BY <1>1, <1>2 DEF ScriptsCounted

-----------------------------------------------------------------------------
(* Rows and messages *)

\* A script holds a number of chapters.
LEMMA CountIs ==
  ASSUME Core, NEW r \in Runs
  PROVE  /\ Count(r) \in Nat
         /\ script[r] # 0 => /\ script[r] \in Versions /\ script[r] \in Opened
                             /\ content[script[r]] \in Seq(Chapters)
                             /\ Count(r) = Len(content[script[r]])
         /\ script[r] = 0 => Count(r) = 0
<1>1. script[r] # 0 => script[r] \in Versions /\ content[script[r]] \in Seq(Chapters)
  BY DEF Core, RowsTyped
<1>2. script[r] # 0 => Len(content[script[r]]) \in Nat
  BY <1>1, LenProperties
<1>3. script[r] # 0 => script[r] \in Opened
  BY <1>1, JobParts DEF Core, ScriptsNumbered, Opened
<1> QED
  BY <1>1, <1>2, <1>3 DEF Count

\* What a row says of its run: it is planned, and the row's chapter has a place in the plan.
LEMMA RowFacts ==
  ASSUME Core, NEW j \in Jobs, Generates(j), status[j] # "ABSENT"
  PROVE  /\ RowInStep(j) /\ rPc[Run(j)] = "done" /\ plan[Run(j)] \in Plans
         /\ Place(j) \in 1..Len(plan[Run(j)]) /\ plan[Run(j)][Place(j)] = Chapter(j)
         /\ Len(plan[Run(j)]) \in Nat /\ Run(j) \in Runs
<1>1. Run(j) \in Runs
  BY JobParts
<1>2. RowInStep(j)
  BY DEF Core, ChainInStep
<1>3. rPc[Run(j)] = "done" /\ plan[Run(j)] \in Plans
  BY <1>1, <1>2 DEF RowInStep, Core, RunsPlanned
<1>4. DOMAIN plan[Run(j)] = 1..Len(plan[Run(j)]) /\ Len(plan[Run(j)]) \in Nat
  BY <1>3, PlanParts
<1>5. PICK i \in 1..Len(plan[Run(j)]) : plan[Run(j)][i] = Chapter(j)
  BY <1>2, <1>4 DEF RowInStep
<1>6. Place(j) = i
  BY <1>3, <1>5, PlaceIs
<1> QED
  BY <1>1, <1>2, <1>3, <1>4, <1>5, <1>6

\* The successor of a job with one is the job of the chapter at the next place.
LEMMA SuccessorFacts ==
  ASSUME Core, NEW j \in Jobs, Generates(j), status[j] # "ABSENT", Place(j) < Len(plan[Run(j)])
  PROVE  /\ Successor(j) \in Jobs /\ Run(Successor(j)) = Run(j) /\ Generates(Successor(j))
         /\ Successor(j) # j /\ Place(Successor(j)) = Place(j) + 1
         /\ Chapter(Successor(j)) = plan[Run(j)][Place(j) + 1] /\ ~IsRoot(Successor(j))
<1> DEFINE r == Run(j)
           p == plan[r]
           i == Place(j) + 1
           s == <<r, p[i]>>
<1>1. /\ r \in Runs /\ p \in Plans /\ Place(j) \in 1..Len(p)
      /\ p[Place(j)] = Chapter(j) /\ Len(p) \in Nat
  BY RowFacts
<1>2. Successor(j) = s
  BY <1>1, SuccessorIs
<1>3. i \in 1..Len(p) /\ p[i] \in Chapters
  BY <1>1, PlanParts
<1> HIDE DEF i
<1>4. s \in Jobs /\ Run(s) = r /\ Chapter(s) = p[i] /\ Generates(s)
  BY <1>1, <1>3, JobParts
<1> HIDE DEF s
<1>5. Place(s) = i
  BY <1>1, <1>3, <1>4, PlaceIs
<1>6. s # j /\ s # Root(r)
  <2>1. Place(Root(r)) = 1
    BY <1>1, RootIs
  <2> QED
    BY <1>1, <1>5, <2>1 DEF i
<1> QED
  BY <1>2, <1>4, <1>5, <1>6 DEF i, IsRoot

\* Where the message and the handler of one job move, and its row stays a row, every row and
\* message stays in step.
LEMMA MovePreserves ==
  ASSUME Core, NEW j \in Jobs, UNCHANGED <<rPc, plan, script, content>>,
         \A k \in Jobs \ {j} : /\ status'[k] = status[k] /\ pc'[k] = pc[k]
                               /\ msg'[k] = msg[k] /\ tries'[k] = tries[k],
         \A r \in Runs : next[r] # 0 => next'[r] # 0,
         status[j] # "ABSENT", status'[j] # "ABSENT",
         Generates(j) /\ Done(j) => /\ status'[j] \in {"SUCCEEDED", "CANCELLED"}
                                    /\ pc'[j] # "idle" => status'[j] = "SUCCEEDED",
         msg'[j] \in {"none", "wait", "active"} => tries'[j] < MaxAttempts,
         pc'[j] # "enqueue",
         pc'[j] \in {"draft", "decide"} => Generates(j),
         pc'[j] = "revise" => ~Generates(j),
         pc'[j] = "draft" => /\ IsRoot(j) /\ status'[j] \notin {"SUCCEEDED", "FAILED"}
                             /\ next'[Run(j)] # 0,
         pc'[j] = "decide" => status'[j] = "RUNNING" /\ script[Run(j)] # 0,
         msg[j] = "none" => msg'[j] = "none" \/ ~Generates(j) \/ IsRoot(j)
  PROVE  ChainInStep' /\ MessagesInStep'
<1>1. plan' = plan /\ rPc' = rPc /\ script' = script /\ content' = content
  OBVIOUS
<1>2. \A k \in Jobs : status'[k] = "ABSENT" <=> status[k] = "ABSENT"
  OBVIOUS
<1>3. ASSUME NEW k \in Jobs
      PROVE  /\ Place(k)' = Place(k) /\ Successor(k)' = Successor(k) /\ (IsRoot(k)' <=> IsRoot(k))
             /\ Count(Run(k))' = Count(Run(k)) /\ (Done(k)' <=> Done(k))
  <2>1. Place(k)' = Place(k) /\ Successor(k)' = Successor(k) /\ (IsRoot(k)' <=> IsRoot(k))
    BY <1>1, PlacesKept
  <2>2. Count(Run(k))' = Count(Run(k))
    BY <1>1 DEF Count
  <2> QED
    BY <2>1, <2>2 DEF Done
<1>4. ASSUME NEW k \in Jobs, Generates(k), status'[k] # "ABSENT" PROVE RowInStep(k)'
  <2>1. RowInStep(k)
    BY <1>2, <1>4, RowFacts
  <2>2. Done(k) => /\ status'[k] \in {"SUCCEEDED", "CANCELLED"}
                   /\ pc'[k] # "idle" => status'[k] = "SUCCEEDED"
    BY <1>4, <2>1 DEF RowInStep
  <2>3. rPc'[Run(k)] = "done" /\ \E i \in DOMAIN plan'[Run(k)] : plan'[Run(k)][i] = Chapter(k)
    BY <1>1, <2>1 DEF RowInStep
  <2>4. Place(k)' <= Count(Run(k))' + 1
    BY <1>3, <2>1 DEF RowInStep
  <2> QED
    BY <1>3, <2>2, <2>3, <2>4 DEF RowInStep
<1>5. ASSUME NEW k \in Jobs PROVE MessageInStep(k)'
  <2>1. MessageInStep(k)
    BY DEF Core, MessagesInStep
  <2>2. CASE k = j
    BY <1>1, <1>3, <2>2 DEF MessageInStep, Over
  <2>3. CASE k # j
    <3>1. /\ msg'[k] # "none" => status'[k] # "ABSENT"
          /\ msg'[k] \in {"none", "wait", "active"} => tries'[k] < MaxAttempts
          /\ pc'[k] \in {"draft", "decide", "enqueue"} => Generates(k)
          /\ pc'[k] = "revise" => ~Generates(k)
          /\ pc'[k] = "decide" => status'[k] = "RUNNING" /\ script'[Run(k)] # 0
      BY <1>1, <2>1, <2>3 DEF MessageInStep
    <3>2. pc'[k] = "draft" => IsRoot(k) /\ ~Over(k)' /\ next'[Run(k)] # 0
      BY <2>1, <2>3, JobParts DEF MessageInStep, Over
    <3>3. ASSUME pc'[k] = "enqueue"
          PROVE  /\ status'[k] = "SUCCEEDED" /\ Place(k) < Len(plan[Run(k)])
                 /\ msg'[Successor(k)] = "none" /\ status'[Successor(k)] # "ABSENT"
      <4>1. /\ status[k] = "SUCCEEDED" /\ Place(k) < Len(plan[Run(k)]) /\ Generates(k)
            /\ msg[Successor(k)] = "none" /\ status[Successor(k)] # "ABSENT"
        BY <2>1, <2>3, <3>3 DEF MessageInStep
      <4>2. Successor(k) \in Jobs /\ Generates(Successor(k)) /\ ~IsRoot(Successor(k))
        BY <4>1, SuccessorFacts
      <4>3. msg'[Successor(k)] = "none"
        BY <4>1, <4>2
      <4> QED
        BY <1>2, <2>3, <4>1, <4>2, <4>3
    <3> QED
      BY <1>1, <1>3, <3>1, <3>2, <3>3 DEF MessageInStep
  <2> QED
    BY <2>2, <2>3
<1> QED
  BY <1>4, <1>5 DEF ChainInStep, MessagesInStep, Generates, Run

\* Runs and scripts that a step leaves alone stay as they should be.
LEMMA RestKept ==
  ASSUME Core, UNCHANGED <<runVars, scriptVars>>
  PROVE  /\ RunsPlanned' /\ ScriptsNumbered' /\ ScriptsFilled' /\ Opened' = Opened
         /\ current' \in Opened' \cup {0}
<1>1. /\ plan' = plan /\ rPc' = rPc /\ script' = script /\ next' = next
      /\ content' = content /\ owner' = owner /\ current' = current
  BY DEF runVars, scriptVars
<1>2. Opened' = Opened
  BY <1>1 DEF Opened
<1>3. RunsPlanned' /\ ScriptsFilled' /\ current' \in Opened' \cup {0}
  BY <1>1, <1>2 DEF Core, RowsTyped, RunsPlanned, ScriptsFilled
<1>4. ScriptsNumbered'
  BY <1>1, <1>2 DEF Core, ScriptsNumbered
<1> QED
  BY <1>2, <1>3, <1>4

\* A job that a handler has, or whose message waits: its row is there, and an attempt left.
LEMMA InHand ==
  ASSUME Core, NEW j \in Jobs, msg[j] \in {"wait", "active"} \/ pc[j] # "idle"
  PROVE  /\ status[j] # "ABSENT" /\ tries[j] \in 0..MaxAttempts /\ tries[j] < MaxAttempts
         /\ MessageInStep(j) /\ (Generates(j) => RowInStep(j))
<1>1. msg[j] \in {"wait", "active"} /\ tries[j] \in 0..MaxAttempts
  BY DEF Core, RowsTyped, ChainTypeOK
<1>2. MessageInStep(j)
  BY DEF Core, MessagesInStep
<1>3. status[j] # "ABSENT" /\ tries[j] < MaxAttempts
  BY <1>1, <1>2 DEF MessageInStep
<1> QED
  BY <1>1, <1>2, <1>3, RowFacts

-----------------------------------------------------------------------------
(* Attempts *)

\* A job that moves gives no attempt back, unless its worker dies.
LEMMA AttemptsKept ==
  ASSUME Core, NEW j \in Jobs, UNCHANGED <<rPc, plan>>,
         \A k \in Jobs \ {j} : pc'[k] = pc[k] /\ tries'[k] = tries[k],
         tries'[j] \in {tries[j], tries[j] + 1},
         pc[j] \in {"decide", "enqueue"} =>
           \/ tries'[j] = tries[j] + 1
           \/ tries'[j] = tries[j] /\ pc'[j] \in {"decide", "enqueue"},
         troubles' \in {troubles, troubles + 1}
  PROVE  \A a \in Attempts : Used(a) => Used(a)'
<1> SUFFICES ASSUME NEW a \in Attempts, Used(a) PROVE Used(a)'
  OBVIOUS
<1>1. /\ troubles \in Nat /\ tries[j] \in Nat /\ \A k \in Jobs : tries[k] \in Nat
  BY ChainAssumption DEF Core, RowsTyped, ChainTypeOK
<1>2. CASE a[1] = 0
  <2>1. a[2] \in Nat
    BY <1>2, JobParts, ChainAssumption DEF Attempts
  <2> QED
    BY <1>1, <1>2, <2>1 DEF Used
<1>3. CASE a[1] # 0
  <2>1. PICK r \in Runs, n \in 1..MaxAttempts : a[1] = r /\ a[2] = n
    BY <1>3 DEF Attempts
  <2>2. n \in Nat /\ r # 0 /\ rPc[r] = "done"
    BY <1>3, <2>1, ChainAssumption DEF Used
  <2>3. plan[r] \in Plans /\ Root(r) \in Jobs
    BY <2>2, RootIs DEF Core, RunsPlanned
  <2>4. PICK k \in Jobs : k = Root(r) /\ k = Root(r)'
    BY <2>3 DEF Root
  <2>5. n <= tries[k] \/ (n = tries[k] + 1 /\ pc[k] \in {"decide", "enqueue"})
    BY <1>3, <2>1, <2>4 DEF Used
  <2>6. n <= tries'[k] \/ (n = tries'[k] + 1 /\ pc'[k] \in {"decide", "enqueue"})
    <3>1. CASE k = j
      BY <1>1, <2>2, <2>5, <3>1
    <3>2. CASE k # j
      BY <2>5, <3>2
    <3> QED
      BY <3>1, <3>2
  <2> QED
    BY <1>3, <2>1, <2>2, <2>4, <2>6 DEF Used
<1> QED
  BY <1>2, <1>3

-----------------------------------------------------------------------------
(* How a handler ends *)

\* The end of a handler, or of a delivery at the gate.
LEMMA FinishTyped ==
  ASSUME Core, NEW j \in Jobs, msg[j] \in {"wait", "active"} \/ pc[j] # "idle",
         NEW outcome \in {"completed", "failed", "retry"}, Finish(j, outcome)
  PROVE  /\ msg' \in [Jobs -> {"none", "wait", "active", "completed", "failed", "removed"}]
         /\ tries' \in [Jobs -> 0..MaxAttempts] /\ pc' \in [Jobs -> Steps]
         /\ \A k \in Jobs : pc'[k] # "idle" <=> msg'[k] = "active"
         /\ \A k \in Jobs \ {j} : pc'[k] = pc[k] /\ msg'[k] = msg[k] /\ tries'[k] = tries[k]
         /\ pc'[j] = "idle" /\ msg[j] # "none" /\ tries'[j] = tries[j] + 1
         /\ msg'[j] \in {"none", "wait", "active"} => tries'[j] < MaxAttempts
<1>1. tries[j] \in 0..MaxAttempts /\ tries[j] < MaxAttempts /\ MaxAttempts \in Nat
  BY InHand, ChainAssumption
<1>2. /\ msg \in [Jobs -> {"none", "wait", "active", "completed", "failed", "removed"}]
      /\ tries \in [Jobs -> 0..MaxAttempts] /\ pc \in [Jobs -> Steps]
      /\ \A k \in Jobs : pc[k] # "idle" <=> msg[k] = "active"
  BY DEF Core, RowsTyped, ChainTypeOK
<1> DEFINE m == IF outcome = "retry" THEN IF Final(j) THEN "failed" ELSE "wait" ELSE outcome
<1>3. /\ msg' = [msg EXCEPT ![j] = m] /\ tries' = [tries EXCEPT ![j] = tries[j] + 1]
      /\ pc' = [pc EXCEPT ![j] = "idle"]
  BY DEF Finish, Goto
<1>4. m \in {"completed", "failed", "wait"} /\ (m = "wait" => tries[j] + 1 < MaxAttempts)
  BY <1>1 DEF Final
<1>5. tries[j] + 1 \in 0..MaxAttempts
  BY <1>1
<1> HIDE DEF m
<1>6. /\ msg' \in [Jobs -> {"none", "wait", "active", "completed", "failed", "removed"}]
      /\ pc' \in [Jobs -> Steps]
  BY <1>2, <1>3, <1>4 DEF Steps
<1>7. tries' \in [Jobs -> 0..MaxAttempts] /\ tries'[j] = tries[j] + 1
  BY <1>2, <1>3, <1>5
<1>8. /\ msg'[j] = m /\ pc'[j] = "idle" /\ msg[j] # "none"
      /\ \A k \in Jobs \ {j} : pc'[k] = pc[k] /\ msg'[k] = msg[k] /\ tries'[k] = tries[k]
  BY <1>2, <1>3
<1>9. \A k \in Jobs : pc'[k] # "idle" <=> msg'[k] = "active"
  BY <1>2, <1>4, <1>8
<1> QED
  BY <1>4, <1>6, <1>7, <1>8, <1>9

\* A handler of a job that ends without chunks leaves the invariant, whatever it writes to its
\* row, as long as no committed work contradicts it.
LEMMA EndPreserves ==
  ASSUME Core, NEW j \in Jobs, msg[j] \in {"wait", "active"} \/ pc[j] # "idle",
         NEW outcome \in {"completed", "failed", "retry"}, Finish(j, outcome),
         NEW st \in Statuses \ {"ABSENT"}, status' = [status EXCEPT ![j] = st],
         Generates(j) /\ Done(j) => st \in {"SUCCEEDED", "CANCELLED"},
         cancel' = cancel, troubles' \in {troubles, troubles + 1}, troubles' <= MaxTroubles,
         UNCHANGED <<runVars, scriptVars>>
  PROVE  Core'
<1>1. /\ msg' \in [Jobs -> {"none", "wait", "active", "completed", "failed", "removed"}]
      /\ tries' \in [Jobs -> 0..MaxAttempts] /\ pc' \in [Jobs -> Steps]
      /\ \A k \in Jobs : pc'[k] # "idle" <=> msg'[k] = "active"
      /\ \A k \in Jobs \ {j} : pc'[k] = pc[k] /\ msg'[k] = msg[k] /\ tries'[k] = tries[k]
      /\ pc'[j] = "idle" /\ msg[j] # "none" /\ tries'[j] = tries[j] + 1
      /\ msg'[j] \in {"none", "wait", "active"} => tries'[j] < MaxAttempts
  BY FinishTyped
<1>2. status[j] # "ABSENT" /\ status \in [Jobs -> Statuses]
  BY InHand DEF Core, RowsTyped, ChainTypeOK
<1>3. /\ status' \in [Jobs -> Statuses] /\ status'[j] = st /\ st # "ABSENT"
      /\ \A k \in Jobs \ {j} : status'[k] = status[k]
  BY <1>2
<1>4. UNCHANGED <<rPc, plan, script, next, content>> /\ \A r \in Runs : next[r] # 0 => next'[r] # 0
  BY DEF runVars, scriptVars
<1>5. ChainInStep' /\ MessagesInStep'
  BY <1>1, <1>2, <1>3, <1>4, MovePreserves
<1>6. /\ RunsPlanned' /\ ScriptsNumbered' /\ ScriptsFilled' /\ Opened' = Opened
      /\ current' \in Opened' \cup {0}
  BY RestKept
<1>7. \A a \in Attempts : Used(a) => Used(a)'
  BY <1>1, <1>4, AttemptsKept
<1>8. ScriptsCounted'
  BY <1>6, <1>7, CountedKept DEF Core
<1>9. ChainTypeOK'
  BY <1>1, <1>3 DEF Core, RowsTyped, ChainTypeOK
<1>10. troubles' \in 0..MaxTroubles
  BY ChainAssumption DEF Core, RowsTyped
<1>11. RowsTyped'
  BY <1>1, <1>6, <1>9, <1>10 DEF Core, RowsTyped, runVars, scriptVars
<1> QED
  BY <1>5, <1>6, <1>8, <1>11 DEF Core

\* A row that keeps its status, as EXCEPT says it.
LEMMA SameStatus ==
  ASSUME Core, NEW j \in Jobs
  PROVE  status = [status EXCEPT ![j] = status[j]] /\ status[j] \in Statuses
  BY DEF Core, RowsTyped, ChainTypeOK

\* A handler that ends and leaves the rows as they are.
LEMMA LeavesPreserves ==
  ASSUME Core, NEW j \in Jobs, msg[j] \in {"wait", "active"} \/ pc[j] # "idle",
         NEW outcome \in {"completed", "failed", "retry"}, Finish(j, outcome),
         UNCHANGED rowVars, UNCHANGED troubles \/ Trouble, UNCHANGED <<runVars, scriptVars>>
  PROVE  Core'
<1>1. status' = [status EXCEPT ![j] = status[j]] /\ status[j] \in Statuses /\ cancel' = cancel
  BY SameStatus DEF rowVars
<1>2. /\ status[j] # "ABSENT"
      /\ Generates(j) /\ Done(j) => status[j] \in {"SUCCEEDED", "CANCELLED"}
  BY InHand DEF RowInStep
<1>3. troubles' \in {troubles, troubles + 1} /\ troubles' <= MaxTroubles
  BY ChainAssumption DEF Trouble, Core, RowsTyped
<1> QED
  BY <1>1, <1>2, <1>3, EndPreserves

\* A handler that goes on from its first transaction, which may read the next version number.
LEMMA AdvancePreserves ==
  ASSUME Core, NEW j \in Jobs, pc[j] = "load", ~Over(j),
         NEW step \in {"draft", "decide", "revise"}, Goto(j, step),
         NEW st \in Statuses \ {"ABSENT"}, status' = [status EXCEPT ![j] = st],
         UNCHANGED <<msg, tries, cancel, troubles, rPc, plan, script, scriptVars>>,
         next' \in [Runs -> Versions \cup {0}],
         \A r \in Runs : /\ next[r] # 0 => next'[r] # 0
                         /\ \A u \in 1..(next'[r] - 1) : u \in Opened,
         step = "revise" <=> ~Generates(j),
         step = "draft" => IsRoot(j) /\ st \notin {"SUCCEEDED", "FAILED"} /\ next'[Run(j)] # 0,
         step = "decide" => st = "RUNNING" /\ script[Run(j)] # 0
  PROVE  Core'
<1>1. /\ status[j] # "ABSENT" /\ tries[j] < MaxAttempts /\ msg[j] = "active"
      /\ Generates(j) => RowInStep(j)
  BY InHand DEF Core, RowsTyped, ChainTypeOK
<1>2. ~(Generates(j) /\ Done(j))
  BY <1>1 DEF RowInStep, Over
<1>3. /\ status \in [Jobs -> Statuses] /\ pc \in [Jobs -> Steps]
      /\ \A k \in Jobs : pc[k] # "idle" <=> msg[k] = "active"
  BY DEF Core, RowsTyped, ChainTypeOK
<1>4. /\ status' \in [Jobs -> Statuses] /\ status'[j] = st /\ st # "ABSENT"
      /\ \A k \in Jobs \ {j} : status'[k] = status[k]
  BY <1>3
<1>5. /\ pc' \in [Jobs -> Steps] /\ pc'[j] = step /\ \A k \in Jobs \ {j} : pc'[k] = pc[k]
  BY <1>3 DEF Goto, Steps
<1>6. \A k \in Jobs : pc'[k] # "idle" <=> msg'[k] = "active"
  BY <1>1, <1>3, <1>5
<1>7. /\ content' = content /\ owner' = owner /\ current' = current /\ book' = book
  BY DEF scriptVars
<1>8. ChainInStep' /\ MessagesInStep'
  BY <1>1, <1>2, <1>4, <1>5, <1>7, MovePreserves
<1>9. Opened' = Opened
  BY <1>7 DEF Opened
<1>10. RunsPlanned' /\ ScriptsFilled'
  BY <1>7 DEF Core, RunsPlanned, ScriptsFilled
<1>11. ScriptsNumbered'
  BY <1>7, <1>9 DEF Core, ScriptsNumbered
<1>12. \A a \in Attempts : Used(a) => Used(a)'
  BY <1>5, AttemptsKept
<1>13. ScriptsCounted'
  BY <1>9, <1>12, CountedKept DEF Core
<1>14. ChainTypeOK'
  BY <1>4, <1>6 DEF Core, RowsTyped, ChainTypeOK
<1>15. RowsTyped'
  BY <1>5, <1>7, <1>9, <1>14 DEF Core, RowsTyped
<1> QED
  BY <1>8, <1>10, <1>11, <1>13, <1>15 DEF Core

-----------------------------------------------------------------------------
(* The first transactions *)

\* A run's first job at its load has opened no script in this attempt: there is a number left.
LEMMA ReadVersionPreserves == ASSUME Core, NEW j \in Jobs, ReadVersion(j) PROVE Core'
<1> DEFINE r == Run(j)
           n == Max(Opened \cup {0})
           a == <<r, tries[j] + 1>>
<1>1. /\ Generates(j) /\ pc[j] = "load" /\ ~Over(j) /\ IsRoot(j) /\ Goto(j, "draft")
      /\ next' = [next EXCEPT ![r] = n + 1]
      /\ UNCHANGED <<status, cancel, msg, tries, troubles, rPc, plan, script, scriptVars>>
  BY DEF ReadVersion, rowVars, bounds
<1>2. /\ status[j] # "ABSENT" /\ tries[j] \in 0..MaxAttempts /\ tries[j] < MaxAttempts
      /\ r \in Runs /\ j = Root(r) /\ r # 0
  BY <1>1, InHand, JobParts DEF IsRoot
<1>3. a \in Attempts /\ a[1] = r /\ a[2] = tries[j] + 1
  BY <1>2, ChainAssumption DEF Attempts
<1>4. ~Used(a)
  BY <1>1, <1>2, <1>3 DEF Used
<1> HIDE DEF a
<1>5. n + 1 \in Versions /\ n \in Nat /\ Opened = 1..n
  BY <1>3, <1>4, RoomLeft, ScriptsUpTo DEF Core
<1> HIDE DEF n
<1>6. next \in [Runs -> Versions \cup {0}] /\ \A q \in Runs : \A u \in 1..(next[q] - 1) : u \in Opened
  BY DEF Core, RowsTyped, ScriptsNumbered
<1>7. /\ next' \in [Runs -> Versions \cup {0}] /\ next'[r] = n + 1
      /\ \A q \in Runs \ {r} : next'[q] = next[q]
  BY <1>1, <1>2, <1>5, <1>6
<1>8. \A q \in Runs : /\ next[q] # 0 => next'[q] # 0
                      /\ \A u \in 1..(next'[q] - 1) : u \in Opened
  BY <1>2, <1>5, <1>6, <1>7
<1>9. status' = [status EXCEPT ![j] = status[j]] /\ status[j] \in Statuses
  BY <1>1, SameStatus
<1>10. status[j] \notin {"SUCCEEDED", "FAILED"}
  BY <1>1 DEF Over
<1>11. next'[r] # 0
  BY <1>5, <1>7
<1> QED
  BY <1>1, <1>2, <1>7, <1>8, <1>9, <1>10, <1>11, AdvancePreserves

\* The job of a later chapter has its run's script, which holds the chapters before its own.
LEMMA LoadPreserves == ASSUME Core, NEW j \in Jobs, Load(j) PROVE Core'
<1> DEFINE r == Run(j)
<1>1. /\ Generates(j) /\ pc[j] = "load" /\ ~Over(j) /\ ~IsRoot(j) /\ Goto(j, "decide")
      /\ status' = [status EXCEPT ![j] = "RUNNING"]
      /\ UNCHANGED <<cancel, msg, tries, troubles, rPc, plan, script, next, scriptVars>>
  BY DEF Load, MarkJobRunning, bounds, runVars
<1>2. status[j] # "ABSENT"
  BY <1>1, InHand
<1>3. /\ RowInStep(j) /\ plan[r] \in Plans /\ Place(j) \in 1..Len(plan[r]) /\ r \in Runs
      /\ plan[r][Place(j)] = Chapter(j) /\ Len(plan[r]) \in Nat
  BY <1>1, <1>2, RowFacts
<1>4. Place(j) # 1
  <2> SUFFICES ASSUME Place(j) = 1 PROVE FALSE
    OBVIOUS
  <2>1. j = <<r, plan[r][1]>>
    BY <1>3, JobParts
  <2> QED
    BY <1>1, <2>1 DEF IsRoot, Root
<1>5. Count(r) \in Nat /\ (script[r] = 0 => Count(r) = 0)
  BY <1>3, CountIs
<1>6. Place(j) <= Count(r) + 1
  BY <1>3 DEF RowInStep
<1>7. script[r] # 0
  BY <1>3, <1>4, <1>5, <1>6
<1>8. /\ next' \in [Runs -> Versions \cup {0}]
      /\ \A q \in Runs : /\ next[q] # 0 => next'[q] # 0
                         /\ \A u \in 1..(next'[q] - 1) : u \in Opened
  BY <1>1 DEF Core, RowsTyped, ScriptsNumbered
<1>9. "RUNNING" \in Statuses \ {"ABSENT"}
  BY DEF Statuses, Active
<1> QED
  BY <1>1, <1>7, <1>8, <1>9, AdvancePreserves

\* The first transaction of a revision.
LEMMA LoadRevisionPreserves == ASSUME Core, NEW j \in Jobs, LoadRevision(j) PROVE Core'
<1>1. /\ ~Generates(j) /\ pc[j] = "load" /\ ~Over(j) /\ Goto(j, "revise")
      /\ status' = [status EXCEPT ![j] = "RUNNING"]
      /\ UNCHANGED <<cancel, msg, tries, troubles, rPc, plan, script, next, scriptVars>>
  BY DEF LoadRevision, MarkJobRunning, bounds, runVars
<1>2. /\ next' \in [Runs -> Versions \cup {0}]
      /\ \A q \in Runs : /\ next[q] # 0 => next'[q] # 0
                         /\ \A u \in 1..(next'[q] - 1) : u \in Opened
  BY <1>1 DEF Core, RowsTyped, ScriptsNumbered
<1>3. "RUNNING" \in Statuses \ {"ABSENT"}
  BY DEF Statuses, Active
<1> QED
  BY <1>1, <1>2, <1>3, AdvancePreserves

-----------------------------------------------------------------------------
(* The handlers that end without chunks *)

\* The refusals, a skipped redelivery and the exceptions.
LEMMA RefusalPreserves ==
  ASSUME Core, NEW j \in Jobs,
         \/ DraftConflict(j) \/ FinalizeRefused(j) \/ RevisionRefused(j) \/ RevisionFails(j)
         \/ (Skip(j) /\ Elsewhere) \/ (Raise(j) /\ Elsewhere)
  PROVE  Core'
<1>1. PICK outcome \in {"completed", "failed", "retry"} :
        /\ Finish(j, outcome) /\ UNCHANGED rowVars /\ (UNCHANGED troubles \/ Trouble)
        /\ UNCHANGED <<runVars, scriptVars>> /\ pc[j] # "idle"
  BY DEF DraftConflict, FinalizeRefused, RevisionRefused, RevisionFails, Skip, Raise, Elsewhere, bounds
<1> QED
  BY <1>1, LeavesPreserves

\* The failure of a decision: the work of a job at it is not committed.
LEMMA DecideFailsPreserves == ASSUME Core, NEW j \in Jobs, DecideFails(j) PROVE Core'
<1>1. PICK outcome \in {"failed", "retry"} :
        /\ pc[j] = "decide" /\ Trouble /\ Finish(j, outcome)
        /\ status' = IF Final(j) THEN [status EXCEPT ![j] = "FAILED"] ELSE status
        /\ cancel' = cancel /\ UNCHANGED <<runVars, scriptVars>>
  BY DEF DecideFails, MarkJobFailed
<1>2. CASE Final(j)
  <2>1. status' = [status EXCEPT ![j] = "FAILED"] /\ "FAILED" \in Statuses \ {"ABSENT"}
    BY <1>1, <1>2 DEF Statuses
  <2>2. MessageInStep(j) /\ (Generates(j) => RowInStep(j))
    BY <1>1, InHand
  <2>3. ~(Generates(j) /\ Done(j))
    BY <1>1, <2>2 DEF MessageInStep, RowInStep
  <2>4. troubles' \in {troubles, troubles + 1} /\ troubles' <= MaxTroubles
    BY <1>1, ChainAssumption DEF Trouble, Core, RowsTyped
  <2> QED
    BY <1>1, <2>1, <2>3, <2>4, EndPreserves
<1>3. CASE ~Final(j)
  BY <1>1, <1>3, LeavesPreserves DEF rowVars
<1> QED
  BY <1>2, <1>3

\* The second transaction of a revision.
LEMMA RevisePreserves == ASSUME Core, NEW j \in Jobs, Revise(j) PROVE Core'
<1>1. /\ pc[j] = "revise" /\ Finish(j, "completed") /\ status' = [status EXCEPT ![j] = "SUCCEEDED"]
      /\ cancel' = cancel /\ troubles' = troubles /\ UNCHANGED <<runVars, scriptVars>>
  BY DEF Revise, MarkJobSucceeded, bounds
<1>2. "SUCCEEDED" \in Statuses \ {"ABSENT"} /\ troubles' <= MaxTroubles
  BY <1>1, ChainAssumption DEF Statuses, Core, RowsTyped
<1> QED
  BY <1>1, <1>2, EndPreserves

\* The worker's gate.
LEMMA TakePreserves == ASSUME Core, NEW j \in Jobs, Take(j), Elsewhere PROVE Core'
<1>1. /\ msg[j] = "wait" /\ cancel' = cancel /\ troubles' = troubles /\ troubles' <= MaxTroubles
      /\ UNCHANGED <<runVars, scriptVars>>
  BY ChainAssumption DEF Take, Elsewhere, bounds, Core, RowsTyped
<1>2. CASE UNCHANGED status /\ Finish(j, "completed")
  BY <1>1, <1>2, LeavesPreserves DEF rowVars
<1>3. CASE status' = [status EXCEPT ![j] = "CANCELLED"] /\ Finish(j, "completed")
  <2>1. "CANCELLED" \in Statuses \ {"ABSENT"}
    BY DEF Statuses
  <2> QED
    BY <1>1, <1>3, <2>1, EndPreserves
<1>4. CASE /\ status[j] # "CANCELLED" /\ msg' = [msg EXCEPT ![j] = "active"]
           /\ Goto(j, "load") /\ UNCHANGED <<status, tries>>
  <2>1. /\ status[j] # "ABSENT" /\ tries[j] < MaxAttempts /\ (Generates(j) => RowInStep(j))
    BY <1>1, InHand
  <2>2. /\ msg \in [Jobs -> {"none", "wait", "active", "completed", "failed", "removed"}]
        /\ pc \in [Jobs -> Steps]
        /\ \A k \in Jobs : pc[k] # "idle" <=> msg[k] = "active"
    BY DEF Core, RowsTyped, ChainTypeOK
  <2>3. /\ msg' \in [Jobs -> {"none", "wait", "active", "completed", "failed", "removed"}]
        /\ pc' \in [Jobs -> Steps] /\ msg'[j] = "active" /\ pc'[j] = "load" /\ pc[j] = "idle"
        /\ \A k \in Jobs \ {j} : pc'[k] = pc[k] /\ msg'[k] = msg[k]
    BY <1>1, <1>4, <2>2 DEF Goto, Steps
  <2>4. \A k \in Jobs : pc'[k] # "idle" <=> msg'[k] = "active"
    BY <2>2, <2>3
  <2>5. Generates(j) /\ Done(j) => status[j] = "SUCCEEDED"
    BY <1>4, <2>1 DEF RowInStep
  <2>6. UNCHANGED <<rPc, plan, script, next, content>> /\ \A r \in Runs : next[r] # 0 => next'[r] # 0
    BY <1>1 DEF runVars, scriptVars
  <2>7. ChainInStep' /\ MessagesInStep'
    BY <1>1, <1>4, <2>1, <2>3, <2>5, <2>6, MovePreserves
  <2>8. /\ RunsPlanned' /\ ScriptsNumbered' /\ ScriptsFilled' /\ Opened' = Opened
        /\ current' \in Opened' \cup {0}
    BY <1>1, RestKept
  <2>9. \A a \in Attempts : Used(a) => Used(a)'
    BY <1>1, <1>4, <2>3, <2>6, AttemptsKept
  <2>10. ScriptsCounted'
    BY <2>8, <2>9, CountedKept DEF Core
  <2>11. ChainTypeOK'
    BY <1>1, <1>4, <2>3, <2>4 DEF Core, RowsTyped, ChainTypeOK
  <2>12. RowsTyped'
    BY <1>1, <2>3, <2>8, <2>11 DEF Core, RowsTyped, runVars, scriptVars
  <2> QED
    BY <2>7, <2>8, <2>10, <2>12 DEF Core
<1> QED
  BY <1>2, <1>3, <1>4 DEF Take

-----------------------------------------------------------------------------
(* Deaths, cancellations and dispatches *)

\* A worker that dies gives its attempt back; the trouble it met is there for the script it
\* may have opened.
LEMMA DieCounted ==
  ASSUME Core, NEW j \in Jobs, Die(j), UNCHANGED <<runVars, scriptVars>>
  PROVE  ScriptsCounted'
<1> PICK a : a = <<Run(j), tries[j] + 1>>
  OBVIOUS
<1> PICK b : b = <<0, troubles + 1>>
  OBVIOUS
<1>1. /\ pc' = [pc EXCEPT ![j] = "idle"] /\ tries' = tries
      /\ troubles < MaxTroubles /\ troubles' = troubles + 1
      /\ rPc' = rPc /\ plan' = plan /\ owner' = owner
  BY DEF Die, Goto, Trouble, runVars, scriptVars
<1>2. /\ troubles \in Nat /\ MaxTroubles \in Nat /\ \A k \in Jobs : tries[k] \in Nat
      /\ pc \in [Jobs -> Steps]
  BY ChainAssumption DEF Core, RowsTyped, ChainTypeOK
<1>3. Opened' = Opened
  BY <1>1 DEF Opened
<1>4. PICK f \in [Opened -> Attempts] :
        /\ \A v, w \in Opened : f[v] = f[w] => v = w
        /\ \A v \in Opened : Used(f[v])
  BY DEF Core, ScriptsCounted
<1>5. b \in Attempts /\ ~Used(b) /\ Used(b)'
  <2>1. b \in Attempts /\ b[1] = 0 /\ b[2] = troubles + 1
    BY <1>1, <1>2 DEF Attempts
  <2> QED
    BY <1>1, <1>2, <2>1 DEF Used
<1>6. ASSUME NEW x \in Attempts, Used(x), x # a PROVE Used(x)'
  <2>1. CASE x[1] = 0
    <3>1. x[2] \in Nat
      BY <2>1, JobParts, ChainAssumption DEF Attempts
    <3> QED
      BY <1>1, <1>2, <1>6, <2>1, <3>1 DEF Used
  <2>2. CASE x[1] # 0
    <3>1. PICK r \in Runs, n \in 1..MaxAttempts : x = <<r, n>> /\ x[1] = r /\ x[2] = n
      BY <2>2 DEF Attempts
    <3>2. rPc[r] = "done"
      BY <1>6, <2>2, <3>1 DEF Used
    <3>3. Root(r) \in Jobs /\ Run(Root(r)) = r
      BY <3>2, RootIs DEF Core, RunsPlanned
    <3>4. PICK k \in Jobs : k = Root(r) /\ k = Root(r)' /\ Run(k) = r
      BY <1>1, <3>3 DEF Root
    <3>5. n <= tries[k] \/ (n = tries[k] + 1 /\ pc[k] \in {"decide", "enqueue"})
      BY <1>6, <2>2, <3>1, <3>4 DEF Used
    <3>6. n <= tries'[k] \/ (n = tries'[k] + 1 /\ pc'[k] \in {"decide", "enqueue"})
      <4>1. CASE k = j
        BY <1>1, <1>6, <3>1, <3>4, <3>5, <4>1
      <4>2. CASE k # j
        BY <1>1, <1>2, <3>5, <4>2
      <4> QED
        BY <4>1, <4>2
    <3> QED
      BY <1>1, <2>2, <3>1, <3>2, <3>4, <3>6 DEF Used
  <2> QED
    BY <2>1, <2>2
<1>7. PICK g \in [Opened -> Attempts] : \A v \in Opened : g[v] = IF f[v] = a THEN b ELSE f[v]
  <2> DEFINE h == [v \in Opened |-> IF f[v] = a THEN b ELSE f[v]]
  <2>1. h \in [Opened -> Attempts] /\ \A v \in Opened : h[v] = IF f[v] = a THEN b ELSE f[v]
    BY <1>4, <1>5
  <2> QED
    BY <2>1
<1>8. ASSUME NEW v \in Opened PROVE Used(g[v])'
  <2>1. CASE f[v] = a
    BY <1>5, <1>7, <2>1
  <2>2. CASE f[v] # a
    <3>1. f[v] \in Attempts /\ Used(f[v]) /\ g[v] = f[v]
      BY <1>4, <1>7, <2>2
    <3> QED
      BY <1>6, <2>2, <3>1
  <2> QED
    BY <2>1, <2>2
<1>9. ASSUME NEW v \in Opened, NEW w \in Opened, g[v] = g[w] PROVE v = w
  <2>1. f[v] # b /\ f[w] # b
    BY <1>4, <1>5
  <2>2. f[v] = f[w]
    BY <1>7, <1>9, <2>1
  <2> QED
    BY <1>4, <2>2
<1> QED
  BY <1>3, <1>7, <1>8, <1>9 DEF ScriptsCounted

\* The worker dies.
LEMMA DiePreserves == ASSUME Core, NEW j \in Jobs, Die(j), Elsewhere PROVE Core'
<1>1. /\ msg' = [msg EXCEPT ![j] = "wait"] /\ pc' = [pc EXCEPT ![j] = "idle"] /\ pc[j] # "idle"
      /\ UNCHANGED <<status, cancel, tries, runVars, scriptVars>> /\ Trouble
  BY DEF Die, Goto, rowVars, Elsewhere
<1>2. /\ status[j] # "ABSENT" /\ tries[j] < MaxAttempts /\ (Generates(j) => RowInStep(j))
  BY <1>1, InHand
<1>3. /\ msg \in [Jobs -> {"none", "wait", "active", "completed", "failed", "removed"}]
      /\ pc \in [Jobs -> Steps]
      /\ \A k \in Jobs : pc[k] # "idle" <=> msg[k] = "active"
  BY DEF Core, RowsTyped, ChainTypeOK
<1>4. /\ msg' \in [Jobs -> {"none", "wait", "active", "completed", "failed", "removed"}]
      /\ pc' \in [Jobs -> Steps] /\ msg'[j] = "wait" /\ pc'[j] = "idle" /\ msg[j] # "none"
      /\ \A k \in Jobs \ {j} : pc'[k] = pc[k] /\ msg'[k] = msg[k]
  BY <1>1, <1>3 DEF Steps
<1>5. \A k \in Jobs : pc'[k] # "idle" <=> msg'[k] = "active"
  BY <1>3, <1>4
<1>6. Generates(j) /\ Done(j) => status[j] \in {"SUCCEEDED", "CANCELLED"}
  BY <1>2 DEF RowInStep
<1>7. UNCHANGED <<rPc, plan, script, next, content>> /\ \A r \in Runs : next[r] # 0 => next'[r] # 0
  BY <1>1 DEF runVars, scriptVars
<1>8. ChainInStep' /\ MessagesInStep'
  BY <1>1, <1>2, <1>4, <1>6, <1>7, MovePreserves
<1>9. /\ RunsPlanned' /\ ScriptsNumbered' /\ ScriptsFilled' /\ Opened' = Opened
      /\ current' \in Opened' \cup {0}
  BY <1>1, RestKept
<1>10. ScriptsCounted'
  BY <1>1, DieCounted
<1>11. ChainTypeOK'
  BY <1>1, <1>4, <1>5 DEF Core, RowsTyped, ChainTypeOK
<1>12. troubles' \in 0..MaxTroubles
  BY <1>1, ChainAssumption DEF Trouble, Core, RowsTyped
<1>13. RowsTyped'
  BY <1>1, <1>4, <1>9, <1>11, <1>12 DEF Core, RowsTyped, runVars, scriptVars
<1> QED
  BY <1>8, <1>9, <1>10, <1>13 DEF Core

\* A message or a row that changes outside of a handler: a dispatch or a cancellation.
LEMMA OutsidePreserves ==
  ASSUME Core, NEW j \in Jobs, status[j] \in Active,
         NEW st \in {status[j], "CANCELLED"}, status[j] = "RUNNING" => st = "RUNNING",
         NEW m \in {msg[j], "wait", "removed"}, m = "wait" => msg[j] \in {"none", "wait"},
         m = "removed" => msg[j] \in {"wait", "removed"},
         msg[j] = "none" => m = "none" \/ ~Generates(j) \/ IsRoot(j),
         status' = [status EXCEPT ![j] = st], msg' = [msg EXCEPT ![j] = m],
         cancel' \in [Jobs -> BOOLEAN],
         UNCHANGED <<tries, pc, troubles, runVars, scriptVars>>
  PROVE  Core'
<1>1. /\ msg \in [Jobs -> {"none", "wait", "active", "completed", "failed", "removed"}]
      /\ status \in [Jobs -> Statuses] /\ pc \in [Jobs -> Steps]
      /\ \A k \in Jobs : pc[k] # "idle" <=> msg[k] = "active"
  BY DEF Core, RowsTyped, ChainTypeOK
<1>2. /\ status[j] \notin {"ABSENT", "SUCCEEDED", "FAILED", "CANCELLED"}
      /\ st \in Statuses /\ st \notin {"ABSENT", "SUCCEEDED", "FAILED"}
  BY DEF Active, Statuses
<1>3. MessageInStep(j) /\ (Generates(j) => RowInStep(j))
  BY <1>2, RowFacts DEF Core, MessagesInStep
<1>4. pc[j] # "enqueue" /\ ~(Generates(j) /\ Done(j))
  BY <1>2, <1>3 DEF MessageInStep, RowInStep
<1>5. /\ msg' \in [Jobs -> {"none", "wait", "active", "completed", "failed", "removed"}]
      /\ msg'[j] = m /\ \A k \in Jobs \ {j} : msg'[k] = msg[k]
  BY <1>1
<1>6. /\ status' \in [Jobs -> Statuses] /\ status'[j] = st
      /\ \A k \in Jobs \ {j} : status'[k] = status[k]
  BY <1>1, <1>2
<1>7. \A k \in Jobs : pc'[k] # "idle" <=> msg'[k] = "active"
  BY <1>1, <1>5
<1>8. /\ msg'[j] \in {"none", "wait", "active"} => tries'[j] < MaxAttempts
      /\ pc'[j] \in {"draft", "decide"} => Generates(j)
      /\ pc'[j] = "revise" => ~Generates(j)
      /\ pc'[j] = "draft" => IsRoot(j) /\ next[Run(j)] # 0
      /\ pc'[j] = "decide" => status'[j] = "RUNNING" /\ script[Run(j)] # 0
  BY <1>1, <1>3, <1>5, <1>6 DEF MessageInStep
<1>9. UNCHANGED <<rPc, plan, script, next, content>> /\ \A r \in Runs : next[r] # 0 => next'[r] # 0
  BY DEF runVars, scriptVars
<1>10. \A k \in Jobs \ {j} : pc'[k] = pc[k] /\ tries'[k] = tries[k]
  OBVIOUS
<1>11. ChainInStep' /\ MessagesInStep'
  BY <1>2, <1>4, <1>5, <1>6, <1>8, <1>9, <1>10, MovePreserves
<1>12. /\ RunsPlanned' /\ ScriptsNumbered' /\ ScriptsFilled' /\ Opened' = Opened
       /\ current' \in Opened' \cup {0}
  BY RestKept
<1>13. \A a \in Attempts : Used(a) => Used(a)'
  BY <1>9, AttemptsKept
<1>14. ScriptsCounted'
  BY <1>12, <1>13, CountedKept DEF Core
<1>15. ChainTypeOK'
  BY <1>5, <1>6, <1>7 DEF Core, RowsTyped, ChainTypeOK
<1>16. RowsTyped'
  BY <1>12, <1>15 DEF Core, RowsTyped, runVars, scriptVars
<1> QED
  BY <1>11, <1>12, <1>14, <1>16 DEF Core

\* cancelJob.
LEMMA CancelPreserves == ASSUME Core, NEW j \in Jobs, Cancel(j), Elsewhere PROVE Core'
<1> DEFINE st == IF status[j] = "CREATED" THEN "CANCELLED" ELSE status[j]
           m == IF msg[j] = "wait" /\ status[j] = "CREATED" THEN "removed" ELSE msg[j]
<1>1. /\ status[j] \in Active /\ cancel' = [cancel EXCEPT ![j] = TRUE]
      /\ status' = [status EXCEPT ![j] = st] /\ msg' = [msg EXCEPT ![j] = m]
      /\ UNCHANGED <<tries, pc, troubles, runVars, scriptVars>>
  BY DEF Cancel, Elsewhere
<1>2. cancel' \in [Jobs -> BOOLEAN]
  BY <1>1 DEF Core, RowsTyped, ChainTypeOK
<1>3. st \in {status[j], "CANCELLED"} /\ (status[j] = "RUNNING" => st = "RUNNING")
  OBVIOUS
<1>4. /\ m \in {msg[j], "wait", "removed"} /\ (m = "wait" => msg[j] \in {"none", "wait"})
      /\ m = "removed" => msg[j] \in {"wait", "removed"}
      /\ msg[j] = "none" => m = "none" \/ ~Generates(j) \/ IsRoot(j)
  OBVIOUS
<1> HIDE DEF st, m
<1> QED
  BY <1>1, <1>2, <1>3, <1>4, OutsidePreserves

\* The API and the sweeper enqueue the first job of a run, and revisions.
LEMMA DispatchPreserves == ASSUME Core, NEW j \in Jobs, Dispatches(j) PROVE Core'
<1>1. /\ status[j] = "CREATED" /\ msg[j] = "none" /\ msg' = [msg EXCEPT ![j] = "wait"]
      /\ UNCHANGED <<status, cancel, tries, pc, troubles, runVars, scriptVars>>
      /\ ~Generates(j) \/ IsRoot(j)
  BY DEF Dispatches, DispatchRoot, rowVars, bounds, Elsewhere
<1>2. status' = [status EXCEPT ![j] = status[j]] /\ status[j] \in Active /\ status[j] # "RUNNING"
  BY <1>1, SameStatus DEF Active
<1>3. cancel' \in [Jobs -> BOOLEAN]
  BY <1>1 DEF Core, RowsTyped, ChainTypeOK
<1> QED
  BY <1>1, <1>2, <1>3, OutsidePreserves

-----------------------------------------------------------------------------
(* Requests *)

\* A row that is new, of a revision or of the first chapter without chunks.
LEMMA RowCreated ==
  ASSUME Core, NEW j \in Jobs, status[j] = "ABSENT", status' = [status EXCEPT ![j] = "CREATED"],
         UNCHANGED <<msg, tries, pc, plan, script, next, content>>,
         \A r \in Runs : rPc[r] = "done" => rPc'[r] = "done",
         Generates(j) => /\ rPc'[Run(j)] = "done"
                         /\ \E i \in DOMAIN plan[Run(j)] : plan[Run(j)][i] = Chapter(j)
                         /\ Place(j) = Count(Run(j)) + 1
  PROVE  /\ status' \in [Jobs -> Statuses] /\ ChainInStep' /\ MessagesInStep'
         /\ \A k \in Jobs : status[k] # "ABSENT" => status'[k] = status[k]
<1>1. status \in [Jobs -> Statuses] /\ \A k \in Jobs : pc[k] # "idle" <=> msg[k] = "active"
  BY DEF Core, RowsTyped, ChainTypeOK
<1>2. /\ status' \in [Jobs -> Statuses] /\ status'[j] = "CREATED"
      /\ \A k \in Jobs : k # j => status'[k] = status[k]
  BY <1>1 DEF Statuses, Active
<1>3. ASSUME NEW k \in Jobs
      PROVE  /\ Place(k)' = Place(k) /\ Successor(k)' = Successor(k) /\ (IsRoot(k)' <=> IsRoot(k))
             /\ Count(Run(k))' = Count(Run(k)) /\ (Done(k)' <=> Done(k))
  <2>1. Place(k)' = Place(k) /\ Successor(k)' = Successor(k) /\ (IsRoot(k)' <=> IsRoot(k))
    BY PlacesKept
  <2>2. Count(Run(k))' = Count(Run(k))
    BY DEF Count
  <2> QED
    BY <2>1, <2>2 DEF Done
<1>4. ASSUME NEW k \in Jobs, Generates(k), status'[k] # "ABSENT" PROVE RowInStep(k)'
  <2>1. CASE k = j
    <3>1. Run(j) \in Runs /\ Count(Run(j)) \in Nat
      BY <1>4, <2>1, CountIs, JobParts
    <3>2. Place(j)' = Count(Run(j))' + 1 /\ ~(Place(j)' <= Count(Run(j))')
      BY <1>3, <1>4, <2>1, <3>1
    <3>3. Place(j)' <= Count(Run(j))' + 1
      BY <1>3, <3>1, <3>2
    <3>4. /\ rPc'[Run(j)] = "done"
          /\ \E i \in DOMAIN plan'[Run(j)] : plan'[Run(j)][i] = Chapter(j)
      BY <1>4, <2>1
    <3> QED
      BY <2>1, <3>2, <3>3, <3>4 DEF RowInStep, Done
  <2>2. CASE k # j
    <3>1. RowInStep(k) /\ status'[k] = status[k] /\ Run(k) \in Runs
      BY <1>2, <1>4, <2>2, RowFacts
    <3>2. /\ rPc'[Run(k)] = "done"
          /\ \E i \in DOMAIN plan'[Run(k)] : plan'[Run(k)][i] = Chapter(k)
      BY <3>1 DEF RowInStep
    <3>3. Place(k)' <= Count(Run(k))' + 1
      BY <1>3, <3>1 DEF RowInStep
    <3>4. Done(k)' => /\ status'[k] \in {"SUCCEEDED", "CANCELLED"}
                      /\ pc'[k] # "idle" => status'[k] = "SUCCEEDED"
      BY <1>3, <3>1 DEF RowInStep
    <3> QED
      BY <3>2, <3>3, <3>4 DEF RowInStep
  <2> QED
    BY <2>1, <2>2
<1>5. ASSUME NEW k \in Jobs PROVE MessageInStep(k)'
  <2>1. MessageInStep(k)
    BY DEF Core, MessagesInStep
  <2>2. CASE k = j
    <3>1. msg[j] = "none" /\ pc[j] = "idle"
      BY <1>1, <2>1, <2>2 DEF MessageInStep
    <3> QED
      BY <1>2, <2>1, <2>2, <3>1 DEF MessageInStep
  <2>3. CASE k # j
    <3>1. status'[k] = status[k]
      BY <1>2, <2>3
    <3>2. ASSUME pc[k] = "enqueue" PROVE status'[Successor(k)] # "ABSENT"
      <4>1. /\ status[k] # "ABSENT" /\ Place(k) < Len(plan[Run(k)]) /\ Generates(k)
            /\ status[Successor(k)] # "ABSENT"
        BY <2>1, <3>2 DEF MessageInStep
      <4>2. Successor(k) \in Jobs
        BY <4>1, SuccessorFacts
      <4> QED
        BY <1>2, <4>1, <4>2
    <3> QED
      BY <1>3, <2>1, <3>1, <3>2 DEF MessageInStep, Over
  <2> QED
    BY <2>2, <2>3
<1> QED
  BY <1>2, <1>4, <1>5 DEF ChainInStep, MessagesInStep, Generates, Run

\* reviseDirector creates the row of a revision.
LEMMA ReviseDirectorPreserves == ASSUME Core, NEW j \in Jobs, ReviseDirector(j) PROVE Core'
<1>1. /\ ~Generates(j) /\ status[j] = "ABSENT" /\ status' = [status EXCEPT ![j] = "CREATED"]
      /\ UNCHANGED <<cancel, msg, tries, pc, troubles, runVars, scriptVars>>
  BY DEF ReviseDirector, messageVars, bounds
<1>2. UNCHANGED <<rPc, plan, script, next, content>>
  BY <1>1 DEF runVars, scriptVars
<1>3. status' \in [Jobs -> Statuses] /\ ChainInStep' /\ MessagesInStep'
  BY <1>1, <1>2, RowCreated
<1>4. /\ RunsPlanned' /\ ScriptsNumbered' /\ ScriptsFilled' /\ Opened' = Opened
      /\ current' \in Opened' \cup {0}
  BY <1>1, RestKept
<1>5. \A a \in Attempts : Used(a) => Used(a)'
  BY <1>1, <1>2 DEF Used, Root
<1>6. ScriptsCounted'
  BY <1>4, <1>5, CountedKept DEF Core
<1>7. ChainTypeOK'
  BY <1>1, <1>3 DEF Core, RowsTyped, ChainTypeOK
<1>8. RowsTyped'
  BY <1>1, <1>4, <1>7 DEF Core, RowsTyped, runVars, scriptVars
<1> QED
  BY <1>3, <1>4, <1>6, <1>8 DEF Core

\* A run that is not committed has no rows and no script.
LEMMA NothingYet ==
  ASSUME Core, NEW r \in Runs, rPc[r] # "done"
  PROVE  /\ \A k \in Jobs : Run(k) = r => status[k] = "ABSENT" /\ pc[k] = "idle"
         /\ script[r] = 0 /\ \A v \in Opened : owner[v] # r
<1>1. ASSUME NEW k \in Jobs, Run(k) = r PROVE status[k] = "ABSENT"
  <2>1. Generates(k)
    BY <1>1, JobParts DEF Generates
  <2> QED
    BY <1>1, <2>1, RowFacts
<1>2. ASSUME NEW k \in Jobs, Run(k) = r PROVE pc[k] = "idle"
  BY <1>1, <1>2, InHand
<1>3. \A v \in Opened : owner[v] # r
  BY DEF Core, ScriptsNumbered
<1>4. script[r] = 0
  BY <1>3, CountIs DEF Core, ScriptsNumbered
<1> QED
  BY <1>1, <1>2, <1>3, <1>4

\* startDirector's transaction creates the first row.
LEMMA CommitPreserves == ASSUME Core, NEW r \in Runs, Commit(r) PROVE Core'
<1>1. /\ rPc[r] = "commit" /\ rPc' = [rPc EXCEPT ![r] = "done"] /\ book' = "SCRIPTING"
      /\ status' = [status EXCEPT ![Root(r)] = "CREATED"]
      /\ UNCHANGED <<cancel, msg, tries, pc, troubles, plan, script, next, owner, content, current>>
  BY DEF Commit, messageVars, bounds
<1>2. plan[r] \in Plans
  BY <1>1 DEF Core, RunsPlanned
<1>3. PICK j \in Jobs : /\ j = Root(r) /\ Run(j) = r /\ Chapter(j) = plan[r][1]
                       /\ Generates(j) /\ Place(j) = 1
  BY <1>2, RootIs
<1>4. 1 \in DOMAIN plan[r]
  BY <1>2, PlanParts
<1>5. status[j] = "ABSENT" /\ Count(r) = 0
  BY <1>1, <1>3, NothingYet DEF Count
<1>6. rPc \in [Runs -> {"idle", "commit", "done"}]
  BY DEF Core, RowsTyped
<1>7. /\ rPc' \in [Runs -> {"idle", "commit", "done"}] /\ rPc'[r] = "done"
      /\ \A q \in Runs : rPc[q] = "done" => rPc'[q] = "done"
      /\ \A q \in Runs : q # r => rPc'[q] = rPc[q]
  BY <1>1, <1>6
<1>8. status' \in [Jobs -> Statuses] /\ ChainInStep' /\ MessagesInStep'
  <2>1. status' = [status EXCEPT ![j] = "CREATED"]
    BY <1>1, <1>3
  <2>2. Place(j) = Count(Run(j)) + 1
    BY <1>3, <1>5
  <2>3. /\ rPc'[Run(j)] = "done"
        /\ \E i \in DOMAIN plan[Run(j)] : plan[Run(j)][i] = Chapter(j)
    BY <1>3, <1>4, <1>7
  <2>4. UNCHANGED <<msg, tries, pc, plan, script, next, content>> /\ status[j] = "ABSENT"
    BY <1>1, <1>3, <1>5
  <2> QED
    BY <1>7, <2>1, <2>2, <2>3, <2>4, RowCreated
<1>9. RunsPlanned'
  BY <1>1, <1>2, <1>7 DEF Core, RunsPlanned
<1>10. Opened' = Opened /\ \A v \in Opened : owner[v] \in Runs
  BY <1>1 DEF Opened, Core, RowsTyped
<1>11. ScriptsNumbered' /\ ScriptsFilled'
  BY <1>1, <1>7, <1>10 DEF Core, ScriptsNumbered, ScriptsFilled
<1>12. ASSUME NEW a \in Attempts, Used(a) PROVE Used(a)'
  <2>1. a[1] # 0 => a[1] \in Runs
    BY DEF Attempts
  <2>2. Root(a[1])' = Root(a[1])
    BY <1>1 DEF Root
  <2> QED
    BY <1>1, <1>7, <1>12, <2>1, <2>2 DEF Used
<1>13. ScriptsCounted'
  BY <1>10, <1>12, CountedKept DEF Core
<1>14. ChainTypeOK'
  BY <1>1, <1>8 DEF Core, RowsTyped, ChainTypeOK
<1>15. RowsTyped'
  BY <1>1, <1>7, <1>10, <1>14 DEF Core, RowsTyped
<1> QED
  BY <1>8, <1>9, <1>11, <1>13, <1>15 DEF Core

\* startDirector's checks: the run has a plan, and no row that would depend on it.
LEMMA CheckPreserves == ASSUME Core, NEW r \in Runs, NEW p \in Plans, Check(r, p) PROVE Core'
<1>1. /\ rPc[r] = "idle" /\ rPc' = [rPc EXCEPT ![r] = "commit"] /\ plan' = [plan EXCEPT ![r] = p]
      /\ UNCHANGED <<status, cancel, msg, tries, pc, troubles, script, next, scriptVars>>
  BY DEF Check, chainVars, rowVars, messageVars, bounds
<1>2. rPc \in [Runs -> {"idle", "commit", "done"}] /\ plan \in [Runs -> Plans \cup {<<>>}]
  BY DEF Core, RowsTyped
<1>3. /\ rPc' \in [Runs -> {"idle", "commit", "done"}] /\ plan' \in [Runs -> Plans \cup {<<>>}]
      /\ rPc'[r] = "commit" /\ plan'[r] = p
      /\ \A q \in Runs \ {r} : rPc'[q] = rPc[q] /\ plan'[q] = plan[q]
  BY <1>1, <1>2
<1>4. owner' = owner /\ content' = content /\ current' = current /\ book' = book
  BY <1>1 DEF scriptVars
<1>5. /\ \A k \in Jobs : Run(k) = r => status[k] = "ABSENT" /\ pc[k] = "idle"
      /\ \A v \in Opened : owner[v] # r
  BY <1>1, NothingYet
<1>6. ASSUME NEW k \in Jobs, Generates(k), status[k] # "ABSENT"
      PROVE  /\ Run(k) \in Runs \ {r} /\ Place(k)' = Place(k) /\ Successor(k)' = Successor(k)
             /\ (IsRoot(k)' <=> IsRoot(k))
             /\ Count(Run(k))' = Count(Run(k)) /\ (Done(k)' <=> Done(k)) /\ RowInStep(k)
  <2>1. Run(k) \in Runs \ {r} /\ RowInStep(k)
    BY <1>5, <1>6, RowFacts
  <2>2. Place(k)' = Place(k) /\ Successor(k)' = Successor(k) /\ (IsRoot(k)' <=> IsRoot(k))
    BY <1>3, <2>1, PlacesKept
  <2>3. Count(Run(k))' = Count(Run(k))
    BY <1>1, <1>4 DEF Count
  <2> QED
    BY <2>1, <2>2, <2>3 DEF Done
<1>7. ASSUME NEW k \in Jobs, Generates(k), status[k] # "ABSENT" PROVE RowInStep(k)'
  BY <1>1, <1>3, <1>6, <1>7 DEF RowInStep
<1>8. ASSUME NEW k \in Jobs PROVE MessageInStep(k)'
  <2>1. MessageInStep(k)
    BY DEF Core, MessagesInStep
  <2>2. CASE pc[k] \in {"draft", "decide", "enqueue"}
    <3>1. Generates(k) /\ status[k] # "ABSENT"
      BY <2>1, <2>2, InHand DEF MessageInStep
    <3> QED
      BY <1>1, <1>3, <1>6, <2>1, <3>1 DEF MessageInStep, Over
  <2>3. CASE pc[k] \notin {"draft", "decide", "enqueue"}
    BY <1>1, <2>1, <2>3 DEF MessageInStep
  <2> QED
    BY <2>2, <2>3
<1>9. ChainInStep' /\ MessagesInStep'
  BY <1>1, <1>7, <1>8 DEF ChainInStep, MessagesInStep, Generates, Run
<1>10. RunsPlanned'
  BY <1>3 DEF Core, RunsPlanned
<1>11. Opened' = Opened /\ \A v \in Opened : owner[v] \in Runs \ {r}
  BY <1>4, <1>5 DEF Opened, Core, RowsTyped
<1>12. ScriptsNumbered'
  BY <1>1, <1>3, <1>4, <1>11 DEF Core, ScriptsNumbered
<1>13. ScriptsFilled'
  <2> SUFFICES ASSUME NEW v \in Versions
               PROVE  /\ content[v] # <<>> => owner[v] # 0 /\ script[owner[v]] = v
                      /\ owner[v] # 0 => /\ Len(content[v]) <= Len(plan'[owner[v]])
                                         /\ \A i \in 1..Len(content[v]) : content[v][i] = plan'[owner[v]][i]
    BY <1>1, <1>4 DEF ScriptsFilled
  <2>1. owner[v] # 0 => plan'[owner[v]] = plan[owner[v]]
    BY <1>3, <1>11 DEF Opened
  <2> QED
    BY <2>1 DEF Core, ScriptsFilled
<1>14. ASSUME NEW a \in Attempts, Used(a) PROVE Used(a)'
  <2>1. CASE a[1] = 0
    BY <1>1, <1>14, <2>1 DEF Used
  <2>2. CASE a[1] # 0
    <3>1. a[1] \in Runs /\ rPc[a[1]] = "done"
      BY <1>14, <2>2 DEF Attempts, Used
    <3>2. a[1] \in Runs \ {r}
      BY <1>1, <3>1
    <3>3. Root(a[1])' = Root(a[1]) /\ rPc'[a[1]] = "done"
      BY <1>3, <3>1, <3>2 DEF Root
    <3> QED
      BY <1>1, <1>14, <2>2, <3>3 DEF Used
  <2> QED
    BY <2>1, <2>2
<1>15. ScriptsCounted'
  BY <1>11, <1>14, CountedKept DEF Core
<1>16. ChainTypeOK'
  BY <1>1 DEF Core, RowsTyped, ChainTypeOK
<1>17. RowsTyped'
  BY <1>1, <1>3, <1>4, <1>11, <1>16 DEF Core, RowsTyped
<1> QED
  BY <1>9, <1>10, <1>12, <1>13, <1>15, <1>17 DEF Core

-----------------------------------------------------------------------------
(* The enqueue of the next chapter *)

\* Two jobs about to enqueue their successors have different ones.
LEMMA SuccessorsDiffer ==
  ASSUME Core, NEW j \in Jobs, NEW k \in Jobs, pc[j] = "enqueue", pc[k] = "enqueue",
         Successor(j) = Successor(k)
  PROVE  j = k
<1>1. /\ status[j] # "ABSENT" /\ Generates(j) /\ Place(j) < Len(plan[Run(j)])
      /\ status[k] # "ABSENT" /\ Generates(k) /\ Place(k) < Len(plan[Run(k)])
  BY DEF Core, MessagesInStep, MessageInStep
<1>2. Run(Successor(j)) = Run(j) /\ Place(Successor(j)) = Place(j) + 1
  BY <1>1, SuccessorFacts
<1>3. Run(Successor(j)) = Run(k) /\ Place(Successor(j)) = Place(k) + 1
  BY <1>1, SuccessorFacts
<1>4. /\ plan[Run(j)][Place(j)] = Chapter(j) /\ plan[Run(k)][Place(k)] = Chapter(k)
      /\ Place(j) \in Int /\ Place(k) \in Int
  BY <1>1, RowFacts
<1>5. Place(j) = Place(k)
  BY <1>2, <1>3, <1>4
<1>6. Run(j) = Run(k) /\ Chapter(j) = Chapter(k)
  BY <1>2, <1>3, <1>4, <1>5
<1> QED
  BY <1>6, JobParts

\* The enqueue of the successor, and one that Redis refuses.
LEMMA EnqueuePreserves ==
  ASSUME Core, NEW j \in Jobs, Generates(j), Enqueue(j, Successor(j)), Elsewhere
  PROVE  Core'
<1>1. pc[j] = "enqueue" /\ UNCHANGED <<status, cancel, runVars, scriptVars>>
  BY DEF Enqueue, rowVars, Elsewhere
<1>2. CASE Trouble /\ Finish(j, "retry")
  BY <1>1, <1>2, LeavesPreserves DEF rowVars
<1>3. CASE /\ msg' = [msg EXCEPT ![Successor(j)] = "wait", ![j] = "completed"]
           /\ tries' = [tries EXCEPT ![j] = @ + 1] /\ Goto(j, "idle") /\ UNCHANGED troubles
  <2>1. /\ status[j] # "ABSENT" /\ tries[j] \in 0..MaxAttempts /\ tries[j] < MaxAttempts
        /\ RowInStep(j) /\ MessageInStep(j)
    BY <1>1, InHand
  <2>2. /\ Place(j) < Len(plan[Run(j)])
        /\ msg[Successor(j)] = "none" /\ status[Successor(j)] # "ABSENT"
    BY <1>1, <2>1 DEF MessageInStep
  <2>3. PICK s \in Jobs : s = Successor(j) /\ s # j
    BY <2>1, <2>2, SuccessorFacts
  <2>4. /\ msg \in [Jobs -> {"none", "wait", "active", "completed", "failed", "removed"}]
        /\ tries \in [Jobs -> 0..MaxAttempts] /\ pc \in [Jobs -> Steps]
        /\ \A k \in Jobs : pc[k] # "idle" <=> msg[k] = "active"
    BY DEF Core, RowsTyped, ChainTypeOK
  <2>5. /\ msg' \in [Jobs -> {"none", "wait", "active", "completed", "failed", "removed"}]
        /\ msg'[s] = "wait" /\ msg'[j] = "completed"
        /\ \A k \in Jobs \ {j, s} : msg'[k] = msg[k]
    BY <1>3, <2>3, <2>4
  <2>6. pc' \in [Jobs -> Steps] /\ pc'[j] = "idle" /\ \A k \in Jobs \ {j} : pc'[k] = pc[k]
    BY <1>3, <2>4 DEF Goto, Steps
  <2>7. tries[j] + 1 \in 0..MaxAttempts
    BY <2>1, ChainAssumption
  <2>8. /\ tries' \in [Jobs -> 0..MaxAttempts] /\ tries'[j] = tries[j] + 1
        /\ \A k \in Jobs \ {j} : tries'[k] = tries[k]
    BY <1>3, <2>4, <2>7
  <2>9. pc[s] = "idle" /\ \A k \in Jobs : pc'[k] # "idle" <=> msg'[k] = "active"
    BY <2>2, <2>3, <2>4, <2>5, <2>6
  <2>10. /\ plan' = plan /\ rPc' = rPc /\ script' = script /\ next' = next
         /\ content' = content
    BY <1>1 DEF runVars, scriptVars
  <2>11. ASSUME NEW k \in Jobs, Generates(k), status'[k] # "ABSENT" PROVE RowInStep(k)'
    <3>1. RowInStep(k)
      BY <1>1, <2>11, RowFacts
    <3>2. /\ Place(k)' = Place(k) /\ Count(Run(k))' = Count(Run(k)) /\ (Done(k)' <=> Done(k))
      BY <2>10, PlacesKept DEF Count, Done
    <3>3. pc'[k] # "idle" => pc[k] # "idle"
      BY <2>6
    <3> QED
      BY <1>1, <2>10, <3>1, <3>2, <3>3 DEF RowInStep
  <2>12. ASSUME NEW k \in Jobs PROVE MessageInStep(k)'
    <3>1. MessageInStep(k)
      BY DEF Core, MessagesInStep
    <3>2. Place(k)' = Place(k) /\ Successor(k)' = Successor(k) /\ (IsRoot(k)' <=> IsRoot(k))
      BY <2>10, PlacesKept
    <3>3. CASE k = j
      BY <1>1, <2>1, <2>5, <2>6, <3>3 DEF MessageInStep
    <3>4. CASE k = s
      BY <1>1, <2>2, <2>3, <2>5, <2>6, <2>8, <2>9, <3>1, <3>4 DEF MessageInStep
    <3>5. CASE k # j /\ k # s
      <4>1. pc'[k] = pc[k] /\ msg'[k] = msg[k] /\ tries'[k] = tries[k] /\ status'[k] = status[k]
        BY <1>1, <2>5, <2>6, <2>8, <3>5
      <4>2. ASSUME pc[k] = "enqueue"
            PROVE  msg'[Successor(k)] = "none" /\ status'[Successor(k)] # "ABSENT"
        <5>1. /\ msg[Successor(k)] = "none" /\ status[Successor(k)] # "ABSENT" /\ status[k] # "ABSENT"
              /\ Generates(k) /\ Place(k) < Len(plan[Run(k)])
          BY <3>1, <4>2 DEF MessageInStep
        <5>2. Successor(k) \in Jobs
          BY <5>1, SuccessorFacts
        <5>3. Successor(k) # s
          BY <1>1, <2>3, <3>5, <4>2, SuccessorsDiffer
        <5>4. Successor(k) # j
          BY <1>1, <2>4, <5>1
        <5> QED
          BY <1>1, <2>5, <5>1, <5>2, <5>3, <5>4
      <4> QED
        BY <2>10, <3>1, <3>2, <4>1, <4>2 DEF MessageInStep, Over
    <3> QED
      BY <3>3, <3>4, <3>5
  <2>13. ChainInStep' /\ MessagesInStep'
    BY <2>11, <2>12 DEF ChainInStep, MessagesInStep, Generates, Run
  <2>14. /\ RunsPlanned' /\ ScriptsNumbered' /\ ScriptsFilled' /\ Opened' = Opened
         /\ current' \in Opened' \cup {0}
    BY <1>1, RestKept
  <2>15. \A a \in Attempts : Used(a) => Used(a)'
    BY <1>3, <2>6, <2>8, <2>10, AttemptsKept
  <2>16. ScriptsCounted'
    BY <2>14, <2>15, CountedKept DEF Core
  <2>17. ChainTypeOK'
    BY <1>1, <2>5, <2>8, <2>9 DEF Core, RowsTyped, ChainTypeOK
  <2>18. RowsTyped'
    BY <1>1, <1>3, <2>6, <2>14, <2>17 DEF Core, RowsTyped, runVars, scriptVars
  <2> QED
    BY <2>13, <2>14, <2>16, <2>18 DEF Core
<1> QED
  BY <1>2, <1>3 DEF Enqueue

-----------------------------------------------------------------------------
(* A draft *)

\* A job about to create a draft: it is its run's first, and nothing of the run is committed.
LEMMA Drafting ==
  ASSUME Core, NEW j \in Jobs, pc[j] = "draft", NEW r, r = Run(j), NEW v, v = next[r],
         v \notin Opened
  PROVE  /\ r \in Runs /\ Generates(j) /\ j = Root(r) /\ status[j] # "ABSENT" /\ rPc[r] = "done"
         /\ plan[r] \in Plans /\ tries[j] \in 0..MaxAttempts /\ tries[j] < MaxAttempts
         /\ v \in Versions /\ v \in Nat /\ v # 0 /\ owner[v] = 0 /\ content[v] = <<>>
         /\ Count(r) = 0 /\ Place(j) = 1 /\ ~Done(j)
         /\ \A u \in 1..(v - 1) : u \in Opened
         /\ \A u \in Opened : u < v
<1>1. MessageInStep(j) /\ status[j] # "ABSENT" /\ tries[j] \in 0..MaxAttempts /\ tries[j] < MaxAttempts
  BY InHand
<1>2. Generates(j) /\ IsRoot(j) /\ ~Over(j) /\ v # 0
  BY <1>1 DEF MessageInStep
<1>3. RowInStep(j) /\ r \in Runs /\ plan[r] \in Plans /\ rPc[r] = "done"
  BY <1>1, <1>2, RowFacts
<1>4. j = Root(r) /\ Place(j) = 1
  BY <1>2, <1>3, RootIs DEF IsRoot
<1>5. ~Done(j)
  BY <1>2, <1>3 DEF RowInStep, Over
<1>6. Count(r) = 0
  BY <1>3, <1>4, <1>5, CountIs DEF Done
<1>7. v \in Versions /\ v \in Nat
  BY <1>2, <1>3, VersionsArePositive DEF Core, RowsTyped
<1>8. owner[v] = 0 /\ content[v] = <<>>
  BY <1>7 DEF Opened, Core, ScriptsFilled
<1>9. \A u \in 1..(v - 1) : u \in Opened
  BY <1>3 DEF Core, ScriptsNumbered
<1>10. ASSUME NEW u \in Opened PROVE u < v
  <2>1. u \in Nat /\ \A w \in 1..u : w \in Opened
    BY VersionsArePositive DEF Opened, Core, ScriptsNumbered
  <2> QED
    BY <1>2, <1>7, <2>1
<1> QED
  BY <1>1, <1>2, <1>3, <1>4, <1>5, <1>6, <1>7, <1>8, <1>9, <1>10

\* The attempt that creates a draft has one more script.
LEMMA DraftCounted ==
  ASSUME Core, NEW j \in Jobs, pc[j] = "draft", NEW r, r = Run(j), NEW v, v = next[r],
         v \notin Opened, Opened' = Opened \cup {v}, pc'[j] = "decide",
         \A k \in Jobs \ {j} : pc'[k] = pc[k], UNCHANGED <<tries, troubles, rPc, plan>>
  PROVE  ScriptsCounted'
<1>1. /\ r \in Runs /\ r # 0 /\ j = Root(r) /\ rPc[r] = "done" /\ plan[r] \in Plans
      /\ tries[j] \in 0..MaxAttempts /\ tries[j] < MaxAttempts
  BY Drafting, JobParts
<1>2. PICK a : a = <<r, tries[j] + 1>>
  OBVIOUS
<1>3. a \in Attempts /\ a[1] = r /\ a[2] = tries[j] + 1
  <2>1. tries[j] + 1 \in 1..MaxAttempts
    BY <1>1, ChainAssumption
  <2>2. a \in Runs \X (1..MaxAttempts)
    BY <1>1, <1>2, <2>1
  <2> QED
    BY <1>2, <2>2 DEF Attempts
<1>4. ~Used(a)
  <2> SUFFICES ASSUME Used(a) PROVE FALSE
    OBVIOUS
  <2>1. a[2] <= tries[j] \/ pc[j] \in {"decide", "enqueue"}
    BY <1>1, <1>3, Zenon DEF Used
  <2>2. a[2] <= tries[j]
    BY <2>1
  <2>3. tries[j] \in Nat
    BY <1>1, ChainAssumption
  <2> QED
    BY <1>3, <2>2, <2>3
<1>5. Used(a)'
  <2>1. Root(r)' = j
    BY <1>1 DEF Root
  <2> QED
    BY <1>1, <1>3, <2>1 DEF Used
<1>6. \A b \in Attempts : Used(b) => Used(b)'
  BY AttemptsKept
<1>7. PICK f \in [Opened -> Attempts] :
        /\ \A u, w \in Opened : f[u] = f[w] => u = w
        /\ \A u \in Opened : Used(f[u])
  BY DEF Core, ScriptsCounted
<1>8. PICK S : S = Opened \cup {v}
  OBVIOUS
<1>9. PICK g \in [S -> Attempts] : g[v] = a /\ \A u \in Opened : g[u] = f[u]
  <2> DEFINE h == [u \in S |-> IF u = v THEN a ELSE f[u]]
  <2>1. h \in [S -> Attempts] /\ h[v] = a /\ \A u \in Opened : h[u] = f[u]
    BY <1>3, <1>7, <1>8
  <2> QED
    BY <2>1
<1>10. \A u \in S : Used(g[u])'
  <2> SUFFICES ASSUME NEW u \in S PROVE Used(g[u])'
    OBVIOUS
  <2>1. CASE u = v
    BY <1>5, <1>9, <2>1
  <2>2. CASE u \in Opened
    <3>1. f[u] \in Attempts /\ Used(f[u]) /\ g[u] = f[u]
      BY <1>7, <1>9, <2>2
    <3> QED
      BY <1>6, <3>1
  <2> QED
    BY <1>8, <2>1, <2>2
<1>11. ASSUME NEW u \in S, NEW w \in S, g[u] = g[w] PROVE u = w
  <2>1. \A x \in Opened : f[x] # a
    BY <1>4, <1>7
  <2> QED
    BY <1>7, <1>8, <1>9, <1>11, <2>1
<1>12. S = Opened'
  BY <1>8
<1> QED
  BY <1>9, <1>10, <1>11, <1>12 DEF ScriptsCounted

\* CreateDraftAudioScript opens the script that the run goes on with; a script of an earlier
\* attempt is left with nothing in it.
LEMMA CreateDraftPreserves == ASSUME Core, NEW j \in Jobs, CreateDraftAudioScript(j) PROVE Core'
<1>1. PICK r, v : r = Run(j) /\ v = next[r]
  OBVIOUS
<1>2. /\ pc[j] = "draft" /\ v \notin Opened
      /\ owner' = [owner EXCEPT ![v] = r] /\ script' = [script EXCEPT ![r] = v]
      /\ next' = [next EXCEPT ![r] = 0] /\ status' = [status EXCEPT ![j] = "RUNNING"]
      /\ pc' = [pc EXCEPT ![j] = "decide"]
      /\ UNCHANGED <<cancel, msg, tries, troubles, rPc, plan, content, current, book>>
  BY <1>1 DEF CreateDraftAudioScript, MarkJobRunning, Goto, bounds
<1>3. /\ r \in Runs /\ Generates(j) /\ j = Root(r) /\ status[j] # "ABSENT" /\ rPc[r] = "done"
      /\ plan[r] \in Plans /\ tries[j] \in 0..MaxAttempts /\ tries[j] < MaxAttempts
      /\ v \in Versions /\ v \in Nat /\ v # 0 /\ owner[v] = 0 /\ content[v] = <<>>
      /\ Count(r) = 0 /\ Place(j) = 1 /\ ~Done(j)
      /\ \A u \in 1..(v - 1) : u \in Opened
      /\ \A u \in Opened : u < v
  BY <1>1, <1>2, Drafting
<1>4. r # 0
  BY <1>3, JobParts
<1>5. /\ status \in [Jobs -> Statuses] /\ pc \in [Jobs -> Steps] /\ cancel \in [Jobs -> BOOLEAN]
      /\ \A k \in Jobs : pc[k] # "idle" <=> msg[k] = "active"
      /\ script \in [Runs -> Versions \cup {0}] /\ next \in [Runs -> Versions \cup {0}]
      /\ owner \in [Versions -> Runs \cup {0}] /\ content \in [Versions -> Seq(Chapters)]
      /\ current \in Opened \cup {0}
  BY DEF Core, RowsTyped, ChainTypeOK
<1>6. /\ owner' \in [Versions -> Runs \cup {0}] /\ owner'[v] = r
      /\ \A w \in Versions \ {v} : owner'[w] = owner[w]
  BY <1>2, <1>3, <1>5
<1>7. /\ script' \in [Runs -> Versions \cup {0}] /\ script'[r] = v
      /\ \A q \in Runs \ {r} : script'[q] = script[q]
  BY <1>2, <1>3, <1>5
<1>8. /\ next' \in [Runs -> Versions \cup {0}] /\ next'[r] = 0
      /\ \A q \in Runs \ {r} : next'[q] = next[q]
  BY <1>2, <1>3, <1>5
<1>9. /\ status' \in [Jobs -> Statuses] /\ status'[j] = "RUNNING"
      /\ \A k \in Jobs \ {j} : status'[k] = status[k]
  BY <1>2, <1>5 DEF Statuses, Active
<1>10. /\ pc' \in [Jobs -> Steps] /\ pc'[j] = "decide" /\ \A k \in Jobs \ {j} : pc'[k] = pc[k]
  BY <1>2, <1>5 DEF Steps
<1>11. Opened' = Opened \cup {v}
  BY <1>3, <1>4, <1>6 DEF Opened
<1>12. \A q \in Runs : Count(q)' = Count(q)
  <2>1. Count(r)' = 0
    <3>1. Count(r)' = Len(content'[v])
      BY <1>3, <1>7 DEF Count
    <3> QED
      BY <1>2, <1>3, <3>1
  <2>2. \A q \in Runs \ {r} : Count(q)' = Count(q)
    BY <1>2, <1>7 DEF Count
  <2> QED
    BY <1>3, <2>1, <2>2
<1>13. ASSUME NEW k \in Jobs
       PROVE  Place(k)' = Place(k) /\ Successor(k)' = Successor(k) /\ (IsRoot(k)' <=> IsRoot(k))
  BY <1>2, PlacesKept
<1>14. ASSUME NEW k \in Jobs, Generates(k), status'[k] # "ABSENT" PROVE RowInStep(k)'
  <2>1. RowInStep(k) /\ Run(k) \in Runs
    BY <1>3, <1>9, <1>14, RowFacts
  <2>2. Place(k)' = Place(k) /\ Count(Run(k))' = Count(Run(k)) /\ (Done(k)' <=> Done(k))
    BY <1>12, <1>13, <2>1 DEF Done
  <2>3. Done(k) => /\ status'[k] \in {"SUCCEEDED", "CANCELLED"}
                   /\ pc'[k] # "idle" => status'[k] = "SUCCEEDED"
    BY <1>3, <1>9, <1>10, <2>1 DEF RowInStep
  <2> QED
    BY <1>2, <2>1, <2>2, <2>3 DEF RowInStep
<1>15. ASSUME NEW k \in Jobs PROVE MessageInStep(k)'
  <2>1. MessageInStep(k)
    BY DEF Core, MessagesInStep
  <2>2. CASE k = j
    BY <1>1, <1>2, <1>3, <1>5, <1>7, <1>9, <1>10, <2>2 DEF MessageInStep
  <2>3. CASE k # j
    <3>1. status'[k] = status[k] /\ pc'[k] = pc[k]
      BY <1>9, <1>10, <2>3
    <3>2. ASSUME pc[k] \in {"draft", "decide", "enqueue"} PROVE Generates(k) /\ Run(k) \in Runs
      BY <2>1, <3>2, JobParts DEF MessageInStep
    <3>3. pc[k] = "draft" => next'[Run(k)] # 0
      BY <1>3, <1>8, <2>1, <2>3, <3>2 DEF MessageInStep, IsRoot
    <3>4. pc[k] = "decide" => script'[Run(k)] # 0
      BY <1>3, <1>7, <2>1, <3>2 DEF MessageInStep
    <3>5. ASSUME pc[k] = "enqueue" PROVE status'[Successor(k)] # "ABSENT"
      <4>1. /\ status[k] # "ABSENT" /\ Generates(k) /\ Place(k) < Len(plan[Run(k)])
            /\ status[Successor(k)] # "ABSENT"
        BY <2>1, <3>5 DEF MessageInStep
      <4>2. Successor(k) \in Jobs
        BY <4>1, SuccessorFacts
      <4> QED
        BY <1>9, <4>1, <4>2
    <3> QED
      BY <1>2, <1>13, <2>1, <3>1, <3>3, <3>4, <3>5 DEF MessageInStep, Over
  <2> QED
    BY <2>2, <2>3
<1>16. ChainInStep' /\ MessagesInStep'
  BY <1>14, <1>15 DEF ChainInStep, MessagesInStep, Generates, Run
<1>17. RunsPlanned'
  BY <1>2 DEF Core, RunsPlanned
<1>18. ScriptsNumbered'
  <2>1. ASSUME NEW w \in Opened' PROVE rPc'[owner'[w]] = "done" /\ \A u \in 1..w : u \in Opened'
    <3>1. CASE w = v
      BY <1>2, <1>3, <1>6, <1>11, <3>1
    <3>2. CASE w \in Opened /\ w # v
      <4>1. owner'[w] = owner[w]
        BY <1>6, <3>2 DEF Opened
      <4> QED
        BY <1>2, <1>11, <3>2, <4>1 DEF Core, ScriptsNumbered
    <3> QED
      BY <1>11, <2>1, <3>1, <3>2
  <2>2. ASSUME NEW q \in Runs, script'[q] # 0 PROVE owner'[script'[q]] = q
    <3>1. CASE q = r
      BY <1>6, <1>7, <3>1
    <3>2. CASE q # r
      <4>1. script'[q] = script[q] /\ script[q] \in Versions /\ script[q] \in Opened
        BY <1>7, <2>2, <3>2, CountIs
      <4>2. script[q] # v /\ owner[script[q]] = q
        BY <1>2, <2>2, <4>1 DEF Core, ScriptsNumbered
      <4> QED
        BY <1>6, <4>1, <4>2
    <3> QED
      BY <3>1, <3>2
  <2>3. ASSUME NEW q \in Runs, NEW u \in 1..(next'[q] - 1) PROVE u \in Opened'
    <3>1. q # r
      BY <1>8, <2>3
    <3> QED
      BY <1>8, <1>11, <2>3, <3>1 DEF Core, ScriptsNumbered
  <2> QED
    BY <2>1, <2>2, <2>3 DEF ScriptsNumbered
<1>19. ScriptsFilled'
  <2> SUFFICES ASSUME NEW w \in Versions
               PROVE  /\ content[w] # <<>> => owner'[w] # 0 /\ script'[owner'[w]] = w
                      /\ owner'[w] # 0 => /\ Len(content[w]) <= Len(plan[owner'[w]])
                                          /\ \A i \in 1..Len(content[w]) : content[w][i] = plan[owner'[w]][i]
    BY <1>2 DEF ScriptsFilled
  <2>1. CASE w = v
    <3>1. Len(content[v]) = 0 /\ Len(plan[r]) \in Nat
      BY <1>3, PlanParts
    <3> QED
      BY <1>3, <1>4, <1>6, <1>7, <2>1, <3>1
  <2>2. CASE w # v
    <3>1. owner'[w] = owner[w] /\ owner[w] \in Runs \cup {0}
      BY <1>5, <1>6, <2>2
    <3>2. ASSUME content[w] # <<>> PROVE script'[owner[w]] = w
      <4>1. owner[w] # 0 /\ script[owner[w]] = w
        BY <3>2 DEF Core, ScriptsFilled
      <4>2. Len(content[w]) # 0 /\ w # 0
        BY <1>5, <3>2, EmptySeq, VersionsArePositive
      <4>3. owner[w] # r
        BY <1>3, <4>1, <4>2 DEF Count
      <4> QED
        BY <1>7, <3>1, <4>1, <4>3
    <3> QED
      BY <3>1, <3>2 DEF Core, ScriptsFilled
  <2> QED
    BY <2>1, <2>2
<1>20. ScriptsCounted'
  BY <1>1, <1>2, <1>10, <1>11, DraftCounted
<1>21. \A k \in Jobs : pc'[k] # "idle" <=> msg'[k] = "active"
  BY <1>2, <1>5, <1>10
<1>22. ChainTypeOK'
  BY <1>2, <1>9, <1>21 DEF Core, RowsTyped, ChainTypeOK
<1>23. RowsTyped'
  BY <1>2, <1>5, <1>6, <1>7, <1>8, <1>10, <1>11, <1>22 DEF Core, RowsTyped
<1> QED
  BY <1>16, <1>17, <1>18, <1>19, <1>20, <1>23 DEF Core

-----------------------------------------------------------------------------
(* The chunks of a chapter *)

\* A job at its decisions: its chapter is the first of the plan without chunks.
LEMMA Deciding ==
  ASSUME Core, NEW j \in Jobs, pc[j] = "decide", NEW r \in Runs, r = Run(j), NEW v, v = script[r]
  PROVE  /\ Generates(j) /\ status[j] = "RUNNING" /\ msg[j] = "active" /\ rPc[r] = "done"
         /\ tries[j] \in 0..MaxAttempts /\ tries[j] < MaxAttempts
         /\ v \in Versions /\ v # 0 /\ v \in Opened /\ owner[v] = r
         /\ content[v] \in Seq(Chapters) /\ plan[r] \in Plans /\ Chapter(j) \in Chapters
         /\ Len(content[v]) \in Nat /\ Len(plan[r]) \in Nat
         /\ Count(r) = Len(content[v]) /\ Place(j) = Len(content[v]) + 1
         /\ Place(j) <= Len(plan[r]) /\ Chapter(j) = plan[r][Place(j)]
         /\ Remaining(j) = <<>> <=> Place(j) = Len(plan[r])
<1>1. /\ MessageInStep(j) /\ msg[j] = "active" /\ tries[j] \in 0..MaxAttempts
      /\ tries[j] < MaxAttempts
  BY InHand DEF Core, RowsTyped, ChainTypeOK
<1>2. Generates(j) /\ status[j] = "RUNNING" /\ script[r] # 0
  BY <1>1 DEF MessageInStep
<1>3. /\ RowInStep(j) /\ plan[r] \in Plans /\ Place(j) \in 1..Len(plan[r]) /\ rPc[r] = "done"
      /\ plan[r][Place(j)] = Chapter(j) /\ Len(plan[r]) \in Nat
  BY <1>2, RowFacts
<1>4. /\ v \in Versions /\ v \in Opened /\ content[v] \in Seq(Chapters)
      /\ Count(r) = Len(content[v]) /\ Count(r) \in Nat
  BY <1>2, CountIs
<1>5. Place(j) <= Count(r) + 1 /\ ~(Place(j) <= Count(r))
  BY <1>2, <1>3 DEF RowInStep, Done
<1>6. Place(j) = Count(r) + 1
  BY <1>3, <1>4, <1>5
<1>7. Remaining(j) = <<>> <=> Place(j) = Len(plan[r])
  BY <1>3, SuccessorIs
<1>8. Chapter(j) \in Chapters /\ owner[v] = r
  BY <1>2, JobParts DEF Core, ScriptsNumbered
<1> QED
  BY <1>1, <1>2, <1>3, <1>4, <1>6, <1>7, <1>8

\* The chunks of a chapter are added to its run's script and to no other.
LEMMA InsertsOne ==
  ASSUME Core, NEW j \in Jobs, pc[j] = "decide", NEW r \in Runs, r = Run(j), NEW v, v = script[r],
         InsertChunks(j), UNCHANGED <<runVars, owner>>
  PROVE  /\ content' \in [Versions -> Seq(Chapters)]
         /\ content' = [content EXCEPT ![v] = Append(content[v], plan[r][Len(content[v]) + 1])]
         /\ Len(content'[v]) = Len(content[v]) + 1
         /\ \A i \in 1..Len(content'[v]) : content'[v][i] = plan[r][i]
         /\ \A q \in Runs : Count(q)' = IF q = r THEN Count(q) + 1 ELSE Count(q)
         /\ RunsPlanned' /\ ScriptsNumbered' /\ ScriptsFilled' /\ Opened' = Opened
<1>1. /\ v \in Versions /\ v # 0 /\ owner[v] = r /\ content[v] \in Seq(Chapters)
      /\ Chapter(j) \in Chapters /\ Len(content[v]) \in Nat /\ Count(r) = Len(content[v])
      /\ Place(j) = Len(content[v]) + 1 /\ Chapter(j) = plan[r][Place(j)]
      /\ Place(j) <= Len(plan[r]) /\ r # 0
  BY Deciding, JobParts
<1>2. content \in [Versions -> Seq(Chapters)] /\ script \in [Runs -> Versions \cup {0}]
  BY DEF Core, RowsTyped
<1>3. plan' = plan /\ rPc' = rPc /\ script' = script /\ next' = next /\ owner' = owner
  BY DEF runVars
<1> DEFINE more == Append(content[v], Chapter(j))
<1>4. content' = [content EXCEPT ![v] = more]
  BY DEF InsertChunks
<1>5. /\ more \in Seq(Chapters) /\ Len(more) = Len(content[v]) + 1
      /\ \A i \in 1..Len(content[v]) : more[i] = content[v][i]
      /\ more[Len(content[v]) + 1] = Chapter(j)
  BY <1>1, AppendProperties
<1>6. more = Append(content[v], plan[r][Len(content[v]) + 1])
  BY <1>1
<1> HIDE DEF more
<1>7. /\ content' \in [Versions -> Seq(Chapters)] /\ content'[v] = more
      /\ \A w \in Versions \ {v} : content'[w] = content[w]
  BY <1>1, <1>2, <1>4, <1>5
<1>8. \A i \in 1..Len(content[v]) : content[v][i] = plan[r][i]
  BY <1>1 DEF Core, ScriptsFilled
<1>9. \A i \in 1..Len(more) : more[i] = plan[r][i]
  BY <1>1, <1>5, <1>8
<1>10. ASSUME NEW q \in Runs PROVE Count(q)' = IF q = r THEN Count(q) + 1 ELSE Count(q)
  <2>1. CASE q = r
    <3>1. Count(q)' = Len(content'[v])
      BY <1>1, <1>3, <2>1 DEF Count
    <3> QED
      BY <1>1, <1>5, <1>7, <2>1, <3>1
  <2>2. CASE q # r
    <3>1. script[q] # v /\ script[q] \in Versions \cup {0}
      BY <1>1, <1>2, <2>2 DEF Core, ScriptsNumbered
    <3> QED
      BY <1>3, <1>7, <2>2, <3>1 DEF Count
  <2> QED
    BY <2>1, <2>2
<1>11. Opened' = Opened
  BY <1>3 DEF Opened
<1>12. RunsPlanned' /\ ScriptsNumbered'
  BY <1>3, <1>11 DEF Core, RunsPlanned, ScriptsNumbered
<1>13. ScriptsFilled'
  <2> SUFFICES ASSUME NEW w \in Versions
               PROVE  /\ content'[w] # <<>> => owner[w] # 0 /\ script[owner[w]] = w
                      /\ owner[w] # 0 => /\ Len(content'[w]) <= Len(plan[owner[w]])
                                         /\ \A i \in 1..Len(content'[w]) : content'[w][i] = plan[owner[w]][i]
    BY <1>3 DEF ScriptsFilled
  <2>1. CASE w = v
    BY <1>1, <1>5, <1>7, <1>9, <2>1
  <2>2. CASE w # v
    BY <1>7, <2>2 DEF Core, ScriptsFilled
  <2> QED
    BY <2>1, <2>2
<1> QED
  BY <1>4, <1>5, <1>6, <1>7, <1>9, <1>10, <1>11, <1>12, <1>13

\* The last job of a run sets the row of the first, if a redelivery has cancelled it.
RootEnded(k) == status[k] = "CANCELLED" /\ pc[k] = "idle" /\ status'[k] = "SUCCEEDED"

\* The rows and messages of all runs stay in step with a job that commits its chapter, with
\* the row of its successor or as the last.
LEMMA ChunksRows ==
  ASSUME Core, NEW j \in Jobs, pc[j] = "decide", NEW r \in Runs, r = Run(j),
         InsertChunks(j), UNCHANGED <<runVars, owner>>,
         status'[j] = "SUCCEEDED", pc'[j] \in {"idle", "enqueue"}, msg'[j] # "none",
         msg'[j] \in {"none", "wait", "active"} => tries'[j] < MaxAttempts,
         \A k \in Jobs \ {j} : pc'[k] = pc[k] /\ msg'[k] = msg[k] /\ tries'[k] = tries[k],
         pc'[j] = "enqueue" => Remaining(j) # <<>>,
         \A k \in Jobs \ {j} :
           \/ status'[k] = IF pc'[j] = "enqueue" /\ k = Successor(j) THEN "CREATED" ELSE status[k]
           \/ pc'[j] # "enqueue" /\ RootEnded(k)
  PROVE  ChainInStep' /\ MessagesInStep'
<1>1. PICK v : v = script[r]
  OBVIOUS
<1>2. /\ Generates(j) /\ status[j] = "RUNNING" /\ msg[j] = "active" /\ rPc[r] = "done"
      /\ plan[r] \in Plans /\ Len(plan[r]) \in Nat
      /\ Count(r) \in Nat /\ Place(j) = Count(r) + 1 /\ Place(j) <= Len(plan[r])
      /\ Chapter(j) = plan[r][Place(j)]
      /\ Remaining(j) = <<>> <=> Place(j) = Len(plan[r])
  BY <1>1, Deciding
<1>3. \A q \in Runs : Count(q)' = IF q = r THEN Count(q) + 1 ELSE Count(q)
  BY <1>1, InsertsOne
<1>4. plan' = plan /\ rPc' = rPc /\ script' = script /\ next' = next
  BY DEF runVars
<1>5. ASSUME NEW k \in Jobs
      PROVE  Place(k)' = Place(k) /\ Successor(k)' = Successor(k) /\ (IsRoot(k)' <=> IsRoot(k))
  BY <1>4, PlacesKept
<1>6. \A k \in Jobs : pc[k] # "idle" <=> msg[k] = "active"
  BY DEF Core, RowsTyped, ChainTypeOK
\* The successor's row is a new one.
<1>7. ASSUME pc'[j] = "enqueue"
      PROVE  /\ Successor(j) \in Jobs \ {j} /\ Run(Successor(j)) = r /\ Place(j) < Len(plan[r])
             /\ Place(Successor(j)) = Count(r) + 2 /\ Place(j) + 1 \in DOMAIN plan[r]
             /\ Chapter(Successor(j)) = plan[r][Place(j) + 1]
             /\ status[Successor(j)] = "ABSENT" /\ msg[Successor(j)] = "none"
             /\ pc[Successor(j)] = "idle" /\ status'[Successor(j)] = "CREATED"
  <2>1. Place(j) < Len(plan[r])
    BY <1>2, <1>7
  <2>2. /\ Successor(j) \in Jobs \ {j} /\ Run(Successor(j)) = r /\ Generates(Successor(j))
        /\ Place(Successor(j)) = Place(j) + 1
        /\ Chapter(Successor(j)) = plan[r][Place(j) + 1]
    BY <1>2, <2>1, SuccessorFacts
  <2>3. Place(Successor(j)) = Count(r) + 2 /\ Place(j) + 1 \in DOMAIN plan[r]
    BY <1>2, <2>1, <2>2, PlanParts
  <2>4. status[Successor(j)] = "ABSENT"
    <3> SUFFICES ASSUME status[Successor(j)] # "ABSENT" PROVE FALSE
      OBVIOUS
    <3>1. Place(Successor(j)) <= Count(r) + 1
      BY <2>2, RowFacts DEF RowInStep
    <3> QED
      BY <1>2, <2>3, <3>1
  <2>5. msg[Successor(j)] = "none" /\ pc[Successor(j)] = "idle"
    BY <1>6, <2>2, <2>4 DEF Core, MessagesInStep, MessageInStep
  <2> QED
    BY <1>7, <2>1, <2>2, <2>3, <2>4, <2>5
<1>8. ASSUME NEW k \in Jobs, Generates(k), status'[k] # "ABSENT" PROVE RowInStep(k)'
  <2>1. CASE pc'[j] = "enqueue" /\ k = Successor(j)
    <3>1. /\ Run(k) = r /\ Place(k)' = Count(r) + 2 /\ Count(r)' = Count(r) + 1
          /\ \E i \in DOMAIN plan'[r] : plan'[r][i] = Chapter(k)
      BY <1>3, <1>4, <1>5, <1>7, <2>1
    <3>2. Place(k)' <= Count(r)' + 1 /\ ~(Place(k)' <= Count(r)')
      BY <1>2, <3>1
    <3> QED
      BY <1>2, <1>4, <3>1, <3>2 DEF RowInStep, Done
  <2>2. CASE ~(pc'[j] = "enqueue" /\ k = Successor(j))
    <3>1. /\ RowInStep(k) /\ Run(k) \in Runs /\ Place(k) \in Nat /\ plan[Run(k)][Place(k)] = Chapter(k)
          /\ Count(Run(k)) \in Nat
      BY <1>2, <1>8, <2>2, RowFacts, CountIs DEF RootEnded
    <3>2. Place(k)' <= Count(Run(k))' + 1
      BY <1>3, <1>5, <3>1 DEF RowInStep
    <3>3. ASSUME Done(k)'
          PROVE  /\ status'[k] \in {"SUCCEEDED", "CANCELLED"}
                 /\ pc'[k] # "idle" => status'[k] = "SUCCEEDED"
      <4>1. CASE k = j
        BY <4>1
      <4>2. CASE k # j
        <5>1. Place(k) <= Count(Run(k)) \/ (Run(k) = r /\ Place(k) = Count(r) + 1)
          BY <1>3, <1>5, <3>1, <3>3 DEF Done
        <5>2. ~(Run(k) = r /\ Place(k) = Count(r) + 1)
          BY <1>2, <3>1, <4>2, JobParts
        <5>3. Done(k)
          BY <5>1, <5>2 DEF Done
        <5> QED
          BY <2>2, <3>1, <4>2, <5>3 DEF RowInStep, RootEnded
      <4> QED
        BY <4>1, <4>2
    <3> QED
      BY <1>4, <3>1, <3>2, <3>3 DEF RowInStep
  <2> QED
    BY <2>1, <2>2
<1>9. ASSUME NEW k \in Jobs PROVE MessageInStep(k)'
  <2>1. MessageInStep(k)
    BY DEF Core, MessagesInStep
  <2>2. CASE k = j
    <3>1. pc'[j] = "enqueue" => /\ status'[j] = "SUCCEEDED" /\ Place(j) < Len(plan[r])
                                /\ msg'[Successor(j)] = "none" /\ status'[Successor(j)] # "ABSENT"
      BY <1>7
    <3> QED
      BY <1>2, <1>4, <1>5, <2>2, <3>1 DEF MessageInStep
  <2>3. CASE pc'[j] = "enqueue" /\ k = Successor(j)
    <3>1. k # j /\ msg'[k] = "none" /\ pc'[k] = "idle" /\ tries'[k] < MaxAttempts
      BY <1>7, <2>1, <2>3 DEF MessageInStep
    <3> QED
      BY <3>1 DEF MessageInStep
  <2>4. CASE k # j /\ ~(pc'[j] = "enqueue" /\ k = Successor(j))
    <3>1. /\ status'[k] = status[k] \/ RootEnded(k)
          /\ pc'[k] = pc[k] /\ msg'[k] = msg[k] /\ tries'[k] = tries[k]
      BY <2>4
    <3>2. ASSUME pc[k] = "enqueue"
          PROVE  msg'[Successor(k)] = "none" /\ status'[Successor(k)] # "ABSENT"
      <4>1. /\ status[k] # "ABSENT" /\ Generates(k) /\ Place(k) < Len(plan[Run(k)])
            /\ status[Successor(k)] # "ABSENT" /\ msg[Successor(k)] = "none"
        BY <2>1, <3>2 DEF MessageInStep
      <4>2. Successor(k) \in Jobs \ {j}
        BY <1>2, <4>1, SuccessorFacts
      <4>3. msg'[Successor(k)] = msg[Successor(k)] /\ status'[Successor(k)] \in {"CREATED", "SUCCEEDED", status[Successor(k)]}
        BY <4>2 DEF RootEnded
      <4> QED
        BY <4>1, <4>3
    <3> QED
      BY <1>4, <1>5, <2>1, <3>1, <3>2 DEF MessageInStep, Over, RootEnded
  <2> QED
    BY <2>2, <2>3, <2>4
<1> QED
  BY <1>8, <1>9 DEF ChainInStep, MessagesInStep, Generates, Run

\* A chapter that is not the last, with the row of the next one.
LEMMA ContinuePreserves == ASSUME Core, NEW j \in Jobs, Continue(j) PROVE Core'
<1>1. /\ Generates(j) /\ pc[j] = "decide" /\ Remaining(j) # <<>> /\ InsertChunks(j)
      /\ status' = [[status EXCEPT ![Successor(j)] = "CREATED"] EXCEPT ![j] = "SUCCEEDED"]
      /\ pc' = [pc EXCEPT ![j] = "enqueue"]
      /\ UNCHANGED <<cancel, msg, tries, troubles, runVars, owner, current, book>>
  BY DEF Continue, MarkJobSucceeded, CreateChildJob, Goto, bounds
<1>2. PICK r \in Runs : r = Run(j)
  BY <1>1, JobParts
<1>3. PICK v : v = script[r]
  OBVIOUS
<1>4. /\ status[j] # "ABSENT" /\ msg[j] = "active" /\ tries[j] < MaxAttempts
      /\ Place(j) <= Len(plan[r]) /\ Place(j) \in Nat /\ Len(plan[r]) \in Nat
      /\ Place(j) # Len(plan[r])
  BY <1>1, <1>2, <1>3, Deciding
<1>5. Successor(j) \in Jobs
  BY <1>1, <1>2, <1>4, SuccessorFacts
<1>6. /\ status \in [Jobs -> Statuses] /\ pc \in [Jobs -> Steps]
      /\ \A k \in Jobs : pc[k] # "idle" <=> msg[k] = "active"
  BY DEF Core, RowsTyped, ChainTypeOK
<1>7. /\ pc' \in [Jobs -> Steps] /\ pc'[j] = "enqueue" /\ \A k \in Jobs \ {j} : pc'[k] = pc[k]
  BY <1>1, <1>6 DEF Steps
<1>8. /\ status' \in [Jobs -> Statuses] /\ status'[j] = "SUCCEEDED"
      /\ \A k \in Jobs \ {j} : status'[k] = IF k = Successor(j) THEN "CREATED" ELSE status[k]
  BY <1>1, <1>5, <1>6 DEF Statuses, Active
<1>9. ChainInStep' /\ MessagesInStep'
  BY <1>1, <1>2, <1>4, <1>7, <1>8, ChunksRows
<1>10. /\ content' \in [Versions -> Seq(Chapters)]
       /\ RunsPlanned' /\ ScriptsNumbered' /\ ScriptsFilled' /\ Opened' = Opened
  BY <1>1, <1>2, <1>3, InsertsOne
<1>11. \A a \in Attempts : Used(a) => Used(a)'
  BY <1>1, <1>7, AttemptsKept DEF runVars
<1>12. ScriptsCounted'
  BY <1>10, <1>11, CountedKept DEF Core
<1>13. \A k \in Jobs : pc'[k] # "idle" <=> msg'[k] = "active"
  BY <1>1, <1>4, <1>6, <1>7
<1>14. ChainTypeOK'
  BY <1>1, <1>8, <1>13 DEF Core, RowsTyped, ChainTypeOK
<1>15. RowsTyped'
  BY <1>1, <1>7, <1>10, <1>14 DEF Core, RowsTyped, runVars
<1> QED
  BY <1>9, <1>10, <1>12, <1>15 DEF Core

\* The last chapter, with the script made the book's.
LEMMA FinalizePreserves == ASSUME Core, NEW j \in Jobs, FinalizeRun(j) PROVE Core'
<1>1. PICK r \in Runs : r = Run(j)
  BY JobParts DEF FinalizeRun
<1>2. PICK v : v = script[r]
  OBVIOUS
<1>3. /\ Generates(j) /\ pc[j] = "decide" /\ InsertChunks(j)
      /\ status' = FinalizeRootJob([status EXCEPT ![j] = "SUCCEEDED"], Root(r)) /\ Finish(j, "completed")
      /\ current' = v /\ book' = "SCRIPTED"
      /\ UNCHANGED <<cancel, troubles, runVars, owner>>
  BY <1>1, <1>2 DEF FinalizeRun, FinalizeAudioScript, MarkJobSucceeded, bounds
<1>4. /\ status[j] # "ABSENT" /\ v \in Opened
      /\ plan[r] \in Plans /\ Count(r) \in Nat /\ Place(j) = Count(r) + 1 /\ Chapter(j) = plan[r][Place(j)]
  BY <1>1, <1>2, <1>3, Deciding, CountIs
<1>5. status \in [Jobs -> Statuses]
  BY DEF Core, RowsTyped, ChainTypeOK
<1>6. /\ status' \in [Jobs -> Statuses] /\ status'[j] = "SUCCEEDED"
      /\ \A k \in Jobs \ {j} : status'[k] = status[k] \/ RootEnded(k)
  <2> DEFINE root == Root(r)
             rows == [status EXCEPT ![j] = "SUCCEEDED"]
  <2>1. /\ root \in Jobs /\ Run(root) = r /\ Chapter(root) = plan[r][1] /\ Generates(root)
        /\ Place(root) = 1
    BY <1>1, <1>4, RootIs
  <2>2. /\ rows \in [Jobs -> Statuses] /\ rows[j] = "SUCCEEDED"
        /\ \A k \in Jobs \ {j} : rows[k] = status[k]
    BY <1>5 DEF Statuses
  <2>3. status' = FinalizeRootJob(rows, root)
    BY <1>3
  <2> HIDE DEF root, rows
  <2>4. root = j \/ 1 <= Count(r)
    <3>1. Count(r) = 0 => Chapter(root) = Chapter(j)
      BY <1>4, <2>1
    <3>2. Chapter(root) = Chapter(j) => root = j
      BY <1>1, <2>1, JobParts
    <3> QED
      BY <1>4, <3>1, <3>2
  <2>5. root # j /\ status[root] # "ABSENT" =>
          status[root] = "SUCCEEDED" \/ (status[root] = "CANCELLED" /\ pc[root] = "idle")
    BY <2>1, <2>4, RowFacts DEF RowInStep, Done
  <2>6. status' = [rows EXCEPT ![root] =
                     IF rows[root] \in {"ABSENT", "SUCCEEDED", "FAILED"} THEN rows[root] ELSE "SUCCEEDED"]
    BY <2>3 DEF FinalizeRootJob
  <2>7. ASSUME NEW k \in Jobs \ {j} PROVE status'[k] = status[k] \/ RootEnded(k)
    BY <2>1, <2>2, <2>5, <2>6 DEF RootEnded
  <2>8. status' \in [Jobs -> Statuses] /\ status'[j] = "SUCCEEDED"
    BY <2>1, <2>2, <2>6 DEF Statuses
  <2> QED
    BY <2>7, <2>8
<1>7. /\ msg' \in [Jobs -> {"none", "wait", "active", "completed", "failed", "removed"}]
      /\ tries' \in [Jobs -> 0..MaxAttempts] /\ pc' \in [Jobs -> Steps]
      /\ \A k \in Jobs : pc'[k] # "idle" <=> msg'[k] = "active"
      /\ \A k \in Jobs \ {j} : pc'[k] = pc[k] /\ msg'[k] = msg[k] /\ tries'[k] = tries[k]
      /\ pc'[j] = "idle" /\ tries'[j] = tries[j] + 1
      /\ msg'[j] \in {"none", "wait", "active"} => tries'[j] < MaxAttempts
  BY <1>3, FinishTyped
<1>8. msg'[j] # "none"
  <2>1. msg' = [msg EXCEPT ![j] = "completed"] /\ msg \in [Jobs -> {"none", "wait", "active", "completed", "failed", "removed"}]
    BY <1>3 DEF Finish, Core, RowsTyped, ChainTypeOK
  <2> QED
    BY <2>1
<1>9. ChainInStep' /\ MessagesInStep'
  BY <1>1, <1>3, <1>6, <1>7, <1>8, ChunksRows
<1>10. /\ content' \in [Versions -> Seq(Chapters)]
       /\ RunsPlanned' /\ ScriptsNumbered' /\ ScriptsFilled' /\ Opened' = Opened
  BY <1>1, <1>2, <1>3, InsertsOne
<1>11. \A a \in Attempts : Used(a) => Used(a)'
  BY <1>3, <1>7, AttemptsKept DEF runVars
<1>12. ScriptsCounted'
  BY <1>10, <1>11, CountedKept DEF Core
<1>13. ChainTypeOK'
  BY <1>3, <1>6, <1>7 DEF Core, RowsTyped, ChainTypeOK
<1>14. RowsTyped'
  BY <1>3, <1>4, <1>7, <1>10, <1>13 DEF Core, RowsTyped, runVars
<1> QED
  BY <1>9, <1>10, <1>12, <1>14 DEF Core

-----------------------------------------------------------------------------
(* The inductive invariant *)

\* Init is in step: nothing was requested.
LEMMA InitSatisfies == Init => IInv
<1> SUFFICES ASSUME Init PROVE IInv
  OBVIOUS
<1>1. Opened = {}
  BY DEF Init, Opened
<1>2. ChainTypeOK /\ pc \in [Jobs -> Steps] /\ troubles \in 0..MaxTroubles
  BY ChainAssumption DEF Init, ChainInit, ChainTypeOK, Statuses, Steps
<1>3. /\ content \in [Versions -> Seq(Chapters)] /\ owner \in [Versions -> Runs \cup {0}]
      /\ script \in [Runs -> Versions \cup {0}] /\ next \in [Runs -> Versions \cup {0}]
      /\ plan \in [Runs -> Plans \cup {<<>>}]
  BY EmptySeq DEF Init
<1>4. RowsTyped
  BY <1>2, <1>3 DEF Init, RowsTyped
<1>5. ChainInStep /\ RunsPlanned
  BY DEF Init, ChainInit, ChainInStep, RunsPlanned
<1>6. MessagesInStep
  <2> SUFFICES ASSUME NEW j \in Jobs PROVE MessageInStep(j)
    BY DEF MessagesInStep
  <2>1. msg[j] = "none" /\ pc[j] = "idle" /\ tries[j] = 0
    BY DEF Init, ChainInit
  <2> QED
    BY <2>1, ChainAssumption DEF MessageInStep
<1>7. ScriptsNumbered /\ ScriptsFilled
  BY <1>1 DEF Init, ScriptsNumbered, ScriptsFilled
<1>8. ScriptsCounted
  <2>1. [v \in Opened |-> 0] \in [Opened -> Attempts]
    BY <1>1
  <2> QED
    BY <1>1, <2>1 DEF ScriptsCounted
<1>9. ChunksTyped
  BY DirectionAssumption DEF Init, ChunksTyped
<1> QED
  BY <1>4, <1>5, <1>6, <1>7, <1>8, <1>9 DEF IInv, Core

\* A step that leaves rows, runs and scripts alone keeps the invariant of them.
LEMMA UnchangedPreserves ==
  ASSUME Core, UNCHANGED <<chainVars, runVars, scriptVars>>
  PROVE  Core'
<1>1. /\ UNCHANGED <<status, cancel, msg, tries, pc, troubles, runVars, scriptVars>>
      /\ UNCHANGED <<rPc, plan, script, next, content>>
  BY DEF chainVars, rowVars, messageVars, bounds, runVars, scriptVars
<1>2. /\ RunsPlanned' /\ ScriptsNumbered' /\ ScriptsFilled' /\ Opened' = Opened
      /\ current' \in Opened' \cup {0}
  BY <1>1, RestKept
<1>3. ASSUME NEW k \in Jobs
      PROVE  /\ Place(k)' = Place(k) /\ Successor(k)' = Successor(k) /\ (IsRoot(k)' <=> IsRoot(k))
             /\ Count(Run(k))' = Count(Run(k)) /\ (Done(k)' <=> Done(k))
  <2>1. Place(k)' = Place(k) /\ Successor(k)' = Successor(k) /\ (IsRoot(k)' <=> IsRoot(k))
    BY <1>1, PlacesKept
  <2> QED
    BY <1>1, <2>1 DEF Count, Done
<1>4. ASSUME NEW k \in Jobs, Generates(k), status'[k] # "ABSENT" PROVE RowInStep(k)'
  BY <1>1, <1>3, <1>4, RowFacts DEF RowInStep
<1>5. ASSUME NEW k \in Jobs PROVE MessageInStep(k)'
  BY <1>1, <1>3 DEF Core, MessagesInStep, MessageInStep, Over
<1>6. ChainInStep' /\ MessagesInStep'
  BY <1>4, <1>5 DEF ChainInStep, MessagesInStep, Generates, Run
<1>7. \A a \in Attempts : Used(a) => Used(a)'
  BY <1>1 DEF Used, Root
<1>8. ScriptsCounted'
  BY <1>2, <1>7, CountedKept DEF Core
<1>9. ChainTypeOK'
  BY <1>1 DEF Core, RowsTyped, ChainTypeOK
<1>10. RowsTyped'
  BY <1>1, <1>2, <1>9 DEF Core, RowsTyped, runVars, scriptVars
<1> QED
  BY <1>2, <1>6, <1>8, <1>10 DEF Core

\* Every step of the API, the worker and the faults keeps rows, messages and scripts in step.
LEMMA CorePreserved == Core /\ [Next]_vars => Core'
<1> SUFFICES ASSUME Core, [Next]_vars PROVE Core'
  OBVIOUS
<1>1. CASE UNCHANGED vars
  BY <1>1, UnchangedPreserves DEF vars
<1>2. ASSUME NEW r \in Runs, (\E p \in Plans : Check(r, p)) \/ Commit(r) PROVE Core'
  BY <1>2, CheckPreserves, CommitPreserves
<1>3. ASSUME NEW j \in Jobs, ReviseDirector(j) \/ Dispatches(j) PROVE Core'
  BY <1>3, ReviseDirectorPreserves, DispatchPreserves
<1>4. ASSUME NEW j \in Jobs, Works(j) PROVE Core'
  <2>1. CASE ReadVersion(j) \/ Load(j) \/ LoadRevision(j)
    BY <2>1, ReadVersionPreserves, LoadPreserves, LoadRevisionPreserves
  <2>2. CASE DraftConflict(j) \/ FinalizeRefused(j) \/ RevisionRefused(j) \/ Revise(j)
    BY <2>2, RefusalPreserves, RevisePreserves
  <2>3. CASE CreateDraftAudioScript(j)
    BY <2>3, CreateDraftPreserves
  <2>4. CASE Continue(j) \/ FinalizeRun(j)
    BY <2>4, ContinuePreserves, FinalizePreserves
  <2>5. CASE Delivers(j) /\ Elsewhere
    BY <2>5, TakePreserves, RefusalPreserves DEF Delivers
  <2>6. CASE Generates(j) /\ Enqueue(j, Successor(j)) /\ Elsewhere
    BY <2>6, EnqueuePreserves
  <2> QED
    BY <1>4, <2>1, <2>2, <2>3, <2>4, <2>5, <2>6 DEF Works
<1>5. ASSUME NEW j \in Jobs, Disturbs(j) PROVE Core'
  <2>1. CASE DecideFails(j) \/ RevisionFails(j)
    BY <2>1, DecideFailsPreserves, RefusalPreserves
  <2>2. CASE Faults(j) /\ Elsewhere
    BY <2>2, RefusalPreserves, DiePreserves, CancelPreserves DEF Faults
  <2> QED
    BY <1>5, <2>1, <2>2 DEF Disturbs
<1>6. ASSUME NEW c \in Revised, Lock(c) \/ ReadForEdit(c) \/ UpdateAudioScriptChunk(c) PROVE Core'
  BY <1>6, UnchangedPreserves DEF Lock, ReadForEdit, UpdateAudioScriptChunk
<1> QED
  BY <1>1, <1>2, <1>3, <1>4, <1>5, <1>6 DEF Next

\* A revision is of a chapter that is looked at, and only a revision is at its second
\* transaction.
LEMMA Revising ==
  ASSUME Core, NEW j \in Jobs, pc[j] = "revise" \/ ~Generates(j)
  PROVE  Chapter(j) \in Revised /\ j = <<0, Chapter(j)>>
  BY JobParts DEF Core, MessagesInStep, MessageInStep

\* Every step keeps the types of the chunks.
LEMMA ChunksPreserved == IInv /\ [Next]_vars => ChunksTyped'
<1> SUFFICES ASSUME Core, ChunksTyped, [Next]_vars PROVE ChunksTyped'
  BY DEF IInv
<1> DEFINE States == {"none", "OPEN", "LOCKED"}
<1>1. /\ chunkState \in [Revised -> States] /\ decided \in [Revised -> Nat]
      /\ seen \in [Revised -> States] /\ ePc \in Revised \cup {"idle"} /\ edits \in 0..MaxEdits
  BY DEF ChunksTyped
<1>2. CASE UNCHANGED chunkVars
  BY <1>2 DEF ChunksTyped, chunkVars
<1>3. ASSUME NEW c \in Revised, Lock(c) \/ ReadForEdit(c) \/ UpdateAudioScriptChunk(c)
      PROVE  ChunksTyped'
  <2>1. CASE Lock(c)
    BY <1>1, <2>1 DEF Lock, ChunksTyped
  <2>2. CASE ReadForEdit(c)
    <3>1. edits' \in 0..MaxEdits
      BY <1>1, <2>2, DirectionAssumption DEF ReadForEdit
    <3> QED
      BY <1>1, <2>2, <3>1 DEF ReadForEdit, ChunksTyped
  <2>3. CASE UpdateAudioScriptChunk(c)
    BY <1>1, <2>3 DEF UpdateAudioScriptChunk, UpdateInPlace, ChunksTyped
  <2> QED
    BY <1>3, <2>1, <2>2, <2>3
<1>4. ASSUME NEW j \in Jobs, LoadRevision(j) PROVE ChunksTyped'
  BY <1>1, <1>4, Revising DEF LoadRevision, ChunksTyped
<1>5. ASSUME NEW j \in Jobs, Revise(j) PROVE ChunksTyped'
  BY <1>1, <1>5, Revising DEF Revise, UpdateInPlace, ChunksTyped
<1>6. ASSUME NEW j \in Jobs, FinalizeRun(j) PROVE ChunksTyped'
  <2>1. chunkState' \in [Revised -> States] /\ UNCHANGED <<decided, seen, ePc, edits>>
    BY <1>6 DEF FinalizeRun, FinalizeAudioScript
  <2> QED
    BY <1>1, <2>1 DEF ChunksTyped
<1>7. ASSUME NEW r \in Runs, (\E p \in Plans : Check(r, p)) \/ Commit(r) PROVE UNCHANGED chunkVars
  BY <1>7 DEF Check, Commit
<1>8. ASSUME NEW j \in Jobs, ReviseDirector(j) \/ Dispatches(j) \/ Disturbs(j)
      PROVE  UNCHANGED chunkVars
  BY <1>8 DEF ReviseDirector, Dispatches, Disturbs, DecideFails, RevisionFails, Elsewhere
<1>9. ASSUME NEW j \in Jobs, Works(j) PROVE ChunksTyped'
  <2>1. CASE UNCHANGED chunkVars
    BY <1>2, <2>1
  <2>2. \/ LoadRevision(j) \/ Revise(j) \/ FinalizeRun(j) \/ UNCHANGED chunkVars
    BY <1>9 DEF Works, ReadVersion, CreateDraftAudioScript, DraftConflict, Load, Continue,
       FinalizeRefused, RevisionRefused, Elsewhere
  <2> QED
    BY <1>4, <1>5, <1>6, <2>1, <2>2
<1>10. CASE UNCHANGED vars
  BY <1>2, <1>10 DEF vars
<1> QED
  BY <1>2, <1>3, <1>7, <1>8, <1>9, <1>10 DEF Next

\* The inductive invariant holds of every behaviour of the directions: rows, messages and
\* scripts keep in step however handlers are redelivered, die, fail or are cancelled.
THEOREM Invariance == Spec => []IInv
<1>1. IInv /\ [Next]_vars => IInv'
  BY CorePreserved, ChunksPreserved DEF IInv
<1> QED
  BY <1>1, InitSatisfies, PTL DEF Spec

\* Every variable keeps its type; in particular the version number that a job reads is one of
\* the numbers there are, for as many attempts, troubles and runs as there may be.
THEOREM TypeCorrect == Spec => []TypeOK
<1>1. IInv => TypeOK
  BY DEF IInv, Core, TypeOK
<1> QED
  BY <1>1, Invariance, PTL

\* A chunk that begin_tts_job has frozen is decided anew only by a revision or an edit that
\* read it before: of all the steps of all jobs and users, these two write decisions.
THEOREM ClaimedChunksAreFrozen == Spec => FrozenOnceSeen
<1> DEFINE Frozen == \A c \in Revised :
              chunkState[c] = "LOCKED" /\ decided'[c] # decided[c]
                => \/ ePc = c
                   \/ pc[<<0, c>>] = "revise" /\ seen[c] = "OPEN"
<1>1. ASSUME IInv, Next PROVE Frozen
  <2>1. CASE decided' = decided
    BY <2>1
  <2>2. ASSUME NEW b \in Revised, UpdateAudioScriptChunk(b) PROVE Frozen
    <3>1. decided \in [Revised -> Nat] /\ decided' = [decided EXCEPT ![b] = @ + 1] /\ ePc = b
      BY <1>1, <2>2 DEF IInv, ChunksTyped, UpdateAudioScriptChunk, UpdateInPlace
    <3> QED
      BY <3>1
  <2>3. ASSUME NEW j \in Jobs, Revise(j) PROVE Frozen
    <3>1. /\ decided \in [Revised -> Nat] /\ decided' = [decided EXCEPT ![Chapter(j)] = @ + 1]
          /\ pc[j] = "revise" /\ seen[Chapter(j)] = "OPEN"
      BY <1>1, <2>3 DEF IInv, ChunksTyped, Revise, UpdateInPlace
    <3>2. Chapter(j) \in Revised /\ j = <<0, Chapter(j)>>
      BY <1>1, <3>1, Revising DEF IInv
    <3> QED
      BY <3>1, <3>2
  <2>4. ASSUME NEW j \in Jobs, Works(j), ~Revise(j) PROVE decided' = decided
    BY <2>4 DEF Works, ReadVersion, CreateDraftAudioScript, DraftConflict, Load, Continue,
       FinalizeRun, FinalizeRefused, LoadRevision, RevisionRefused, Elsewhere, chunkVars
  <2>5. ASSUME NEW j \in Jobs, ReviseDirector(j) \/ Dispatches(j) \/ Disturbs(j)
        PROVE  decided' = decided
    BY <2>5 DEF ReviseDirector, Dispatches, Disturbs, DecideFails, RevisionFails, Elsewhere, chunkVars
  <2>6. ASSUME NEW r \in Runs, (\E p \in Plans : Check(r, p)) \/ Commit(r) PROVE decided' = decided
    BY <2>6 DEF Check, Commit, chunkVars
  <2>7. ASSUME NEW c \in Revised, Lock(c) \/ ReadForEdit(c) PROVE decided' = decided
    BY <2>7 DEF Lock, ReadForEdit
  <2> HIDE DEF Frozen
  <2> QED
    BY <1>1, <2>1, <2>2, <2>3, <2>4, <2>5, <2>6, <2>7 DEF Next
<1>2. IInv /\ [Next]_vars => [Frozen]_vars
  BY <1>1
<1> HIDE DEF Frozen
<1> QED
  BY <1>2, Invariance, PTL DEF Spec, FrozenOnceSeen, Frozen

-----------------------------------------------------------------------------
(* The scripts implement the numbered versions *)

\* A step that leaves the scripts alone, and the plans of the runs that have some, leaves the
\* plans of the scripts.
LEMMA PlansKept ==
  ASSUME Core, owner' = owner, \A v \in Opened : plan'[owner[v]] = plan[owner[v]]
  PROVE  /\ Opened' = Opened
         /\ [v \in Versions |-> PlanOf(v)]' = [v \in Versions |-> PlanOf(v)]
<1>1. Opened' = Opened
  BY DEF Opened
<1>2. ASSUME NEW v \in Versions PROVE PlanOf(v)' = PlanOf(v)
  <2>1. owner[v] # 0 => plan'[owner[v]] = plan[owner[v]]
    BY DEF Opened
  <2> QED
    BY <2>1 DEF PlanOf
<1> QED
  BY <1>1, <1>2

\* The other steps are invisible to readers of the script.
LEMMA Invisible ==
  ASSUME Core, \A v \in Opened : plan'[owner[v]] = plan[owner[v]],
         UNCHANGED <<owner, content, current>>
  PROVE  UNCHANGED Script!vars
  BY PlansKept DEF Script!vars

\* The draft of an attempt opens a version, with the number after the newest.
LEMMA DraftImplements ==
  ASSUME Core, NEW j \in Jobs, CreateDraftAudioScript(j)
  PROVE  Script!Next
<1>1. PICK r, v : r = Run(j) /\ v = next[r]
  OBVIOUS
<1>2. /\ pc[j] = "draft" /\ v \notin Opened /\ owner' = [owner EXCEPT ![v] = r]
      /\ UNCHANGED <<plan, content, current>>
  BY <1>1 DEF CreateDraftAudioScript
<1>3. /\ r \in Runs /\ plan[r] \in Plans /\ v \in Versions /\ v \in Nat /\ v # 0 /\ r # 0
      /\ owner[v] = 0
      /\ \A u \in 1..(v - 1) : u \in Opened
      /\ \A u \in Opened : u < v
  BY <1>1, <1>2, Drafting, JobParts
<1>4. owner \in [Versions -> Runs \cup {0}]
  BY DEF Core, RowsTyped
<1>5. owner'[v] = r /\ \A w \in Versions \ {v} : owner'[w] = owner[w]
  BY <1>2, <1>3, <1>4
<1>6. Opened' = Opened \cup {v}
  BY <1>3, <1>5 DEF Opened
<1>7. v = 1 \/ v - 1 \in Opened
  BY <1>3
<1>8. ASSUME NEW w \in Versions PROVE PlanOf(w)' = IF w = v THEN plan[r] ELSE PlanOf(w)
  BY <1>2, <1>3, <1>5 DEF PlanOf
<1>9. [w \in Versions |-> PlanOf(w)]' = [[w \in Versions |-> PlanOf(w)] EXCEPT ![v] = plan[r]]
  BY <1>8
<1>10. Script!Open(v, plan[r])
  BY <1>2, <1>3, <1>6, <1>7, <1>9 DEF Script!Open
<1> QED
  BY <1>3, <1>10 DEF Script!Next

\* A job's chunks are of the chapter that is next in the plan, and the last ones publish the
\* script.
LEMMA ChunksImplement ==
  ASSUME Core, NEW j \in Jobs, Continue(j) \/ FinalizeRun(j)
  PROVE  Script!Next
<1>1. PICK r \in Runs : r = Run(j)
  BY JobParts DEF Continue, FinalizeRun
<1>2. PICK v : v = script[r]
  OBVIOUS
<1>3. pc[j] = "decide" /\ InsertChunks(j) /\ UNCHANGED <<runVars, owner>>
  BY DEF Continue, FinalizeRun
<1>4. /\ v \in Versions /\ v \in Opened /\ owner[v] = r /\ r # 0 /\ plan[r] \in Plans
      /\ Len(content[v]) \in Nat /\ Len(plan[r]) \in Nat
      /\ Place(j) = Len(content[v]) + 1 /\ Place(j) <= Len(plan[r])
      /\ Remaining(j) = <<>> <=> Place(j) = Len(plan[r])
  BY <1>1, <1>2, <1>3, Deciding, JobParts
<1>5. /\ content' \in [Versions -> Seq(Chapters)]
      /\ content' = [content EXCEPT ![v] = Append(content[v], plan[r][Len(content[v]) + 1])]
      /\ Len(content'[v]) = Len(content[v]) + 1
      /\ \A i \in 1..Len(content'[v]) : content'[v][i] = plan[r][i]
  BY <1>1, <1>2, <1>3, InsertsOne
<1> DEFINE P == [w \in Versions |-> PlanOf(w)]
<1>6. P' = P /\ Opened' = Opened
  BY <1>3, PlansKept DEF runVars
<1>7. P[v] = plan[r]
  BY <1>4 DEF PlanOf
<1> HIDE DEF P
<1>8. Script!AddUnit(v)
  <2>1. v \in Opened /\ Len(content[v]) < Len(P[v])
    BY <1>4, <1>7
  <2>2. content' = [content EXCEPT ![v] = Append(@, P[v][Len(@) + 1])]
    BY <1>5, <1>7
  <2> QED
    BY <2>1, <2>2 DEF Script!AddUnit, P
<1>9. content'[v] = P[v] <=> Place(j) = Len(plan[r])
  <2>1. content'[v] \in Seq(Chapters) /\ plan[r] \in Seq(Chapters)
    BY <1>4, <1>5, PlanParts
  <2>2. Len(content'[v]) = Len(plan[r]) => content'[v] = plan[r]
    BY <1>5, <2>1, SeqEqual
  <2> QED
    BY <1>4, <1>5, <1>7, <2>2
<1>10. CASE Continue(j)
  <2>1. current' = current /\ content'[v] # P[v]
    BY <1>4, <1>9, <1>10 DEF Continue
  <2>2. Script!Extend(v)
    BY <1>6, <1>8, <2>1 DEF Script!Extend, P
  <2> QED
    BY <1>4, <2>2 DEF Script!Next
<1>11. CASE FinalizeRun(j)
  <2>1. current' = v
    BY <1>1, <1>2, <1>11 DEF FinalizeRun, FinalizeAudioScript
  <2>2. content'[v] = P[v]
    BY <1>4, <1>9, <1>11 DEF FinalizeRun
  <2>3. Script!Publish(v)
    BY <1>6, <1>8, <2>1, <2>2 DEF Script!Publish, P
  <2> QED
    BY <1>4, <2>3 DEF Script!Next
<1> QED
  BY <1>10, <1>11

\* Every step is a step of the numbered versions, or invisible to their readers.
LEMMA NextImplements == IInv /\ [Next]_vars => [Script!Next]_Script!vars
<1> SUFFICES ASSUME Core, [Next]_vars PROVE [Script!Next]_Script!vars
  BY DEF IInv
<1>1. CASE UNCHANGED <<runVars, scriptVars>>
  BY <1>1, Invisible DEF runVars, scriptVars
<1>2. ASSUME NEW r \in Runs, NEW p \in Plans, Check(r, p) PROVE UNCHANGED Script!vars
  <2>1. \A v \in Opened : owner[v] \in Runs \ {r}
    BY <1>2, NothingYet DEF Check, Core, RowsTyped, Opened
  <2>2. /\ plan' = [plan EXCEPT ![r] = p] /\ plan \in [Runs -> Plans \cup {<<>>}]
        /\ UNCHANGED <<owner, content, current>>
    BY <1>2 DEF Check, Core, RowsTyped, scriptVars
  <2>3. \A v \in Opened : plan'[owner[v]] = plan[owner[v]]
    BY <2>1, <2>2
  <2> QED
    BY <2>2, <2>3, Invisible
<1>3. ASSUME NEW r \in Runs, Commit(r) PROVE UNCHANGED Script!vars
  BY <1>3, Invisible DEF Commit
<1>4. ASSUME NEW j \in Jobs, Works(j) PROVE [Script!Next]_Script!vars
  <2>1. CASE ReadVersion(j)
    BY <2>1, Invisible DEF ReadVersion, scriptVars
  <2>2. CASE CreateDraftAudioScript(j)
    BY <2>2, DraftImplements
  <2>3. CASE Continue(j) \/ FinalizeRun(j)
    BY <2>3, ChunksImplement
  <2>4. CASE UNCHANGED <<runVars, scriptVars>>
    BY <1>1, <2>4
  <2> QED
    BY <1>4, <2>1, <2>2, <2>3, <2>4
    DEF Works, DraftConflict, Load, FinalizeRefused, LoadRevision, Revise, RevisionRefused, Elsewhere
<1>5. ASSUME NEW j \in Jobs, ReviseDirector(j) \/ Dispatches(j) \/ Disturbs(j)
      PROVE  UNCHANGED <<runVars, scriptVars>>
  BY <1>5 DEF ReviseDirector, Dispatches, Disturbs, DecideFails, RevisionFails, Elsewhere
<1>6. ASSUME NEW c \in Revised, Lock(c) \/ ReadForEdit(c) \/ UpdateAudioScriptChunk(c)
      PROVE  UNCHANGED <<runVars, scriptVars>>
  BY <1>6 DEF Lock, ReadForEdit, UpdateAudioScriptChunk
<1>7. CASE UNCHANGED vars
  BY <1>1, <1>7 DEF vars
<1> QED
  BY <1>1, <1>2, <1>3, <1>4, <1>5, <1>6, <1>7 DEF Next

\* No script is there at first.
LEMMA InitImplements == Init => Script!Init
<1> SUFFICES ASSUME Init PROVE Script!Init
  OBVIOUS
<1>1. Opened = {} /\ \A v \in Versions : PlanOf(v) = <<>>
  BY DEF Init, Opened, PlanOf
<1> QED
  BY <1>1 DEF Init, Script!Init

\* The chain of generate_director_ir jobs implements the numbered versions: scripts are
\* numbered without gaps though every attempt opens one, each holds a beginning of its run's
\* chapters, once each and in order, however often a job is redelivered, and the book's script
\* is one that holds them all and never changes again.
THEOREM ScriptsImplementVersions == Spec => ScriptsKept
<1> QED
  BY Invariance, InitImplements, NextImplements, PTL DEF Spec, ScriptsKept, Script!Spec

=============================================================================
