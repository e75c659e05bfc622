-------------------------- MODULE EventStreamProofs --------------------------
(***************************************************************************)
(* Proofs about what a user is told.  EventStream: for any number of rows, *)
(* connections and overlapping polls, any batch size, clock skew and       *)
(* resolution of a Date.  The algorithms: for any snapshot of a book and,  *)
(* along InputSpec, for files, chapters, paragraphs, scenes, requests,     *)
(* chunks and books of any size.                                           *)
(***************************************************************************)
EXTENDS EventStream, MCAlgorithms, FiniteSetTheorems, NaturalsInduction, WellFoundedInduction, TLAPS

-----------------------------------------------------------------------------
(* Numbers *)

\* A nonempty set of numbers has a least element.
LEMMA SmallestNumber ==
  ASSUME NEW S \in SUBSET Nat, S # {}
  PROVE  \E m \in S : \A k \in S : m <= k
<1> DEFINE R == {ss \in Nat \X Nat : ss[1] < ss[2]}
<1>1. IsWellFoundedOn(R, Nat)
  BY NatLessThanWellFounded DEF OpToRel
<1> HIDE DEF R
<1>2. PICK m \in S : \A k \in S : ~(<<k, m>> \in R)
  BY <1>1, WFMin, Zenon
<1>3. ASSUME NEW k \in S, k < m PROVE <<k, m>> \in R
  <2>1. <<k, m>> \in Nat \X Nat /\ <<k, m>>[1] = k /\ <<k, m>>[2] = m
    OBVIOUS
  <2> QED
    BY <1>3, <2>1, Zenon DEF R
<1>4. ASSUME NEW k \in S PROVE m <= k
  <2>1. ~(k < m)
    BY <1>2, <1>3, Zenon
  <2>2. k \in Nat /\ m \in Nat
    OBVIOUS
  <2> QED
    BY <2>1, <2>2
<1> QED
  BY <1>4

\* A nonempty set of numbers up to a bound has a greatest element.
LEMMA GreatestNumber ==
  ASSUME NEW n \in Nat, NEW S \in SUBSET (0..n), S # {}
  PROVE  \E m \in S : \A k \in S : k <= m
<1> DEFINE U == {u \in Nat : \A k \in S : k <= u}
<1>1. n \in U
  OBVIOUS
<1>2. PICK u \in U : \A w \in U : u <= w
  BY <1>1, SmallestNumber
<1>3. u \in S
  <2> SUFFICES ASSUME u \notin S PROVE FALSE
    OBVIOUS
  <2>1. \A k \in S : k <= u - 1
    OBVIOUS
  <2>2. PICK k \in S : TRUE
    OBVIOUS
  <2>3. u - 1 \in U
    BY <2>1, <2>2
  <2> QED
    BY <1>2, <2>3
<1> QED
  BY <1>3

\* So has what an enumeration of finite length yields: of the lengths of its beginnings
\* without a bound there would be a least one.
LEMMA EnumerationIsBounded ==
  ASSUME NEW n \in Nat, NEW f \in [1..n -> Nat]
  PROVE  \E b \in Nat : \A h \in 1..n : f[h] <= b
<1> DEFINE T == {i \in 0..n : \A b \in Nat : \E h \in 1..i : ~(f[h] <= b)}
<1>1. T = {}
  <2> SUFFICES ASSUME T # {} PROVE FALSE
    OBVIOUS
  <2>0. T \in SUBSET Nat
    OBVIOUS
  <2>1. PICK m \in T : \A k \in T : m <= k
    BY <2>0, SmallestNumber, Zenon
  <2>2. m \in 1..n /\ m \in Nat
    BY <2>1
  <2>3. m - 1 \in 0..n /\ m - 1 \notin T
    <3>1. m - 1 \in 0..n /\ ~(m <= m - 1)
      BY <2>2
    <3> QED
      BY <2>1, <3>1, Zenon
  <2>4. PICK b \in Nat : \A h \in 1..(m - 1) : f[h] <= b
    BY <2>3
  <2>5. PICK g \in Nat : g = f[m]
    BY <2>2
  <2>6. b + g \in Nat /\ b <= b + g /\ g <= b + g
    OBVIOUS
  <2>7. PICK h \in 1..m : ~(f[h] <= b + g)
    BY <2>1, <2>6
  <2>8. CASE h = m
    BY <2>5, <2>6, <2>7, <2>8
  <2>9. CASE h \in 1..(m - 1)
    <3>1. f[h] <= b /\ h \in 1..n
      BY <2>2, <2>4, <2>9
    <3>2. PICK x \in Nat : x = f[h]
      BY <3>1
    <3>3. x <= b /\ ~(x <= b + g)
      BY <2>7, <3>1, <3>2
    <3> QED
      BY <3>3
  <2> QED
    BY <2>2, <2>7, <2>8, <2>9
<1>2. n \in 0..n
  OBVIOUS
<1> QED
  BY <1>1, <1>2

\* A finite set of numbers has a bound.
LEMMA FiniteIsBounded ==
  ASSUME NEW S \in SUBSET Nat, IsFiniteSet(S)
  PROVE  \E n \in Nat : S \subseteq 0..n
<1>1. Cardinality(S) \in Nat /\ ExistsBijection(1..Cardinality(S), S)
  BY FS_CardinalityType
<1>2. PICK f \in [1..Cardinality(S) -> S] : \A s \in S : \E i \in 1..Cardinality(S) : f[i] = s
  BY <1>1 DEF ExistsBijection, Bijection, Injection, Surjection, IsInjective
<1>3. f \in [1..Cardinality(S) -> Nat]
  BY <1>2
<1>4. PICK b \in Nat : \A h \in 1..Cardinality(S) : f[h] <= b
  BY <1>1, <1>3, EnumerationIsBounded
<1>5. \A s \in S : s \in 0..b
  BY <1>2, <1>4
<1> QED
  BY <1>5

-----------------------------------------------------------------------------
(* Positions *)

\* Rows are named by numbers, and their instants are numbers.
LEMMA RowsAreNumbers ==
  ASSUME createdAt \in [Events -> 0..MaxTime]
  PROVE  \A e \in Events : e \in Nat /\ e # 0 /\ createdAt[e] \in Nat
BY EventsAssumption, NumbersAssumption

\* The fields of a position are numbers.
LEMMA PositionsAreNumbers ==
  ASSUME NEW c \in [at : Nat, id : Events \cup {0}]
  PROVE  c.at \in Nat /\ c.id \in Nat
<1>1. c.at \in Nat /\ (c.id \in Events \/ c.id = 0)
  OBVIOUS
<1>2. CASE c.id = 0
  BY <1>1, <1>2
<1>3. CASE c.id \in Events
  <2>1. \A e \in Events : e \in Nat
    BY EventsAssumption
  <2> QED
    BY <1>1, <1>3, <2>1, Zenon
<1> QED
  BY <1>1, <1>2, <1>3

\* A Date is no later than the instant that it was read from.
LEMMA JsIs ==
  ASSUME NEW t \in Nat
  PROVE  Js(t) \in Nat /\ Js(t) <= t
<1>1. Resolution \in Nat /\ Resolution > 0
  BY NumbersAssumption
<1>2. t % Resolution \in 0..(Resolution - 1) /\ t = (Resolution * (t \div Resolution)) + (t % Resolution)
  BY <1>1
<1>3. t \div Resolution \in Nat
  BY <1>1
<1>4. Resolution * (t \div Resolution) \in Nat
  BY <1>1, <1>3
<1> QED
  BY <1>1, <1>2, <1>4 DEF Js

\* Of a nonempty set of rows one is the last.
LEMMA LastIs ==
  ASSUME createdAt \in [Events -> 0..MaxTime], NEW rows \in SUBSET Events, rows # {}
  PROVE  /\ LastOf(rows) \in rows
         /\ \A d \in rows : d = LastOf(rows) \/ Precedes(d, LastOf(rows))
<1> USE EventsAssumption, NumbersAssumption
<1>1. PICK n \in Nat : Events \subseteq 0..n
  BY FiniteIsBounded
<1> DEFINE times == {createdAt[e] : e \in rows}
<1>2. PICK t \in times : \A u \in times : u <= t
  <2>1. times \in SUBSET (0..MaxTime) /\ times # {}
    OBVIOUS
  <2> QED
    BY <2>1, GreatestNumber
<1> DEFINE top == {e \in rows : createdAt[e] = t}
<1>3. top \in SUBSET (0..n) /\ top # {}
  BY <1>1, <1>2
<1>4. PICK e \in top : \A d \in top : d <= e
  BY <1>1, <1>3, GreatestNumber
<1>5. \A d \in rows : d = e \/ Precedes(d, e)
  BY <1>1, <1>2, <1>4 DEF Precedes
<1> QED
  BY <1>4, <1>5 DEF LastOf

\* Positions are ordered, and a position passes whatever precedes what it passes.
LEMMA PrecedesTransitive ==
  ASSUME createdAt \in [Events -> 0..MaxTime],
         NEW d \in Events, NEW e \in Events, NEW f \in Events, Precedes(d, e), Precedes(e, f)
  PROVE  Precedes(d, f)
BY EventsAssumption, NumbersAssumption DEF Precedes

\* What is not after a position is a prefix of the rows.
LEMMA PassedIsPrefix ==
  ASSUME createdAt \in [Events -> 0..MaxTime], NEW c \in [at : Nat, id : Events \cup {0}],
         NEW d \in Events, NEW e \in Events, Precedes(d, e) \/ d = e, ~After(c, e)
  PROVE  ~After(c, d)
<1>1. createdAt[e] \in Nat /\ e \in Nat /\ c.at \in Nat /\ c.id \in Nat
  BY RowsAreNumbers, PositionsAreNumbers, Zenon
<1>2. createdAt[d] \in Nat /\ d \in Nat
  BY RowsAreNumbers, Zenon
<1> QED
  BY <1>1, <1>2 DEF Precedes, After

\* What a cursor left at a row has passed is that row and rows before it, although its
\* instant is truncated.
LEMMA PassedAtRow ==
  ASSUME createdAt \in [Events -> 0..MaxTime],
         NEW r \in Events, NEW e \in Events, ~After(At(r), e)
  PROVE  e = r \/ Precedes(e, r)
<1>1. createdAt[r] \in Nat /\ createdAt[e] \in Nat /\ r \in Nat /\ r # 0 /\ e \in Nat
  BY EventsAssumption, NumbersAssumption
<1>2. Js(createdAt[r]) \in Nat /\ Js(createdAt[r]) <= createdAt[r]
  BY <1>1, JsIs
<1> QED
  BY <1>1, <1>2 DEF After, At, Precedes

\* The furthest position only moves on.
LEMMA FurtherPasses ==
  ASSUME createdAt \in [Events -> 0..MaxTime],
         NEW c \in [at : Nat, id : Events \cup {0}], NEW d \in [at : Nat, id : Events \cup {0}],
         NEW e \in Events, ~After(c, e) \/ ~After(d, e)
  PROVE  ~After(Further(c, d), e)
<1>1. createdAt[e] \in Nat /\ e \in Nat /\ c.at \in Nat /\ c.id \in Nat
  BY RowsAreNumbers, PositionsAreNumbers, Zenon
<1>2. d.at \in Nat /\ d.id \in Nat
  BY PositionsAreNumbers, Zenon
<1> QED
  BY <1>1, <1>2 DEF Further, After

\* A batch of the tail leaves out nothing before any of its rows.
LEMMA BatchIsPrefix ==
  ASSUME createdAt \in [Events -> 0..MaxTime], NEW c,
         NEW r \in ReadTail(c), NEW e \in Committed, After(c, e), Precedes(e, r)
  PROVE  e \in ReadTail(c)
<1> DEFINE rows == {d \in Committed : After(c, d)}
           before(f) == {d \in rows : Precedes(d, f)}
<1>1. rows \subseteq Events /\ IsFiniteSet(rows)
  BY EventsAssumption, FS_Subset DEF Committed
<1>2. r \in rows /\ Cardinality(before(r)) < StreamBatch
  BY DEF ReadTail
<1>3. e \in rows
  OBVIOUS
<1>4. before(e) \subseteq before(r)
  BY <1>1, <1>2, <1>3, PrecedesTransitive
<1>5. IsFiniteSet(before(r)) /\ IsFiniteSet(before(e))
  BY <1>1, FS_Subset
<1>6. Cardinality(before(e)) <= Cardinality(before(r))
  BY <1>4, <1>5, FS_Subset
<1>7. Cardinality(before(e)) \in Nat /\ Cardinality(before(r)) \in Nat
  BY <1>5, FS_CardinalityType
<1>8. Cardinality(before(e)) < StreamBatch
  BY <1>2, <1>6, <1>7, NumbersAssumption
<1> QED
  BY <1>3, <1>8 DEF ReadTail

-----------------------------------------------------------------------------
(* What a step leaves covered *)

\* The next state's cursor, Last-Event-ID and polls, each by its value.
LEMMA CursorByValue ==
  ASSUME \A c : attached' # NoConn /\ conn'[attached'] = "live" /\ c = cursor'[attached']
                  => CursorCovered(c)'
  PROVE  CursorInStep'
BY DEF CursorInStep, CursorCovered, Passed, After

\* The next state's Last-Event-ID covers what its value covers.
LEMMA LastIdByValue ==
  ASSUME \A i : i = lastId' /\ i # 0 => IdCovered(i)'
  PROVE  LastIdInStep'
BY DEF LastIdInStep, IdCovered, Passed, At, After

\* The next state's polls cover what their rows cover.
LEMMA PollsByValue ==
  ASSUME attached' # NoConn =>
           \A p \in Polls : \A rows : rows = polls'[attached'][p].rows
             => \A r \in rows : RowCovered(r, rows)'
  PROVE  PollsInStep'
BY DEF PollsInStep, RowCovered, After, Precedes

\* A step that leaves the base alone, moves the furthest position only on, takes nothing
\* back from the tab and marks as late what commits behind the furthest position.
Advances ==
  /\ createdAt' \in [Events -> 0..MaxTime]
  /\ HistoryOK'
  /\ base' = base
  /\ Committed \subseteq Committed' /\ Committed' \subseteq Events
  /\ late \subseteq late' /\ received \subseteq received'
  /\ \A e \in Committed' : createdAt'[e] = createdAt[e]
  /\ \A e \in Committed' \ Committed : e \in late' \/ After(high, e)
  /\ \A e \in Committed : ~After(high, e) => ~After(high, e)'

\* Such a step owes the tab what it owed, and perhaps a row ahead of the furthest position.
LEMMA OwedAfter ==
  ASSUME IInv, Advances, NEW e \in Owed'
  PROVE  /\ e \in Events /\ createdAt'[e] = createdAt[e]
         /\ e \in Owed \/ After(high, e)
<1>1. e \in Committed' /\ e \in Public /\ e \notin late' /\ After(base, e)'
  BY DEF Owed
<1>2. e \in Events /\ createdAt'[e] = createdAt[e] /\ e \notin late
  BY <1>1 DEF Advances
<1>3. After(base, e)
  BY <1>1, <1>2 DEF After, Advances
<1> QED
  BY <1>1, <1>2, <1>3 DEF Owed, Advances

\* A cursor that stays where it is goes on covering: what an advancing step newly owes the
\* tab lies ahead of every position.
LEMMA CursorKept ==
  ASSUME IInv, Advances, NEW c, c \in [at : Nat, id : Events \cup {0}], CursorCovered(c)
  PROVE  CursorCovered(c)'
<1> USE DEF IInv, HistoryOK
<1>1. createdAt \in [Events -> 0..MaxTime]
  BY DEF TypeOK
<1>2. c = base' \/ \E r \in Committed' : c = At(r)' /\ ~After(high, r)'
  BY DEF CursorCovered, At, Advances
<1>3. ASSUME NEW e \in Owed', ~After(c, e)'
      PROVE  e \in received'
  <2>1. e \in Events /\ createdAt'[e] = createdAt[e] /\ (e \in Owed \/ After(high, e))
    BY OwedAfter
  <2>2. ~After(c, e)
    BY <1>3, <2>1 DEF After
  <2>3. CASE e \in Owed
    BY <2>2, <2>3 DEF CursorCovered, Passed, Advances
  <2>4. CASE c = base
    <3>1. After(base, e)'
      BY DEF Owed
    <3> QED
      BY <2>1, <2>2, <2>4, <3>1 DEF After, Advances
  <2>5. ASSUME NEW r \in Committed, c = At(r), ~After(high, r) PROVE e \in Owed
    <3>1. r \in Events
      BY DEF Committed
    <3>2. e = r \/ Precedes(e, r)
      BY <1>1, <2>1, <2>2, <2>5, <3>1, PassedAtRow
    <3>3. ~After(high, e)
      BY <1>1, <2>1, <2>5, <3>1, <3>2, PassedIsPrefix
    <3> QED
      BY <2>1, <3>3
  <2> QED
    BY <2>3, <2>4, <2>5 DEF CursorCovered
<1> QED
  BY <1>2, <1>3 DEF CursorCovered, Passed

\* So does the Last-Event-ID.
LEMMA IdKept ==
  ASSUME IInv, Advances, NEW i, IdCovered(i)
  PROVE  IdCovered(i)'
<1> USE DEF IInv, HistoryOK
<1>1. createdAt \in [Events -> 0..MaxTime]
  BY DEF TypeOK
<1>2. i \in Committed' /\ i \in Events /\ ~After(high, i)' /\ At(i)' = At(i)
  BY DEF IdCovered, At, Advances
<1>3. ASSUME NEW e \in Owed', ~After(At(i), e)'
      PROVE  e \in received'
  <2>1. e \in Events /\ createdAt'[e] = createdAt[e] /\ (e \in Owed \/ After(high, e))
    BY OwedAfter
  <2>2. ~After(At(i), e)
    BY <1>2, <1>3, <2>1 DEF After
  <2>3. e = i \/ Precedes(e, i)
    BY <1>1, <1>2, <2>1, <2>2, PassedAtRow
  <2>4. ~After(high, e)
    BY <1>1, <1>2, <2>1, <2>3, PassedIsPrefix DEF IdCovered
  <2> QED
    BY <2>1, <2>2, <2>4 DEF IdCovered, Passed, Advances
<1> QED
  BY <1>2, <1>3 DEF IdCovered, Passed

\* So does each row of a poll that is still to be delivered.
LEMMA RowKept ==
  ASSUME IInv, Advances, NEW rows \in SUBSET Committed, NEW r \in rows, RowCovered(r, rows)
  PROVE  RowCovered(r, rows)'
<1> USE DEF IInv, HistoryOK
<1>1. createdAt \in [Events -> 0..MaxTime]
  BY DEF TypeOK
<1>2. r \in Events /\ createdAt'[r] = createdAt[r] /\ ~After(high, r)'
  BY DEF RowCovered, Advances
<1>3. ASSUME NEW e \in Owed', e = r \/ Precedes(e, r)'
      PROVE  e \in received' \cup rows
  <2>1. e \in Events /\ createdAt'[e] = createdAt[e] /\ (e \in Owed \/ After(high, e))
    BY OwedAfter
  <2>2. e = r \/ Precedes(e, r)
    BY <1>2, <1>3, <2>1 DEF Precedes
  <2>3. ~After(high, e)
    BY <1>1, <1>2, <2>1, <2>2, PassedIsPrefix DEF RowCovered
  <2> QED
    BY <2>1, <2>2, <2>3 DEF RowCovered, Advances
<1> QED
  BY <1>2, <1>3 DEF RowCovered

\* The tab stays on its connection, whose cursor and polls do not change, or the connection
\* is not live afterwards.
TabKept ==
  /\ lastId' = lastId
  /\ attached' # NoConn =>
       /\ attached' = attached
       /\ \A p \in Polls : polls'[attached][p].rows \in {polls[attached][p].rows, {}}
       /\ conn'[attached] = "live" => conn[attached] = "live" /\ cursor'[attached] = cursor[attached]

\* A step that advances and leaves the tab alone leaves everything covered.
LEMMA AllKept ==
  ASSUME IInv, Advances, TabKept
  PROVE  CursorInStep' /\ LastIdInStep' /\ PollsInStep'
<1>1. CursorInStep'
  <2> SUFFICES ASSUME NEW c, attached' # NoConn, conn'[attached'] = "live",
                      c = cursor'[attached']
               PROVE  CursorCovered(c)'
    BY CursorByValue
  <2>1. attached' = attached /\ conn[attached] = "live" /\ c = cursor[attached]
    BY DEF TabKept
  <2>2. c \in [at : Nat, id : Events \cup {0}]
    BY <2>1 DEF IInv, TypeOK
  <2>3. CursorCovered(c)
    BY <2>1 DEF IInv, CursorInStep
  <2> QED
    BY <2>2, <2>3, CursorKept
<1>2. LastIdInStep'
  <2> SUFFICES ASSUME NEW i, i = lastId', i # 0 PROVE IdCovered(i)'
    BY LastIdByValue
  <2>1. IdCovered(i)
    BY DEF IInv, LastIdInStep, TabKept
  <2> QED
    BY <2>1, IdKept
<1>3. PollsInStep'
  <2> SUFFICES ASSUME attached' # NoConn, NEW p \in Polls, NEW rows,
                      rows = polls'[attached'][p].rows, NEW r \in rows
               PROVE  RowCovered(r, rows)'
    BY PollsByValue
  <2>1. attached' = attached /\ rows = polls[attached][p].rows /\ attached \in Conns
    BY DEF TabKept, IInv, TypeOK
  <2>2. RowCovered(r, rows)
    BY <2>1 DEF IInv, PollsInStep
  <2>3. rows \in SUBSET Committed
    BY <2>1 DEF IInv, PollsOfStreams
  <2> QED
    BY <2>2, <2>3, RowKept
<1> QED
  BY <1>1, <1>2, <1>3

-----------------------------------------------------------------------------
(* Steps of the table *)

\* A step that leaves the rows and the history alone advances.
LEMMA QuietAdvances ==
  ASSUME IInv, UNCHANGED <<row, createdAt, historyVars>>, received \subseteq received'
  PROVE  Advances
BY DEF IInv, TypeOK, HistoryOK, Advances, Committed, After, historyVars

\* The clock moves on, and nothing else does.
LEMMA TickPreserves ==
  ASSUME IInv, Tick
  PROVE  IInv'
<1> USE DEF IInv, Tick, tableVars, serverVars, tabVars, historyVars
<1>1. TypeOK' /\ HistoryOK' /\ SlotsHeld' /\ PollsOfStreams'
  BY NumbersAssumption DEF TypeOK, HistoryOK, SlotsHeld, PollsOfStreams, Committed
<1>2. Advances
  BY QuietAdvances
<1>3. TabKept
  BY DEF TabKept
<1> QED
  BY <1>1, <1>2, <1>3, AllKept

\* A transaction that takes its created_at is not visible yet, so the tab is owed nothing new.
LEMMA WritePreserves ==
  ASSUME IInv, NEW e \in Events, Write(e)
  PROVE  IInv'
<1> USE DEF IInv, Write, serverVars, tabVars, historyVars
<1>0. PICK t \in 0..MaxTime : createdAt' = [createdAt EXCEPT ![e] = t]
  BY NumbersAssumption DEF Stamps, TypeOK
<1>1. TypeOK' /\ HistoryOK' /\ SlotsHeld'
  BY <1>0 DEF TypeOK, HistoryOK, SlotsHeld
<1>2. Committed' = Committed /\ e \notin Committed
  BY DEF TypeOK, Committed
<1>3. PollsOfStreams'
  BY <1>2 DEF PollsOfStreams
<1>4. \A d \in Committed : d \in Events /\ createdAt'[d] = createdAt[d]
  BY <1>0, <1>2 DEF TypeOK, Committed
<1>5. Advances
  BY <1>1, <1>2, <1>4 DEF Advances, TypeOK, Committed, After
<1>6. TabKept
  BY DEF TabKept
<1> QED
  BY <1>1, <1>3, <1>5, <1>6, AllKept

\* A committed row is owed to the tab when it lies ahead of the furthest position; a row that
\* commits behind it is one that no stream promises.
LEMMA CommitPreserves ==
  ASSUME IInv, NEW e \in Events, Commit(e)
  PROVE  IInv'
<1> USE DEF IInv, Commit, serverVars, tabVars
<1>1. TypeOK' /\ HistoryOK' /\ SlotsHeld'
  BY DEF TypeOK, HistoryOK, SlotsHeld
<1>2. Committed' = Committed \cup {e}
  BY DEF TypeOK, Committed
<1>3. PollsOfStreams'
  BY <1>2 DEF PollsOfStreams
<1>4. Advances
  BY <1>1, <1>2 DEF Advances, TypeOK, Committed, After
<1>5. TabKept
  BY DEF TabKept
<1> QED
  BY <1>1, <1>3, <1>4, <1>5, AllKept

-----------------------------------------------------------------------------
(* Steps of the connections *)

\* The counter goes up with the connections that are not free, and down after them.
LEMMA SlotTaken ==
  ASSUME IInv, NEW k \in Conns, conn[k] = "free", conn' = [conn EXCEPT ![k] = "opening"],
         openStreams' = openStreams + 1
  PROVE  SlotsHeld'
<1> DEFINE held == {i \in Conns : conn[i] # "free"}
<1>1. held' = held \cup {k} /\ k \notin held
  BY DEF IInv, TypeOK
<1>2. IsFiniteSet(held)
  BY ConnsAssumption, FS_Subset
<1>3. Cardinality(held') = Cardinality(held) + 1
  BY <1>1, <1>2, FS_AddElement
<1>4. Cardinality(held) \in Nat
  BY <1>2, FS_CardinalityType
<1> QED
  BY <1>3, <1>4 DEF IInv, TypeOK, SlotsHeld

\* The counter after a connection has become free.
LEMMA SlotLeft ==
  ASSUME IInv, NEW k \in Conns, conn[k] # "free", conn' = [conn EXCEPT ![k] = "free"],
         openStreams' = openStreams \/ openStreams' = openStreams - 1
  PROVE  SlotsHeld' /\ openStreams' \in 0..MaxStreams
<1> DEFINE held == {i \in Conns : conn[i] # "free"}
<1>1. held' = held \ {k} /\ k \in held
  BY DEF IInv, TypeOK
<1>2. IsFiniteSet(held)
  BY ConnsAssumption, FS_Subset
<1>3. Cardinality(held') = Cardinality(held) - 1
  BY <1>1, <1>2, FS_RemoveElement
<1>4. Cardinality(held) \in Nat /\ Cardinality(held') \in Nat
  BY <1>1, <1>2, FS_CardinalityType, FS_Subset
<1> QED
  BY <1>3, <1>4, NumbersAssumption DEF IInv, TypeOK, SlotsHeld

\* An accepted stream takes a slot and has no cursor yet.
LEMMA OpenPreserves ==
  ASSUME IInv, NEW k \in Conns, Open(k)
  PROVE  IInv'
<1> USE DEF IInv, Open, tableVars, historyVars
<1>1. TypeOK' /\ HistoryOK'
  BY NumbersAssumption DEF TypeOK, HistoryOK
<1>2. SlotsHeld'
  BY SlotTaken
<1>3. PollsOfStreams'
  BY DEF PollsOfStreams, Committed, TypeOK
<1>4. Advances
  BY QuietAdvances
<1>5. CursorInStep' /\ PollsInStep'
  BY ConnsAssumption DEF TypeOK, PollsOfStreams, CursorInStep, PollsInStep, Idle
<1>6. LastIdInStep'
  <2> SUFFICES ASSUME NEW i, i = lastId', i # 0 PROVE IdCovered(i)'
    BY LastIdByValue
  <2> QED
    BY <1>4, IdKept DEF LastIdInStep
<1> QED
  BY <1>1, <1>2, <1>3, <1>5, <1>6

\* A refused stream takes no slot.
LEMMA OpenRefusedPreserves ==
  ASSUME IInv, OpenRefused
  PROVE  IInv'
<1> USE DEF IInv, OpenRefused, tableVars, serverVars, historyVars
<1>1. TypeOK' /\ HistoryOK' /\ SlotsHeld' /\ PollsOfStreams'
  BY DEF TypeOK, HistoryOK, SlotsHeld, PollsOfStreams, Committed
<1>2. Advances
  BY QuietAdvances
<1>3. TabKept
  BY DEF TabKept
<1> QED
  BY <1>1, <1>2, <1>3, AllKept

\* A stream resumes at the Last-Event-ID, up to which the tab has everything.
LEMMA ResumePreserves ==
  ASSUME IInv, NEW k \in Conns, Resume(k)
  PROVE  IInv'
<1> USE DEF IInv, Resume, tableVars, tabVars, historyVars
<1>0. lastId \in Events /\ lastId # 0 /\ IdCovered(lastId)
  BY EventsAssumption DEF Anchored, TypeOK, LastIdInStep
<1>1. At(lastId) \in [at : Nat, id : Events \cup {0}]
  BY <1>0, JsIs, NumbersAssumption DEF At, TypeOK
<1>2. TypeOK' /\ HistoryOK'
  BY <1>1 DEF TypeOK, HistoryOK, At
<1>3. SlotsHeld'
  <2>1. {i \in Conns : conn'[i] # "free"} = {i \in Conns : conn[i] # "free"}
    BY DEF TypeOK
  <2> QED
    BY <2>1 DEF SlotsHeld
<1>4. PollsOfStreams'
  BY DEF PollsOfStreams, Committed, TypeOK
<1>5. Advances
  BY QuietAdvances
<1>6. CASE attached # k
  <2>1. TabKept
    BY <1>6 DEF TabKept, TypeOK
  <2> QED
    BY <1>2, <1>3, <1>4, <1>5, <2>1, AllKept
<1>7. CASE attached = k
  <2>1. CursorInStep'
    <3> SUFFICES ASSUME NEW c, attached' # NoConn, conn'[attached'] = "live",
                        c = cursor'[attached']
                 PROVE  CursorCovered(c)'
      BY CursorByValue
    <3>1. c = At(lastId)
      BY <1>7 DEF TypeOK, At
    <3>2. CursorCovered(c)
      BY <1>0, <3>1 DEF CursorCovered, IdCovered
    <3> QED
      BY <1>1, <1>5, <3>1, <3>2, CursorKept
  <2>2. LastIdInStep'
    <3> SUFFICES ASSUME NEW i, i = lastId', i # 0 PROVE IdCovered(i)'
      BY LastIdByValue
    <3> QED
      BY <1>0, <1>5, IdKept
  <2>3. PollsInStep'
    BY <1>7 DEF PollsOfStreams, PollsInStep, Idle
  <2> QED
    BY <1>2, <1>3, <1>4, <2>1, <2>2, <2>3
<1> QED
  BY <1>6, <1>7

\* A stream that starts from now makes its instant the base: it owes nothing before, and the
\* Last-Event-ID that was given up is behind it.
LEMMA StartNowPreserves ==
  ASSUME IInv, NEW k \in Conns, StartNow(k)
  PROVE  IInv'
<1> USE DEF IInv, StartNow, tableVars, tabVars
<1>0. Instant(Js(clock)) \in [at : Nat, id : {0}] /\ Js(clock) \in Nat
  BY JsIs, NumbersAssumption DEF Instant, TypeOK
<1>1. TypeOK' /\ HistoryOK'
  BY <1>0 DEF TypeOK, HistoryOK
<1>2. SlotsHeld'
  <2>1. {i \in Conns : conn'[i] # "free"} = {i \in Conns : conn[i] # "free"}
    BY DEF TypeOK
  <2> QED
    BY <2>1 DEF SlotsHeld
<1>3. PollsOfStreams'
  BY DEF PollsOfStreams, Committed, TypeOK
<1>4. CASE attached # k
  <2>1. Advances
    BY <1>4, QuietAdvances DEF historyVars
  <2>2. TabKept
    BY <1>4 DEF TabKept, TypeOK
  <2> QED
    BY <1>1, <1>2, <1>3, <2>1, <2>2, AllKept
<1>5. CASE attached = k
  <2>0. base' = Instant(Js(clock)) /\ cursor'[attached'] = base' /\ attached' = k
    BY <1>5 DEF TypeOK
  <2>1. \A e \in Owed' : createdAt[e] \in Nat /\ createdAt[e] > Js(clock)
    <3> SUFFICES ASSUME NEW e \in Owed' PROVE createdAt[e] \in Nat /\ createdAt[e] > Js(clock)
      OBVIOUS
    <3>1. After(base, e)' /\ e \in Events
      BY EventsAssumption DEF Owed
    <3>2. createdAt[e] \in Nat
      BY <3>1, NumbersAssumption DEF TypeOK
    <3> QED
      BY <2>0, <3>1, <3>2 DEF After, Instant
  <2>2. CursorInStep'
    <3> SUFFICES ASSUME NEW c, attached' # NoConn, conn'[attached'] = "live",
                        c = cursor'[attached']
                 PROVE  CursorCovered(c)'
      BY CursorByValue
    <3>1. c = base' /\ c.at = Js(clock)
      BY <2>0 DEF Instant
    <3>2. \A e \in Owed' : After(c, e)'
      BY <2>1, <3>1 DEF After
    <3> QED
      BY <3>1, <3>2 DEF CursorCovered, Passed
  <2>3. LastIdInStep'
    <3> SUFFICES ASSUME NEW i, i = lastId', i # 0 PROVE IdCovered(i)'
      BY LastIdByValue
    <3>1. i \in Committed /\ ~After(high, i) /\ i \in Events
      BY DEF LastIdInStep, IdCovered, Committed
    <3>2. i \in Committed' /\ ~After(high, i)' /\ At(i)' = At(i)
      BY <3>1 DEF Committed, After, At
    <3>3. Js(createdAt[i]) \in Nat /\ Js(createdAt[i]) < Js(clock)
      <4>1. Js(createdAt[i]) \in Nat
        BY <3>1, JsIs, NumbersAssumption DEF TypeOK
      <4>2. ~(Js(createdAt[i]) + Window >= Js(clock))
        BY DEF Anchored
      <4> QED
        BY <1>0, <4>1, <4>2, NumbersAssumption
    <3>4. \A e \in Owed' : After(At(i), e)'
      BY <1>0, <2>1, <3>3 DEF After, At
    <3> QED
      BY <3>2, <3>4 DEF IdCovered, Passed
  <2>4. PollsInStep'
    BY <1>5 DEF PollsOfStreams, PollsInStep, Idle
  <2> QED
    BY <1>1, <1>2, <1>3, <2>2, <2>3, <2>4
<1> QED
  BY <1>4, <1>5

\* A stream whose start fails gives its slot back and has had no cursor.
LEMMA StartFailsPreserves ==
  ASSUME IInv, NEW k \in Conns, StartFails(k)
  PROVE  IInv'
<1> USE DEF IInv, StartFails, Break, tableVars
<1>1. TypeOK' /\ HistoryOK'
  BY NumbersAssumption DEF TypeOK, HistoryOK
<1>2. SlotsHeld'
  BY SlotLeft
<1>3. PollsOfStreams'
  BY DEF PollsOfStreams, Committed, TypeOK
<1>4. Advances
  BY QuietAdvances DEF historyVars
<1>5. TabKept
  BY DEF TabKept, TypeOK
<1> QED
  BY <1>1, <1>2, <1>3, <1>4, <1>5, AllKept

\* The end of a live stream, by its lifetime or by the tab.
LEMMA ClosePreserves ==
  ASSUME IInv, NEW k \in Conns, conn[k] = "live", Close(k), Break,
         attached' = (IF attached = k THEN NoConn ELSE attached),
         UNCHANGED <<tableVars, lastId, refused, received, historyVars>>
  PROVE  IInv'
<1> USE DEF IInv, Close, Break, tableVars, historyVars
<1>1. SlotsHeld' /\ openStreams' \in 0..MaxStreams
  BY SlotLeft
<1>2. polls' \in [Conns -> [Polls -> [out : BOOLEAN, rows : SUBSET Events]]]
  BY DEF TypeOK, Idle
<1>3. TypeOK' /\ HistoryOK'
  BY <1>1, <1>2, NumbersAssumption DEF TypeOK, HistoryOK
<1>4. PollsOfStreams'
  BY DEF PollsOfStreams, Committed, TypeOK, Idle
<1>5. Advances
  BY QuietAdvances
<1>6. TabKept
  BY DEF TabKept, TypeOK
<1> QED
  BY <1>1, <1>3, <1>4, <1>5, <1>6, AllKept

\* The lifetime timer ends the stream.
LEMMA LifetimePreserves ==
  ASSUME IInv, NEW k \in Conns, Lifetime(k)
  PROVE  IInv'
BY ClosePreserves DEF Lifetime

\* The tab's connection breaks: a live stream ends, one that resolves its start does not notice.
LEMMA DisconnectPreserves ==
  ASSUME IInv, Disconnect
  PROVE  IInv'
<1> USE DEF Disconnect
<1>0. attached \in Conns
  BY DEF IInv, TypeOK
<1>1. CASE conn[attached] = "live"
  BY <1>0, <1>1, ClosePreserves
<1>2. CASE conn[attached] # "live"
  <2> USE DEF IInv, Break, tableVars, serverVars, historyVars
  <2>1. TypeOK' /\ HistoryOK' /\ SlotsHeld' /\ PollsOfStreams'
    BY <1>2, NumbersAssumption DEF TypeOK, HistoryOK, SlotsHeld, PollsOfStreams, Committed
  <2>2. Advances
    BY <1>2, QuietAdvances
  <2>3. TabKept
    BY DEF TabKept
  <2> QED
    BY <2>1, <2>2, <2>3, AllKept
<1> QED
  BY <1>1, <1>2

-----------------------------------------------------------------------------
(* Steps of the polls *)

\* A poll reads on from the cursor: what it leaves out before its rows was passed already.
LEMMA StartPollPreserves ==
  ASSUME IInv, NEW k \in Conns, NEW p \in Polls, StartPoll(k, p)
  PROVE  IInv'
<1> DEFINE rows == ReadTail(cursor[k])
           last == LastOf(rows)
<1> USE DEF IInv, tableVars, tabVars
<1>0. createdAt \in [Events -> 0..MaxTime] /\ rows \in SUBSET Committed /\ rows \in SUBSET Events
  BY DEF TypeOK, ReadTail, Committed
<1>1. /\ conn[k] = "live"
      /\ polls' = [polls EXCEPT ![k][p] = [out |-> TRUE, rows |-> rows]]
      /\ UNCHANGED <<clock, row, createdAt, conn, cursor, openStreams, attached, lastId,
                     refused, received, base, late, breaks>>
  BY DEF StartPoll
<1>2. high' \in [at : Nat, id : Events \cup {0}] /\ \A e \in Events :
        (~After(high, e) => ~After(high, e)') /\ (e \in rows => ~After(high, e)')
  <2>1. CASE rows = {}
    <3>1. high' = high
      BY <2>1 DEF StartPoll
    <3> QED
      BY <1>1, <2>1, <3>1 DEF HistoryOK, After
  <2>2. CASE rows # {}
    <3>1. last \in rows /\ last \in Events /\ \A d \in rows : d = last \/ Precedes(d, last)
      BY <1>0, <2>2, LastIs
    <3> DEFINE l == [at |-> createdAt[last], id |-> last]
    <3>2. l \in [at : Nat, id : Events \cup {0}] /\ high \in [at : Nat, id : Events \cup {0}]
      BY <1>0, <3>1, NumbersAssumption DEF HistoryOK
    <3>3. high' = Further(high, l)
      BY <2>2 DEF StartPoll
    <3>4. ~After(l, last)
      <4>1. createdAt[last] \in Nat /\ last \in Nat
        BY <1>0, <3>1, RowsAreNumbers
      <4> QED
        BY <4>1 DEF After
    <3>5. \A e \in Events : (~After(high, e) => ~After(Further(high, l), e))
                            /\ (e \in rows => ~After(Further(high, l), e))
      <4> SUFFICES ASSUME NEW e \in Events
                   PROVE  (~After(high, e) => ~After(Further(high, l), e))
                          /\ (e \in rows => ~After(Further(high, l), e))
        OBVIOUS
      <4>1. e \in rows => ~After(l, e)
        BY <1>0, <3>1, <3>2, <3>4, PassedIsPrefix
      <4> QED
        BY <1>0, <3>2, <4>1, FurtherPasses
    <3>6. high' \in [at : Nat, id : Events \cup {0}]
      BY <3>2, <3>3 DEF Further
    <3> QED
      BY <1>1, <3>3, <3>5, <3>6 DEF After
  <2> QED
    BY <2>1, <2>2
<1>3. polls' \in [Conns -> [Polls -> [out : BOOLEAN, rows : SUBSET Events]]]
  BY <1>0, <1>1 DEF TypeOK
<1>4. TypeOK' /\ HistoryOK' /\ SlotsHeld'
  BY <1>1, <1>2, <1>3 DEF TypeOK, HistoryOK, SlotsHeld
<1>5. Committed' = Committed /\ Committed \subseteq Events
  BY <1>1 DEF Committed
<1>6. PollsOfStreams'
  <2> SUFFICES ASSUME NEW i \in Conns, NEW q \in Polls
               PROVE  /\ conn'[i] # "live" => polls'[i][q] = Idle
                      /\ polls'[i][q].rows \subseteq Committed
    BY <1>5 DEF PollsOfStreams, Idle
  <2>1. CASE i = k /\ q = p
    BY <1>0, <1>1, <2>1 DEF TypeOK
  <2>2. CASE ~(i = k /\ q = p)
    BY <1>1, <2>2 DEF TypeOK, PollsOfStreams
  <2> QED
    BY <2>1, <2>2
<1>7. Advances
  BY <1>1, <1>2, <1>4, <1>5 DEF Advances, TypeOK
<1>8. CursorInStep'
  <2> SUFFICES ASSUME NEW c, attached' # NoConn, conn'[attached'] = "live",
                      c = cursor'[attached']
               PROVE  CursorCovered(c)'
    BY CursorByValue
  <2>1. attached \in Conns /\ c = cursor[attached] /\ conn[attached] = "live"
    BY <1>1 DEF TypeOK
  <2>2. c \in [at : Nat, id : Events \cup {0}] /\ CursorCovered(c)
    BY <1>1, <2>1 DEF TypeOK, CursorInStep
  <2> QED
    BY <1>7, <2>2, CursorKept
<1>9. LastIdInStep'
  <2> SUFFICES ASSUME NEW i, i = lastId', i # 0 PROVE IdCovered(i)'
    BY LastIdByValue
  <2> QED
    BY <1>1, <1>7, IdKept DEF LastIdInStep
<1>10. PollsInStep'
  <2> SUFFICES ASSUME attached' # NoConn, NEW q \in Polls, NEW read,
                      read = polls'[attached'][q].rows, NEW r \in read
               PROVE  RowCovered(r, read)'
    BY PollsByValue
  <2>0. attached \in Conns /\ attached' = attached
    BY <1>1 DEF TypeOK
  <2>1. CASE attached = k /\ q = p
    <3>1. read = rows
      BY <1>1, <2>1 DEF TypeOK
    <3>2. ~After(high, r)'
      BY <1>0, <1>2, <3>1
    <3>3. ASSUME NEW e \in Owed', e = r \/ Precedes(e, r)'
          PROVE  e \in received' \cup read
      <4>1. e \in Owed /\ e \in Committed
        BY <1>1 DEF Owed, Committed, After
      <4>2. e = r \/ Precedes(e, r)
        BY <1>1, <3>3 DEF Precedes
      <4>3. CASE After(cursor[k], e)
        BY <1>0, <3>1, <4>1, <4>2, <4>3, BatchIsPrefix
      <4>4. CASE ~After(cursor[k], e)
        BY <1>1, <2>0, <2>1, <4>1, <4>4, ConnsAssumption DEF CursorInStep, CursorCovered, Passed
      <4> QED
        BY <4>3, <4>4
    <3> QED
      BY <3>2, <3>3 DEF RowCovered
  <2>2. CASE ~(attached = k /\ q = p)
    <3>1. read = polls[attached][q].rows
      BY <1>1, <2>0, <2>2 DEF TypeOK
    <3>2. RowCovered(r, read) /\ read \in SUBSET Committed
      BY <1>1, <2>0, <3>1 DEF PollsInStep, PollsOfStreams
    <3> QED
      BY <1>7, <3>2, RowKept
  <2> QED
    BY <2>1, <2>2
<1> QED
  BY <1>4, <1>6, <1>8, <1>9, <1>10

\* A poll that fails leaves the cursor where it was.
LEMMA PollFailsPreserves ==
  ASSUME IInv, NEW k \in Conns, NEW p \in Polls, PollFails(k, p)
  PROVE  IInv'
<1> USE DEF IInv, PollFails, Break, tableVars, tabVars, historyVars
<1>1. polls' \in [Conns -> [Polls -> [out : BOOLEAN, rows : SUBSET Events]]]
  BY DEF TypeOK, Idle
<1>2. TypeOK' /\ HistoryOK' /\ SlotsHeld'
  BY <1>1, NumbersAssumption DEF TypeOK, HistoryOK, SlotsHeld
<1>3. PollsOfStreams'
  BY DEF PollsOfStreams, Committed, TypeOK, Idle
<1>4. Advances
  BY QuietAdvances
<1>5. TabKept
  BY DEF TabKept, TypeOK, Idle
<1> QED
  BY <1>2, <1>3, <1>4, <1>5, AllKept

\* A poll delivers its rows and leaves the cursor and the Last-Event-ID at rows of its own:
\* both may move back, never past a row that the tab does not have.
LEMMA EndPollPreserves ==
  ASSUME IInv, NEW k \in Conns, NEW p \in Polls, EndPoll(k, p)
  PROVE  IInv'
<1> DEFINE rows == polls[k][p].rows
<1> USE DEF IInv, EndPoll, tableVars, historyVars
<1>0. /\ createdAt \in [Events -> 0..MaxTime]
      /\ rows \in SUBSET Committed /\ rows \in SUBSET Events /\ rows \cap Public \in SUBSET Events
  BY DEF TypeOK, PollsOfStreams
<1>1. rows # {} => LastOf(rows) \in rows /\ At(LastOf(rows)) \in [at : Nat, id : Events \cup {0}]
  <2> SUFFICES ASSUME rows # {}
               PROVE  LastOf(rows) \in rows /\ At(LastOf(rows)) \in [at : Nat, id : Events \cup {0}]
    OBVIOUS
  <2>1. LastOf(rows) \in rows /\ LastOf(rows) \in Events
    BY <1>0, LastIs
  <2>2. Js(createdAt[LastOf(rows)]) \in Nat
    BY <1>0, <2>1, JsIs, RowsAreNumbers
  <2> QED
    BY <2>1, <2>2 DEF At
<1>2. rows \cap Public # {} => LastOf(rows \cap Public) \in rows \cap Public
  BY <1>0, LastIs
<1>3. /\ received' \in {received, received \cup (rows \cap Public)} /\ received \subseteq received'
      /\ received' \subseteq Public /\ lastId' \in Public \cup {0}
  BY <1>2 DEF Deliver, TypeOK
<1>4. cursor' = IF rows = {} THEN cursor ELSE [cursor EXCEPT ![k] = At(LastOf(rows))]
  BY DEF At
<1>5. polls' \in [Conns -> [Polls -> [out : BOOLEAN, rows : SUBSET Events]]]
      /\ cursor' \in [Conns -> [at : Nat, id : Events \cup {0}]]
  BY <1>1, <1>4 DEF TypeOK, Idle
<1>6. TypeOK' /\ HistoryOK' /\ SlotsHeld'
  BY <1>3, <1>5 DEF TypeOK, HistoryOK, SlotsHeld
<1>7. PollsOfStreams'
  BY DEF PollsOfStreams, Committed, TypeOK, Idle
<1>8. Advances
  BY <1>3, QuietAdvances
<1>9. CASE attached # k
  <2>1. TabKept
    BY <1>4, <1>9 DEF TabKept, TypeOK, Deliver
  <2> QED
    BY <1>6, <1>7, <1>8, <2>1, AllKept
<1>10. CASE attached = k
  <2>0. attached # NoConn /\ received' = received \cup (rows \cap Public)
    BY <1>10, ConnsAssumption DEF Deliver
  <2>1. ASSUME NEW r \in rows PROVE ~After(high, r) /\ r \in Committed /\ Passed(At(r))'
    <3>1. RowCovered(r, rows) /\ r \in Committed /\ r \in Events
      BY <1>0, <1>10, <2>0 DEF PollsInStep
    <3>2. ASSUME NEW e \in Owed', ~After(At(r), e)' PROVE e \in received'
      <4>1. e \in Owed /\ e \in Events /\ e \in Public /\ ~After(At(r), e)
        BY <3>2, EventsAssumption DEF Owed, Committed, After, At
      <4>2. e = r \/ Precedes(e, r)
        BY <1>0, <3>1, <4>1, PassedAtRow
      <4> QED
        BY <2>0, <3>1, <4>1, <4>2 DEF RowCovered
    <3> QED
      BY <3>1, <3>2 DEF RowCovered, Passed
  <2>2. CursorInStep'
    <3> SUFFICES ASSUME NEW c, attached' # NoConn, conn'[attached'] = "live",
                        c = cursor'[attached']
                 PROVE  CursorCovered(c)'
      BY CursorByValue
    <3>1. CASE rows = {}
      BY <1>4, <1>8, <1>10, <2>0, <3>1, CursorKept DEF TypeOK, CursorInStep
    <3>2. CASE rows # {}
      <4>0. PICK l \in rows : l = LastOf(rows)
        BY <1>1, <3>2
      <4>1. c = At(l)
        BY <1>4, <1>10, <3>2, <4>0 DEF TypeOK
      <4>2. ~After(high, l) /\ l \in Committed /\ Passed(At(l))'
        BY <2>1
      <4>3. l \in Committed' /\ ~After(high, l)' /\ At(l) = [at |-> Js(createdAt'[l]), id |-> l]
        BY <4>2 DEF Committed, After, At
      <4> QED
        BY <4>1, <4>2, <4>3 DEF CursorCovered, Passed, At, After
    <3> QED
      BY <3>1, <3>2
  <2>3. LastIdInStep'
    <3> SUFFICES ASSUME NEW i, i = lastId', i # 0 PROVE IdCovered(i)'
      BY LastIdByValue
    <3>1. CASE rows \cap Public = {}
      BY <1>8, <1>10, <3>1, IdKept DEF LastIdInStep, Deliver
    <3>2. CASE rows \cap Public # {}
      <4>1. i \in rows
        BY <1>2, <1>10, <3>2 DEF Deliver
      <4>2. ~After(high, i) /\ i \in Committed /\ Passed(At(i))'
        BY <2>1, <4>1
      <4> QED
        BY <4>2 DEF IdCovered, Committed, After
    <3> QED
      BY <3>1, <3>2
  <2>4. PollsInStep'
    <3> SUFFICES ASSUME attached' # NoConn, NEW q \in Polls, NEW read,
                        read = polls'[attached'][q].rows, NEW r \in read
                 PROVE  RowCovered(r, read)'
      BY PollsByValue
    <3>1. q # p /\ read = polls[attached][q].rows
      BY <1>10 DEF TypeOK, Idle
    <3>2. RowCovered(r, read) /\ read \in SUBSET Committed
      BY <1>10, <2>0, <3>1 DEF PollsInStep, PollsOfStreams
    <3> QED
      BY <1>8, <3>2, RowKept
  <2> QED
    BY <1>6, <1>7, <2>2, <2>3, <2>4
<1> QED
  BY <1>9, <1>10

-----------------------------------------------------------------------------
(* Theorems *)

\* Before the first step there are no rows, no streams and nothing owed.
LEMMA InitInvariant == Init => IInv
<1> SUFFICES ASSUME Init PROVE IInv
  OBVIOUS
<1> USE DEF Init
<1>1. TypeOK /\ HistoryOK
  <2>1. polls \in [Conns -> [Polls -> [out : BOOLEAN, rows : SUBSET Events]]]
    BY DEF Idle
  <2>2. Instant(0) \in [at : Nat, id : Events \cup {0}] /\ Instant(0) \in [at : Nat, id : {0}]
    BY DEF Instant
  <2>3. 0 \in 0..MaxTime /\ 0 \in 0..MaxStreams /\ 0 \in 0..MaxBreaks
    BY NumbersAssumption
  <2>4. cursor \in [Conns -> [at : Nat, id : Events \cup {0}]]
    BY <2>2
  <2>5. TypeOK
    BY <2>1, <2>3, <2>4 DEF TypeOK
  <2>6. HistoryOK
    BY <2>2 DEF HistoryOK
  <2> QED
    BY <2>5, <2>6
<1>2. SlotsHeld
  <2>1. {k \in Conns : conn[k] # "free"} = {}
    OBVIOUS
  <2> QED
    BY <2>1, FS_EmptySet DEF SlotsHeld
<1>3. PollsOfStreams /\ CursorInStep /\ LastIdInStep /\ PollsInStep
  BY DEF PollsOfStreams, CursorInStep, LastIdInStep, PollsInStep, Idle
<1> QED
  BY <1>1, <1>2, <1>3 DEF IInv

\* Every action preserves the inductive invariant.
LEMMA NextInvariant == IInv /\ [Next]_vars => IInv'
<1> SUFFICES ASSUME IInv, [Next]_vars PROVE IInv'
  OBVIOUS
<1>1. CASE UNCHANGED vars
  <2> USE <1>1 DEF vars, tableVars, serverVars, tabVars, historyVars
  <2>1. TypeOK' /\ HistoryOK' /\ SlotsHeld' /\ PollsOfStreams'
    BY DEF IInv, TypeOK, HistoryOK, SlotsHeld, PollsOfStreams, Committed
  <2>2. Advances
    BY QuietAdvances
  <2>3. TabKept
    BY DEF TabKept
  <2> QED
    BY <2>1, <2>2, <2>3, AllKept DEF IInv
<1>2. CASE Tick
  BY <1>2, TickPreserves
<1>3. ASSUME NEW e \in Events, Write(e) \/ Commit(e) PROVE IInv'
  BY <1>3, WritePreserves, CommitPreserves
<1>4. ASSUME NEW k \in Conns, Open(k) \/ Resume(k) \/ StartNow(k) \/ StartFails(k) \/ Lifetime(k)
      PROVE  IInv'
  BY <1>4, OpenPreserves, ResumePreserves, StartNowPreserves, StartFailsPreserves, LifetimePreserves
<1>5. CASE OpenRefused \/ Disconnect
  BY <1>5, OpenRefusedPreserves, DisconnectPreserves
<1>6. ASSUME NEW k \in Conns, NEW p \in Polls, StartPoll(k, p) \/ EndPoll(k, p) \/ PollFails(k, p)
      PROVE  IInv'
  BY <1>6, StartPollPreserves, EndPollPreserves, PollFailsPreserves
<1> QED
  BY <1>1, <1>2, <1>3, <1>4, <1>5, <1>6 DEF Next

\* IInv is an invariant: rows, connections, polls and the tab stay in step.
THEOREM Invariance == Spec => []IInv
<1>1. Init => IInv
  BY InitInvariant
<1>2. IInv /\ [Next]_vars => IInv'
  BY NextInvariant
<1> QED
  BY <1>1, <1>2, PTL DEF Spec

\* The types of EventStreamService's state and of the tab; in particular the counter of a
\* principal's streams never falls below zero and never exceeds maxStreamsPerPrincipal.
THEOREM TypeCorrect == Spec => []TypeOK
<1>1. IInv => TypeOK
  BY DEF IInv
<1> QED
  BY <1>1, Invariance, PTL

\* The tail that EventStreamService reads passes no public event that the tab has not got:
\* however polls overlap, batches end, Dates truncate and connections are resumed.
THEOREM NothingIsSkipped == Spec => []NothingSkipped
<1>1. IInv => NothingSkipped
  BY DEF IInv, NothingSkipped, CursorInStep, CursorCovered, Passed, Owed
<1> QED
  BY <1>1, Invariance, PTL

\* Streams that the service has accepted and not ended, resolving their start or live, are at
\* most maxStreamsPerPrincipal.
StreamsLimited == Cardinality({k \in Conns : conn[k] # "free"}) <= MaxStreams

\* EventStreamService never holds more streams of a principal than maxStreamsPerPrincipal: the
\* check of open and the decrements of a failed start, an end and a disconnect stay paired.
THEOREM StreamsStayLimited == Spec => []StreamsLimited
<1>1. IInv => StreamsLimited
  <2> SUFFICES ASSUME IInv PROVE StreamsLimited
    OBVIOUS
  <2> DEFINE held == {k \in Conns : conn[k] # "free"}
  <2>1. Cardinality(held) \in Nat
    BY ConnsAssumption, FS_Subset, FS_CardinalityType
  <2> QED
    BY <2>1, NumbersAssumption DEF IInv, TypeOK, SlotsHeld, StreamsLimited
<1> QED
  BY <1>1, Invariance, PTL

-----------------------------------------------------------------------------
(* Progress: what a snapshot of a book is told as *)

\* Min is what its name says.
LEMMA MinIs ==
  ASSUME NEW S \in SUBSET Nat, S # {}
  PROVE  Min(S) \in S /\ \A t \in S : Min(S) <= t
  BY SmallestNumber DEF Min

\* The status of a stage's jobs is that of the first kind of job among them.
LEMMA DerivedStatus ==
  ASSUME NEW S \in SUBSET JobStatuses
  PROVE  JobDerivedStatus(S) =
           IF S \cap {"RUNNING", "RETRYING"} # {} THEN "RUNNING"
           ELSE IF S \cap {"CREATED", "QUEUED"} # {} THEN "QUEUED"
           ELSE IF "BLOCKED" \in S THEN "BLOCKED"
           ELSE IF "SUCCEEDED" \in S THEN "COMPLETED"
           ELSE IF S \cap {"FAILED", "DEAD_LETTERED"} # {} THEN "FAILED"
           ELSE IF S # {} THEN "CANCELLED" ELSE "NOT_STARTED"
<1> DEFINE rules == << <<{"RUNNING", "RETRYING"}, "RUNNING">>,
                    <<{"CREATED", "QUEUED"}, "QUEUED">>,
                    <<{"BLOCKED"}, "BLOCKED">>,
                    <<{"SUCCEEDED"}, "COMPLETED">>,
                    <<{"FAILED", "DEAD_LETTERED"}, "FAILED">>,
                    <<{"CANCELLED"}, "CANCELLED">> >>
        applying == {i \in DOMAIN rules : rules[i][1] \cap S # {}}
<1>1. JobDerivedStatus(S) = IF applying = {} THEN "NOT_STARTED" ELSE rules[Min(applying)][2]
  BY DEF JobDerivedStatus
<1>2. applying \in SUBSET (1..6)
  OBVIOUS
<1>3. /\ 1 \in applying <=> S \cap {"RUNNING", "RETRYING"} # {}
      /\ 2 \in applying <=> S \cap {"CREATED", "QUEUED"} # {}
      /\ 3 \in applying <=> "BLOCKED" \in S
      /\ 4 \in applying <=> "SUCCEEDED" \in S
      /\ 5 \in applying <=> S \cap {"FAILED", "DEAD_LETTERED"} # {}
      /\ 6 \in applying <=> "CANCELLED" \in S
  OBVIOUS
<1>4. /\ rules[1][2] = "RUNNING" /\ rules[2][2] = "QUEUED" /\ rules[3][2] = "BLOCKED"
      /\ rules[4][2] = "COMPLETED" /\ rules[5][2] = "FAILED" /\ rules[6][2] = "CANCELLED"
  OBVIOUS
<1> HIDE DEF rules, applying
<1>5. CASE applying = {}
  BY <1>1, <1>3, <1>5 DEF JobStatuses, Moving, Terminal
<1>6. CASE applying # {}
  <2>1. Min(applying) \in applying /\ \A t \in applying : Min(applying) <= t
    <3>1. applying \in SUBSET Nat
      BY <1>2
    <3> QED
      BY <3>1, <1>6, MinIs
  <2> DEFINE m == Min(applying)
  <2>2. m \in 1..6 /\ m \in applying /\ \A t \in 1..6 : t < m => t \notin applying
    <3>1. m \in applying /\ \A t \in applying : m <= t
      BY <2>1
    <3>2. m \in 1..6
      BY <3>1, <1>2
    <3> HIDE DEF m
    <3> QED
      BY <3>1, <3>2
  <2>3. JobDerivedStatus(S) = rules[m][2]
    BY <1>1, <1>6
  <2> HIDE DEF m
  <2>4. CASE m = 1
    BY <2>2, <2>3, <2>4, <1>3, <1>4
  <2>5. CASE m = 2
    BY <2>2, <2>3, <2>5, <1>3, <1>4
  <2>6. CASE m = 3
    BY <2>2, <2>3, <2>6, <1>3, <1>4
  <2>7. CASE m = 4
    BY <2>2, <2>3, <2>7, <1>3, <1>4
  <2>8. CASE m = 5
    BY <2>2, <2>3, <2>8, <1>3, <1>4
  <2>9. CASE m = 6
    BY <2>2, <2>3, <2>9, <1>3, <1>4
  <2> QED
    BY <2>2, <2>4, <2>5, <2>6, <2>7, <2>8, <2>9
<1> QED
  BY <1>5, <1>6

\* A job that moves is one that is shown at work and that can be cancelled.
LEMMA MovesIs ==
  ASSUME NEW S \in SUBSET JobStatuses
  PROVE  Moves(S) <=> S \cap Moving # {}
  BY DEF Moves, JobShownActive, IsCancellable, IsTerminalJobStatus, Moving, Terminal

\* Rounding is to the nearest number.
LEMMA RoundedIs ==
  ASSUME NEW a \in Nat, NEW b \in Nat, b > 0
  PROVE  /\ Rounded(a, b) \in Nat
         /\ 2 * b * Rounded(a, b) <= 2 * a + b /\ 2 * a + b < 2 * b * (Rounded(a, b) + 1)
<1>1. ASSUME NEW x \in Nat, NEW y \in Nat, y > 0
      PROVE  x \div y \in Nat /\ y * (x \div y) <= x /\ x < y * (x \div y + 1)
  BY <1>1
<1>2. 2 * a + b \in Nat /\ 2 * b \in Nat /\ 2 * b > 0
  OBVIOUS
<1> QED
  BY <1>1, <1>2 DEF Rounded

\* A share of a whole is shown as all of it exactly when too few to show are missing.
LEMMA RatioFull ==
  ASSUME NEW done \in Nat, NEW total \in Nat, total > 0, NEW version
  PROVE  /\ done < total =>
              (Ratio(done, total, version) = Full => TooFewToShow(total - done, total))
         /\ done >= total => Ratio(done, total, version) = Full
         /\ Ratio(done, total, version) \in Nat
<1> DEFINE m == Least(done, total)
           q == Rounded(Full * m, total)
<1>1. Ratio(done, total, version) = q
  BY DEF Ratio
<1>2. m \in Nat /\ m <= total /\ (done < total => m = done) /\ (done >= total => m = total)
  BY DEF Least
<1>3. Full * m \in Nat
  BY <1>2 DEF Full
<1> HIDE DEF m
<1>4. q \in Nat /\ 2 * total * q <= 2 * (Full * m) + total /\ 2 * (Full * m) + total < 2 * total * (q + 1)
  BY <1>3, RoundedIs
<1> HIDE DEF q
<1>5. ASSUME done < total, q = Full PROVE TooFewToShow(total - done, total)
  BY <1>2, <1>4, <1>5 DEF Full, TooFewToShow
<1>6. ASSUME done >= total PROVE q = Full
  <2>1. 2 * total * q <= 20001 * total /\ 20001 * total < 2 * total * (q + 1)
    BY <1>2, <1>4, <1>6 DEF Full
  <2>2. ASSUME q >= 10001 PROVE FALSE
    <3>1. total * q >= total * 10001
      BY <1>4, <2>2
    <3> QED
      BY <1>4, <2>1, <3>1
  <2>3. ASSUME q <= 9999 PROVE FALSE
    <3>1. total * (q + 1) <= total * 10000
      BY <1>4, <2>3
    <3> QED
      BY <1>4, <2>1, <3>1
  <2> QED
    BY <1>4, <2>2, <2>3 DEF Full
<1> QED
  BY <1>1, <1>4, <1>5, <1>6

\* What is shown as all of it lacks too few units to show, or none.
LEMMA FullOrFew ==
  ASSUME NEW done \in Nat, NEW total \in Nat, total > 0, NEW version, Ratio(done, total, version) = Full
  PROVE  TooFewToShow(total - done, total)
<1>1. CASE done < total
  BY <1>1, RatioFull
<1>2. CASE done >= total
  BY <1>2 DEF TooFewToShow, Full
<1> QED
  BY <1>1, <1>2

\* The stages of the pipeline.
LEMMA StageNames == ToSet(Stages) = {"ingestion", "analysis", "director", "tts", "assembly"}
  BY DEF ToSet, Stages

\* The fields of a snapshot.
LEMMA SnapshotFields ==
  ASSUME NEW cast, NEW facts \in Snapshots(cast)
  PROVE  /\ facts.jobs \in [{"ingestion", "analysis", "director", "tts", "assembly"} ->
                              SUBSET JobStatuses]
         /\ facts.encodes \in SUBSET JobStatuses
         /\ facts.version \in {"none", "READY", "PARTIAL_OCR", "NEEDS_REVIEW", "FAILED"}
         /\ facts.pagesOk \in Nat /\ facts.pagesReview \in Nat
         /\ facts.pagesTotal \in Nat \cup {-1}
         /\ facts.scenes \in Nat /\ facts.semantics \in Nat
         /\ facts.script \in {"none", "VALIDATED"} /\ facts.chunks \in Nat
         /\ facts.audioDone \in Nat /\ facts.chapters \in Nat /\ facts.assembled \in Nat
         /\ facts.elapsed \in Int /\ DOMAIN facts.voices = cast
  BY StageNames DEF Snapshots

\* A stage that its own rows do not decide shows what its jobs say, but for a narration whose
\* jobs are over before all of its chunks are rendered; one that is decided is not at work.
LEMMA StatusIs ==
  ASSUME NEW cast, NEW facts \in Snapshots(cast), NEW n \in ToSet(Stages)
  PROVE  LET status == ComputeStages(facts)[n].status
             derived == JobDerivedStatus(StageJobs(facts, n))
         IN /\ n \notin Decided(facts) =>
                 status = derived \/ (derived = "COMPLETED" /\ status = "PARTIAL")
            /\ n \in Decided(facts) =>
                 status \in {"COMPLETED", "PARTIAL_OCR", "NEEDS_REVIEW", "FAILED"}
            /\ n \in Decided(facts) /\ n # "ingestion" => status = "COMPLETED"
<1>1. CASE n = "ingestion"
  <2>1. ComputeStages(facts)[n].status = IngestionStatus(facts.jobs.ingestion, facts.version)
    BY <1>1 DEF ComputeStages, IngestionStage, Stage
  <2>2. n \in Decided(facts) <=> facts.version # "none"
    BY <1>1, StageNames DEF Decided
  <2> QED
    BY <1>1, <2>1, <2>2, SnapshotFields DEF IngestionStatus, StageJobs
<1>2. CASE n = "analysis"
  <2>1. ComputeStages(facts)[n].status =
          StageStatus(facts.jobs.analysis, facts.semantics > 0 /\ facts.semantics >= facts.scenes)
    BY <1>2 DEF ComputeStages, AnalysisStage, Stage
  <2>2. n \in Decided(facts) <=> facts.semantics > 0 /\ facts.semantics >= facts.scenes
    BY <1>2, StageNames DEF Decided
  <2> QED
    BY <1>2, <2>1, <2>2 DEF StageStatus, StageJobs
<1>3. CASE n = "director"
  <2>1. ComputeStages(facts)[n].status = DirectorStatus(facts.jobs.director, facts.script)
    BY <1>3 DEF ComputeStages, DirectorStage, Stage
  <2>2. n \in Decided(facts) <=> facts.script = "VALIDATED"
    BY <1>3, StageNames DEF Decided
  <2> QED
    BY <1>3, <2>1, <2>2, SnapshotFields DEF DirectorStatus, StageJobs
<1>4. CASE n = "tts"
  <2>1. ComputeStages(facts)[n].status =
          TtsStatus(facts.jobs.tts, facts.audioDone, Known(facts.chunks))
    BY <1>4 DEF ComputeStages, TtsStage, Stage
  <2>2. n \in Decided(facts) <=> facts.chunks > 0 /\ facts.audioDone >= facts.chunks
    BY <1>4, StageNames DEF Decided
  <2>3. /\ facts.audioDone \in Nat /\ facts.chunks \in Nat
    BY SnapshotFields
  <2> QED
    BY <1>4, <2>1, <2>2, <2>3 DEF TtsStatus, Known, StageJobs
<1>5. CASE n = "assembly"
  <2>1. ComputeStages(facts)[n].status =
          AssemblyStatus(StageJobs(facts, "assembly"), facts.assembled, Known(facts.chapters))
    BY <1>5 DEF ComputeStages, AssemblyStage, Stage
  <2>2. n \in Decided(facts) <=> facts.chapters > 0 /\ facts.assembled >= facts.chapters
    BY <1>5, StageNames DEF Decided
  <2>3. /\ facts.assembled \in Nat /\ facts.chapters \in Nat
        /\ StageJobs(facts, "assembly") \in SUBSET JobStatuses
    BY SnapshotFields DEF StageJobs
  <2>4. "BLOCKED" \in StageJobs(facts, "assembly") =>
          JobDerivedStatus(StageJobs(facts, "assembly")) # "NOT_STARTED"
    BY <2>3, DerivedStatus
  <2> QED
    BY <1>5, <2>1, <2>2, <2>3, <2>4 DEF AssemblyStatus, Known
<1> QED
  BY <1>1, <1>2, <1>3, <1>4, <1>5, StageNames

\* Two snapshots of the same rows, whatever jobs there are.
SameRows(a, b) ==
  /\ a.version = b.version /\ a.pagesOk = b.pagesOk
  /\ a.pagesReview = b.pagesReview /\ a.pagesTotal = b.pagesTotal
  /\ a.scenes = b.scenes /\ a.semantics = b.semantics
  /\ a.script = b.script /\ a.chunks = b.chunks
  /\ a.audioDone = b.audioDone /\ a.chapters = b.chapters
  /\ a.assembled = b.assembled

\* Only the jobs of a stage move its status; its measure is of the rows.
LEMMA ProgressOfRows ==
  ASSUME NEW facts, NEW n \in ToSet(Stages), NEW idle, SameRows(idle, facts)
  PROVE  ComputeStages(facts)[n].progress = ComputeStages(idle)[n].progress
<1>1. CASE n = "ingestion"
  BY <1>1 DEF SameRows, ComputeStages, IngestionStage, Stage
<1>2. CASE n = "analysis"
  BY <1>2 DEF SameRows, ComputeStages, AnalysisStage, Stage
<1>3. CASE n = "director"
  BY <1>3 DEF SameRows, ComputeStages, DirectorStage, Stage
<1>4. CASE n = "tts"
  BY <1>4 DEF SameRows, ComputeStages, TtsStage, Stage
<1>5. CASE n = "assembly"
  BY <1>5 DEF SameRows, ComputeStages, AssemblyStage, Stage
<1> QED
  BY <1>1, <1>2, <1>3, <1>4, <1>5, StageNames

\* A stage that is measured as complete is decided, or has too few units left to show.
LEMMA MeasuredComplete ==
  ASSUME NEW cast, NEW facts \in Snapshots(cast), NEW n \in ToSet(Stages),
         ComputeStages(facts)[n].progress = Full
  PROVE  \/ n \in Decided(facts)
         \/ TooFewToShow(ComputeStages(facts)[n].total - ComputeStages(facts)[n].completed,
                         ComputeStages(facts)[n].total)
<1> USE SnapshotFields
<1>1. CASE n = "ingestion"
  <2> DEFINE done == facts.pagesOk + facts.pagesReview
  <2>1. /\ ComputeStages(facts)[n].progress = Ratio(done, facts.pagesTotal, facts.version)
        /\ ComputeStages(facts)[n].completed = done
        /\ ComputeStages(facts)[n].total = facts.pagesTotal
    BY <1>1 DEF ComputeStages, IngestionStage, Stage
  <2>2. n \in Decided(facts) <=> facts.version # "none"
    BY <1>1, StageNames DEF Decided
  <2>3. CASE facts.pagesTotal \in Nat /\ facts.pagesTotal > 0
    BY <2>1, <2>3, FullOrFew
  <2>4. CASE facts.pagesTotal <= 0
    BY <2>1, <2>2, <2>4 DEF Ratio, Full
  <2> QED
    BY <2>3, <2>4
<1>2. CASE n = "analysis"
  <2> DEFINE done == Least(facts.semantics, facts.scenes)
  <2>1. /\ ComputeStages(facts)[n].progress = Ratio(done, facts.scenes, "none")
        /\ ComputeStages(facts)[n].completed = done
        /\ ComputeStages(facts)[n].total = Known(facts.scenes)
    BY <1>2 DEF ComputeStages, AnalysisStage, Stage
  <2>2. facts.scenes > 0
    BY <2>1 DEF Ratio, Full
  <2>3. done \in Nat
    BY DEF Least
  <2> QED
    BY <2>1, <2>2, <2>3, FullOrFew DEF Known
<1>3. CASE n = "director"
  <2>1. ComputeStages(facts)[n].progress =
          IF facts.script = "none" THEN -1 ELSE IF facts.script = "VALIDATED" THEN Full ELSE 0
    BY <1>3 DEF ComputeStages, DirectorStage, Stage
  <2> QED
    BY <1>3, <2>1, StageNames DEF Decided, Full
<1>4. CASE n = "tts"
  <2>1. /\ ComputeStages(facts)[n].progress = Ratio(facts.audioDone, facts.chunks, "none")
        /\ ComputeStages(facts)[n].completed = facts.audioDone
        /\ ComputeStages(facts)[n].total = Known(facts.chunks)
    BY <1>4 DEF ComputeStages, TtsStage, Stage
  <2>2. facts.chunks > 0
    BY <2>1 DEF Ratio, Full
  <2> QED
    BY <2>1, <2>2, FullOrFew DEF Known
<1>5. CASE n = "assembly"
  <2>1. /\ ComputeStages(facts)[n].progress = Ratio(facts.assembled, facts.chapters, "none")
        /\ ComputeStages(facts)[n].completed = facts.assembled
        /\ ComputeStages(facts)[n].total = Known(facts.chapters)
    BY <1>5 DEF ComputeStages, AssemblyStage, Stage
  <2>2. facts.chapters > 0
    BY <2>1 DEF Ratio, Full
  <2> QED
    BY <2>1, <2>2, FullOrFew DEF Known
<1> QED
  BY <1>1, <1>2, <1>3, <1>4, <1>5, StageNames

\* What one stage's line says, for every snapshot.
LEMMA StageIsTold ==
  ASSUME NEW cast, NEW facts \in Snapshots(cast), NEW n \in ToSet(Stages),
         NEW idle, SameRows(idle, facts), NEW entry,
         entry.running = (ComputeStages(facts)[n].status \in {"QUEUED", "RUNNING", "VALIDATING"})
  PROVE  StageTold(facts, n, ComputeStages(facts)[n], entry,
                   GetStageSummary(idle)[n])
<1> DEFINE stage == ComputeStages(facts)[n]
           S == StageJobs(facts, n)
<1>1. S \in SUBSET JobStatuses
  BY SnapshotFields, StageNames DEF StageJobs
<1>2. stage.progress = GetStageSummary(idle)[n].progress
  BY ProgressOfRows DEF GetStageSummary
<1>3. stage.progress = Full =>
        n \in Decided(facts) \/ TooFewToShow(stage.total - stage.completed, stage.total)
  BY MeasuredComplete
<1>4. ASSUME n \in Decided(facts) PROVE ~entry.running
  BY <1>4, StatusIs
<1>5. ASSUME n \notin Decided(facts)
      PROVE  /\ StageShownActive(stage.status) <=> Moves(S)
             /\ stage.status = "FAILED" => ~Moves(S) /\ "SUCCEEDED" \notin S
             /\ stage.status = "NOT_STARTED" => S = {}
  <2> DEFINE derived == JobDerivedStatus(S)
  <2>1. stage.status = derived \/ (derived = "COMPLETED" /\ stage.status = "PARTIAL")
    BY <1>5, StatusIs
  <2>2. Moves(S) <=> S \cap Moving # {}
    BY <1>1, MovesIs
  <2>3. /\ derived \in {"RUNNING", "QUEUED", "BLOCKED", "COMPLETED", "FAILED", "CANCELLED", "NOT_STARTED"}
        /\ derived \in {"RUNNING", "QUEUED"} <=> S \cap Moving # {}
        /\ derived = "FAILED" => "SUCCEEDED" \notin S
        /\ derived = "NOT_STARTED" => S = {}
    BY <1>1, DerivedStatus DEF Moving
  <2> HIDE DEF derived, stage, S
  <2>4. StageShownActive(stage.status) <=> stage.status \in {"QUEUED", "RUNNING"}
    BY <2>1, <2>3 DEF StageShownActive
  <2> QED
    BY <2>1, <2>2, <2>3, <2>4
<1> QED
  BY <1>2, <1>3, <1>4, <1>5 DEF StageTold

\* The assembly, project and progress pages tell one story of every snapshot.
LEMMA AssemblyIsTold ==
  ASSUME NEW cast, NEW facts \in Snapshots(cast)
  PROVE  AssemblyTold(facts, ComputeStages(facts).assembly, GetAssemblyState(facts),
                      GetAudiobookProject(facts))
<1> DEFINE stage == ComputeStages(facts).assembly
           page == GetAssemblyState(facts)
           project == GetAudiobookProject(facts)
           S == StageJobs(facts, "assembly")
           others == facts.encodes \cap (Moving \cup {"BLOCKED"}) # {}
<1> USE SnapshotFields
<1>1. S \in SUBSET JobStatuses
  BY DEF StageJobs
<1>2. /\ facts.chapters \in Nat /\ facts.assembled \in Nat
  OBVIOUS
<1>3. /\ page.status = DeriveGenerationStatus(facts.audiobook, facts.chapters, facts.assembled)
      /\ page.blocking = facts.chapters - Least(facts.assembled, facts.chapters)
      /\ page.working \/ others <=> S \cap (Moving \cup {"BLOCKED"}) # {}
  BY DEF GetAssemblyState, StageJobs
<1>4. /\ project.blocking = page.blocking
      /\ project.status = "COMPLETED" => page.status = "COMPLETED"
  BY DEF GetAssemblyState, GetAudiobookProject
<1>5. page.blocking = 0 <=> facts.assembled >= facts.chapters
  BY <1>2, <1>3 DEF Least
<1>6. LET status == ComputeStages(facts)["assembly"].status
          derived == JobDerivedStatus(StageJobs(facts, "assembly"))
      IN /\ "assembly" \notin Decided(facts) =>
                status = derived \/ (derived = "COMPLETED" /\ status = "PARTIAL")
         /\ "assembly" \in Decided(facts) => status = "COMPLETED"
  BY StatusIs, StageNames
<1>7. "assembly" \in Decided(facts) <=> facts.chapters > 0 /\ page.blocking = 0
  BY <1>2, <1>5, StageNames DEF Decided
<1>8. stage.progress = Ratio(facts.assembled, facts.chapters, "none")
  BY DEF ComputeStages, AssemblyStage, Stage
<1>9. stage.progress = Full => TooFewToShow(page.blocking, facts.chapters)
  <2>1. stage.progress = Full => facts.chapters > 0
    BY <1>2, <1>8 DEF Ratio, Full
  <2>2. ASSUME facts.chapters > 0, facts.assembled < facts.chapters
        PROVE  page.blocking = facts.chapters - facts.assembled
    BY <1>2, <1>3, <2>2 DEF Least
  <2>3. page.blocking = 0 => TooFewToShow(page.blocking, facts.chapters)
    BY <1>2 DEF TooFewToShow, Full
  <2> QED
    BY <1>2, <1>5, <1>8, <2>1, <2>2, <2>3, RatioFull
<1>10. /\ page.status = "COMPLETED" => facts.audiobook = "READY"
       /\ facts.chapters > 0 /\ page.blocking = 0 => page.status # "NOT_STARTED"
  BY <1>2, <1>3, <1>5 DEF DeriveGenerationStatus
<1>11. stage = ComputeStages(facts)["assembly"]
  OBVIOUS
<1> HIDE DEF stage, page, project, S, others
<1>12. /\ JobDerivedStatus(S) = "COMPLETED" =>
            "SUCCEEDED" \in S /\ S \cap (Moving \cup {"BLOCKED"}) = {}
       /\ JobDerivedStatus(S) \in {"RUNNING", "QUEUED", "BLOCKED"} => S \cap (Moving \cup {"BLOCKED"}) # {}
       /\ JobDerivedStatus(S) \in
            {"RUNNING", "QUEUED", "BLOCKED", "COMPLETED", "FAILED", "CANCELLED", "NOT_STARTED"}
  BY <1>1, DerivedStatus DEF Moving
<1>13. stage.status = "COMPLETED" =>
         \/ facts.chapters > 0 /\ page.blocking = 0
         \/ "SUCCEEDED" \in S /\ ~page.working
  BY <1>3, <1>6, <1>7, <1>11, <1>12 DEF S
<1>14. StageShownActive(stage.status) \/ stage.status = "BLOCKED" => page.working \/ others
  <2>1. StageShownActive(stage.status) => stage.status \in {"QUEUED", "RUNNING"}
    BY <1>6, <1>11, <1>12 DEF StageShownActive, S
  <2> QED
    BY <2>1, <1>3, <1>6, <1>7, <1>11, <1>12 DEF S
<1>15. facts.chapters > 0 /\ page.blocking = 0 => stage.status = "COMPLETED"
  BY <1>6, <1>7, <1>11 DEF S
<1> QED
  BY <1>4, <1>9, <1>10, <1>13, <1>14, <1>15 DEF AssemblyTold, stage, page, project, S, others

\* The overall figure is a mean: it lies among the figures it is the mean of.
LEMMA MeanIsAmong ==
  ASSUME NEW a \in Nat \cup {-1}, NEW b \in Nat \cup {-1}, NEW c \in Nat \cup {-1},
         NEW d \in Nat \cup {-1}, NEW e \in Nat \cup {-1},
         NEW k \in 1..5, NEW s \in Nat, NEW o \in Nat,
         2 * k * o <= 2 * s + k, 2 * s + k < 2 * k * (o + 1),
         LET known(p) == IF p = -1 THEN 0 ELSE 1
             share(p) == IF p = -1 THEN 0 ELSE p
         IN /\ k = known(a) + known(b) + known(c) + known(d) + known(e)
            /\ s = share(a) + share(b) + share(c) + share(d) + share(e)
  PROVE  /\ \E p \in {a, b, c, d, e} : p # -1 /\ p <= o
         /\ \E p \in {a, b, c, d, e} : p # -1 /\ o <= p
<1>1. CASE k = 1
  BY <1>1
<1>2. CASE k = 2
  BY <1>2
<1>3. CASE k = 3
  BY <1>3
<1>4. CASE k = 4
  BY <1>4
<1>5. CASE k = 5
  BY <1>5
<1> QED
  BY <1>1, <1>2, <1>3, <1>4, <1>5

\* A stage is measured by a number, or not at all.
LEMMA MeasuredBy ==
  ASSUME NEW cast, NEW facts \in Snapshots(cast), NEW n \in ToSet(Stages)
  PROVE  ComputeStages(facts)[n].progress \in Nat \cup {-1}
<1> USE SnapshotFields
<1>1. ASSUME NEW done \in Nat, NEW total \in Nat \cup {-1}, NEW version
      PROVE  Ratio(done, total, version) \in Nat \cup {-1}
  <2>1. CASE total \in Nat /\ total > 0
    BY <2>1, RatioFull
  <2>2. CASE total <= 0
    BY <2>2 DEF Ratio, Full
  <2> QED
    BY <2>1, <2>2
<1>2. CASE n = "ingestion"
  <2>1. facts.pagesOk + facts.pagesReview \in Nat
    OBVIOUS
  <2> QED
    BY <1>1, <1>2, <2>1 DEF ComputeStages, IngestionStage, Stage
<1>3. CASE n = "analysis"
  <2>1. Least(facts.semantics, facts.scenes) \in Nat
    BY DEF Least
  <2> QED
    BY <1>1, <1>3, <2>1 DEF ComputeStages, AnalysisStage, Stage
<1>4. CASE n = "director"
  BY <1>4 DEF ComputeStages, DirectorStage, Stage, Full
<1>5. CASE n = "tts"
  BY <1>1, <1>5 DEF ComputeStages, TtsStage, Stage
<1>6. CASE n = "assembly"
  BY <1>1, <1>6 DEF ComputeStages, AssemblyStage, Stage
<1> QED
  BY <1>2, <1>3, <1>4, <1>5, <1>6, StageNames

\* The overall progress lies among that of the stages that can be measured.
LEMMA OverallIsTold ==
  ASSUME NEW stages, \A n \in ToSet(Stages) : stages[n].progress \in Nat \cup {-1}
  PROVE  OverallTold(stages, Overall(stages))
<1> DEFINE a == stages["ingestion"].progress
           b == stages["analysis"].progress
           c == stages["director"].progress
           d == stages["tts"].progress
           e == stages["assembly"].progress
           known(p) == IF p = -1 THEN 0 ELSE 1
           share(p) == IF p = -1 THEN 0 ELSE p
           k == known(a) + known(b) + known(c) + known(d) + known(e)
           s == share(a) + share(b) + share(c) + share(d) + share(e)
           o == Rounded(s, k)
           measured == {n \in ToSet(Stages) : stages[n].progress # -1}
<1>1. Overall(stages) = IF k = 0 THEN -1 ELSE o
  BY DEF Overall
<1>2. /\ a \in Nat \cup {-1} /\ b \in Nat \cup {-1} /\ c \in Nat \cup {-1}
      /\ d \in Nat \cup {-1} /\ e \in Nat \cup {-1}
  BY StageNames
<1>3. /\ \A p : (\E n \in measured : stages[n].progress = p) <=> p \in {a, b, c, d, e} /\ p # -1
  BY StageNames
<1>4. k \in 0..5 /\ s \in Nat /\ (k = 0 <=> measured = {})
  <2>1. k = 0 <=> a = -1 /\ b = -1 /\ c = -1 /\ d = -1 /\ e = -1
    OBVIOUS
  <2>2. measured = {} <=> a = -1 /\ b = -1 /\ c = -1 /\ d = -1 /\ e = -1
    BY StageNames
  <2>3. k \in 0..5
    OBVIOUS
  <2>4. share(a) \in Nat /\ share(b) \in Nat /\ share(c) \in Nat /\ share(d) \in Nat /\ share(e) \in Nat
    BY <1>2
  <2>5. s \in Nat
    <3> HIDE DEF share, a, b, c, d, e
    <3> QED
      BY <2>4
  <2> QED
    BY <2>1, <2>2, <2>3, <2>5
<1>5. CASE k = 0
  BY <1>1, <1>4, <1>5 DEF OverallTold
<1>6. CASE k # 0
  <2>1. k \in 1..5 /\ k \in Nat /\ k > 0
    <3> HIDE DEF k
    <3> QED
      BY <1>4, <1>6
  <2>2. o \in Nat /\ 2 * k * o <= 2 * s + k /\ 2 * s + k < 2 * k * (o + 1)
    <3> HIDE DEF k, s
    <3> QED
      BY <1>4, <2>1, RoundedIs
  <2>3. k = known(a) + known(b) + known(c) + known(d) + known(e)
        /\ s = share(a) + share(b) + share(c) + share(d) + share(e)
    OBVIOUS
  <2> HIDE DEF k, s, o
  <2>4. /\ \E p \in {a, b, c, d, e} : p # -1 /\ p <= o
        /\ \E p \in {a, b, c, d, e} : p # -1 /\ o <= p
    <3> HIDE DEF a, b, c, d, e
    <3> QED
      BY <1>2, <1>4, <2>1, <2>2, <2>3, MeanIsAmong
  <2>5. Overall(stages) = o /\ o # -1
    BY <1>1, <1>6, <2>2
  <2>6. /\ \E n \in measured : stages[n].progress <= o
        /\ \E n \in measured : o <= stages[n].progress
    <3> HIDE DEF measured, a, b, c, d, e
    <3> QED
      BY <1>3, <2>4
  <2> QED
    BY <1>4, <1>6, <2>5, <2>6 DEF OverallTold
<1> QED
  BY <1>5, <1>6

\* The first stage named is one of them.
LEMMA FirstStageIs ==
  ASSUME NEW names \in SUBSET ToSet(Stages)
  PROVE  /\ names = {} => FirstStage(names) = "none"
         /\ names # {} => FirstStage(names) \in names
<1> DEFINE places == {i \in DOMAIN Stages : Stages[i] \in names}
<1>1. FirstStage(names) = IF places = {} THEN "none" ELSE Stages[Min(places)]
  BY DEF FirstStage
<1>2. places \in SUBSET Nat
  BY DEF Stages
<1>3. names = {} <=> places = {}
  BY DEF ToSet
<1>4. places # {} => Min(places) \in places
  BY <1>2, MinIs
<1> QED
  BY <1>1, <1>3, <1>4

\* What the studio is told agrees with the rows and jobs of every snapshot of a book: of any
\* numbers of pages, scenes, chunks and chapters, any jobs and any cast.
THEOREM SnapshotIsTold ==
  ASSUME NEW cast, NEW facts \in Snapshots(cast)
  PROVE  FactsTold(facts, GetBookProgress(facts))
<1> DEFINE told == GetBookProgress(facts)
           stages == ComputeStages(facts)
           idle == GetStageSummary([facts EXCEPT !.jobs = NoFacts.jobs, !.encodes = {}])
           casting == IF CastingReady(facts.voices) THEN "ready" ELSE "incomplete"
           plan == BuildGenerationPlan(told.stages, facts.script, casting)
<1>1. /\ told.stages = stages /\ told.estimate = Estimate(facts, stages)
      /\ told.overall = Overall(stages)
  BY DEF GetBookProgress, BookProgress
<1>2. AssemblyTold(facts, stages.assembly, GetAssemblyState(facts), GetAudiobookProject(facts))
  BY AssemblyIsTold
<1> HIDE DEF told
<1>3. ASSUME NEW n \in ToSet(Stages)
      PROVE  /\ plan.entries[n].running =
                    (stages[n].status \in {"QUEUED", "RUNNING", "VALIDATING"})
             /\ plan.entries[n].complete = (stages[n].status = "COMPLETED")
             /\ plan.entries[n].blocked = BlockedReasonFor(n, stages, facts.script, casting)
  BY <1>1 DEF BuildGenerationPlan
<1>4. plan.next = FirstStage({n \in ToSet(Stages) :
                      ~plan.entries[n].complete /\ ~plan.entries[n].running})
  BY DEF BuildGenerationPlan
<1> HIDE DEF plan
<1>5. ASSUME NEW n \in ToSet(Stages)
      PROVE  StageTold(facts, n, stages[n], plan.entries[n], idle[n])
  <2> DEFINE still == [facts EXCEPT !.jobs = NoFacts.jobs, !.encodes = {}]
             entry == plan.entries[n]
  <2>1. entry.running = (stages[n].status \in {"QUEUED", "RUNNING", "VALIDATING"})
    BY <1>3
  <2>2. SameRows(still, facts)
    BY DEF SameRows, Snapshots
  <2> HIDE DEF still, entry
  <2>3. StageTold(facts, n, stages[n], entry, GetStageSummary(still)[n])
    BY <2>1, <2>2, StageIsTold
  <2> QED
    BY <2>3 DEF still, entry
<1>6. plan.next # "none" =>
          ~plan.entries[plan.next].running /\ ~plan.entries[plan.next].complete
  <2> DEFINE open == {n \in ToSet(Stages) : ~plan.entries[n].complete /\ ~plan.entries[n].running}
  <2>1. open \in SUBSET ToSet(Stages) /\ plan.next = FirstStage(open)
    BY <1>4
  <2>2. plan.next # "none" => plan.next \in open
    <3> HIDE DEF open
    <3> QED
      BY <2>1, FirstStageIs
  <2> QED
    BY <2>2
<1>7. plan.entries["tts"].blocked = "none" =>
          \A c \in DOMAIN facts.voices : facts.voices[c] \in {"APPROVED", "LOCKED"}
  <2>1. plan.entries["tts"].blocked = BlockedReasonFor("tts", stages, facts.script, casting)
    BY <1>3, StageNames
  <2>2. BlockedReasonFor("tts", stages, facts.script, casting) = "none" => casting = "ready"
    BY SnapshotFields DEF BlockedReasonFor
  <2>3. casting = "ready" =>
            \A c \in DOMAIN facts.voices : CastingBlock(facts.voices[c]) = "none"
    BY DEF CastingReady
  <2>4. ASSUME NEW voice, CastingBlock(voice) = "none" PROVE voice \in {"APPROVED", "LOCKED"}
    BY <2>4 DEF CastingBlock
  <2> QED
    BY <2>1, <2>2, <2>3, <2>4
<1>8. told.estimate # -1 => \E n \in ToSet(Stages) : Moves(StageJobs(facts, n))
  <2> DEFINE busy == {n \in ToSet(Stages) : stages[n].status \in {"RUNNING", "QUEUED"}}
  <2>1. told.estimate # -1 => FirstStage(busy) # "none"
    BY <1>1 DEF Estimate
  <2>2. busy \in SUBSET ToSet(Stages)
    OBVIOUS
  <2>3. FirstStage(busy) # "none" => FirstStage(busy) \in busy
    <3> HIDE DEF busy
    <3> QED
      BY <2>2, FirstStageIs
  <2>4. ASSUME NEW n \in busy PROVE Moves(StageJobs(facts, n))
    <3>1. n \notin Decided(facts)
      BY StatusIs
    <3>2. JobDerivedStatus(StageJobs(facts, n)) \in {"RUNNING", "QUEUED"}
      BY <3>1, StatusIs
    <3>3. StageJobs(facts, n) \in SUBSET JobStatuses
      BY SnapshotFields, StageNames DEF StageJobs
    <3>4. StageJobs(facts, n) \cap Moving # {}
      BY <3>2, <3>3, DerivedStatus DEF Moving
    <3> QED
      BY <3>3, <3>4, MovesIs
  <2> QED
    BY <2>1, <2>2, <2>3, <2>4
<1>9. GetIngestionStatus(facts) = "COMPLETED" => stages.ingestion.status = "COMPLETED"
  <2>1. GetIngestionStatus(facts) = "COMPLETED" => facts.version = "READY"
    BY SnapshotFields DEF GetIngestionStatus, DeriveIngestionState
  <2>2. stages.ingestion.status = IngestionStatus(facts.jobs.ingestion, facts.version)
    BY DEF ComputeStages, IngestionStage, Stage
  <2> QED
    BY <2>1, <2>2 DEF IngestionStatus
<1>10. BookShownActive(facts.book) =>
           NextActionForBook(facts.book, FALSE, TRUE) \in {"overview", "generation"}
  BY DEF BookShownActive, NextActionForBook
<1>12. OverallTold(told.stages, told.overall)
  BY <1>1, MeasuredBy, OverallIsTold
<1>11. PlanTold(facts, told, idle, plan)
  BY <1>1, <1>2, <1>5, <1>6, <1>7, <1>8, <1>9, <1>10, <1>12 DEF PlanTold
<1> QED
  BY <1>11 DEF FactsTold, told, plan

-----------------------------------------------------------------------------
(* Sound and requests *)

\* Max is what its name says.
LEMMA MaxIs ==
  ASSUME NEW n \in Nat, NEW S \in SUBSET (0..n), S # {}
  PROVE  Max(S) \in S /\ \A t \in S : t <= Max(S)
<1>1. PICK m \in S : \A k \in S : m >= k
  BY GreatestNumber
<1>2. Max(S) \in S /\ \A k \in S : Max(S) >= k
  BY <1>1 DEF Max
<1> QED
  BY <1>2

\* A longer time is not rounded to a shorter one.
LEMMA ToMsMonotone ==
  ASSUME NEW a \in Nat, NEW b \in Nat, a <= b
  PROVE  ToMs(a) \in Nat /\ ToMs(b) \in Nat /\ ToMs(a) <= ToMs(b)
<1> DEFINE d == 2 * FramesPerMs
           x == 2 * a + FramesPerMs
           y == 2 * b + FramesPerMs
<1>1. d \in Nat /\ d > 0 /\ x \in Nat /\ y \in Nat /\ x <= y
  BY FramesPerMsOdd
<1>2. ToMs(a) = x \div d /\ ToMs(b) = y \div d
  BY DEF ToMs
<1> HIDE DEF d, x, y
<1>3. ASSUME NEW z \in Nat
      PROVE  z \div d \in Nat /\ d * (z \div d) <= z /\ z < d * (z \div d) + d
  BY <1>1
<1>4. x \div d <= y \div d
  <2> DEFINE p == x \div d
             q == y \div d
  <2>1. p \in Nat /\ q \in Nat /\ d * p <= x /\ y < d * q + d
    BY <1>1, <1>3
  <2> HIDE DEF p, q
  <2>2. ASSUME p >= q + 1 PROVE FALSE
    <3>1. d * p >= d * (q + 1)
      BY <1>1, <2>1, <2>2
    <3>2. d * (q + 1) = d * q + d
      BY <1>1, <2>1
    <3> QED
      BY <1>1, <2>1, <3>1, <3>2
  <2>3. p <= q
    BY <2>1, <2>2
  <2> QED
    BY <2>3 DEF p, q
<1> QED
  BY <1>1, <1>2, <1>3, <1>4

\* A recursion through the numbers up to N has a result.
Recursion(N, S, initial, g) ==
    \E f \in [0..N -> S] : f[0] = initial /\ \A n \in 1..N : f[n] = g[n][f[n - 1]]

LEMMA RecursionRuns ==
  ASSUME NEW N \in Nat, NEW S, NEW initial \in S, NEW g \in [1..N -> [S -> S]]
  PROVE  Recursion(N, S, initial, g)
<1> DEFINE Runs(f, m) == f[0] = initial /\ \A n \in 1..m : f[n] = g[n][f[n - 1]]
           wrong == {m \in 0..N : ~\E f \in [0..m -> S] : Runs(f, m)}
<1>1. ASSUME NEW m \in wrong, \A t \in wrong : m <= t PROVE FALSE
  <2>1. m \in 0..N /\ ~\E f \in [0..m -> S] : Runs(f, m)
    OBVIOUS
  <2>2. m # 0
    <3>1. [n \in 0..0 |-> initial] \in [0..0 -> S] /\ Runs([n \in 0..0 |-> initial], 0)
      OBVIOUS
    <3> HIDE DEF Runs
    <3> QED
      BY <2>1, <3>1
  <2>3. m \in 1..N /\ m - 1 \in 0..N /\ m \in Nat /\ ~(m <= m - 1)
    BY <2>1, <2>2
  <2>4. PICK f \in [0..(m - 1) -> S] : Runs(f, m - 1)
    <3>1. m - 1 \notin wrong
      <4> HIDE DEF wrong
      <4> QED
        BY <1>1, <2>3
    <3> HIDE DEF Runs
    <3> QED
      BY <2>3, <3>1
  <2> DEFINE last == g[m][f[m - 1]]
             h == [n \in 0..m |-> IF n < m THEN f[n] ELSE last]
  <2>5. last \in S
    <3>1. m - 1 \in 0..(m - 1)
      BY <2>3
    <3> QED
      BY <2>3, <3>1
  <2> HIDE DEF last
  <2>6. h \in [0..m -> S]
    BY <2>3, <2>5
  <2>7. /\ h[0] = f[0] /\ h[m] = last
        /\ \A n \in 1..(m - 1) : h[n] = f[n] /\ h[n - 1] = f[n - 1]
        /\ h[m - 1] = f[m - 1]
    BY <2>3
  <2> HIDE DEF h
  <2>8. ASSUME NEW n \in 1..m PROVE h[n] = g[n][h[n - 1]]
    <3>1. CASE n = m
      BY <2>7, <3>1 DEF last
    <3>2. CASE n # m
      <4>1. n \in 1..(m - 1)
        BY <2>3, <3>2
      <4> QED
        BY <2>4, <2>7, <4>1
    <3> QED
      BY <3>1, <3>2
  <2>9. Runs(h, m)
    BY <2>4, <2>7, <2>8
  <2> HIDE DEF Runs
  <2> QED
    BY <2>1, <2>6, <2>9
<1>2. wrong \in SUBSET Nat
  OBVIOUS
<1>3. wrong = {}
  <2> HIDE DEF wrong
  <2> QED
    BY <1>1, <1>2, SmallestNumber
<1> HIDE DEF Runs
<1>4. \E f \in [0..N -> S] : Runs(f, N)
  BY <1>3
<1> QED
  BY <1>4 DEF Runs, Recursion

\* What Sums promises.
LEMMA SumsAre ==
  ASSUME NEW numbers \in Seq(Int)
  PROVE  /\ Sums(numbers) \in [0..Len(numbers) -> Int] /\ Sums(numbers)[0] = 0
         /\ \A k \in 1..Len(numbers) : Sums(numbers)[k] = Sums(numbers)[k - 1] + numbers[k]
<1> DEFINE N == Len(numbers)
           IsSum(f) == f = [k \in 0..N |-> IF k = 0 THEN 0 ELSE f[k - 1] + numbers[k]]
           sum == CHOOSE f : IsSum(f)
           g == [k \in 1..N |-> [x \in Int |-> x + numbers[k]]]
<1>1. Sums(numbers) = sum
  BY DEF Sums
<1>2. N \in Nat /\ \A k \in 1..N : numbers[k] \in Int
  OBVIOUS
<1>3. g \in [1..N -> [Int -> Int]] /\ \A k \in 1..N, x \in Int : g[k][x] = x + numbers[k]
  BY <1>2
<1> HIDE DEF g, N
<1>4. PICK f \in [0..N -> Int] : f[0] = 0 /\ \A n \in 1..N : f[n] = g[n][f[n - 1]]
  <2> DEFINE S == Int
             zero == 0
  <2>1. zero \in S /\ g \in [1..N -> [S -> S]]
    BY <1>3
  <2> HIDE DEF S, zero
  <2>2. Recursion(N, S, zero, g)
    BY <1>2, <2>1, RecursionRuns
  <2> QED
    BY <2>2 DEF Recursion, S, zero
<1>5. ASSUME NEW k \in 0..N PROVE f[k] = IF k = 0 THEN 0 ELSE f[k - 1] + numbers[k]
  <2>1. CASE k # 0
    <3>1. k \in 1..N /\ k - 1 \in 0..N
      BY <1>2, <2>1
    <3> QED
      BY <1>3, <1>4, <2>1, <3>1
  <2> QED
    BY <1>4, <2>1
<1>6. IsSum(f)
  BY <1>4, <1>5
<1>7. IsSum(sum)
  <2> HIDE DEF IsSum
  <2> QED
    BY <1>6, Zenon
<1> HIDE DEF sum
<1>8. sum[0] = 0 /\ \A k \in 1..N : sum[k] = sum[k - 1] + numbers[k]
  BY <1>2, <1>7
<1>9. DOMAIN sum = 0..N
  BY <1>7
<1> HIDE DEF IsSum
<1>10. \A k \in 0..N : sum[k] \in Int
  <2> DEFINE wrong == {k \in 0..N : sum[k] \notin Int}
  <2>1. ASSUME NEW m \in wrong, \A t \in wrong : m <= t PROVE FALSE
    <3>1. m \in 1..N /\ m - 1 \in 0..N /\ ~(m <= m - 1) /\ sum[m] \notin Int
      BY <1>2, <1>8
    <3>2. m - 1 \notin wrong
      <4> HIDE DEF wrong
      <4> QED
        BY <2>1, <3>1
    <3>3. sum[m - 1] \in Int
      BY <3>1, <3>2
    <3>4. sum[m] = sum[m - 1] + numbers[m] /\ numbers[m] \in Int
      BY <1>2, <1>8, <3>1
    <3> QED
      BY <3>1, <3>3, <3>4
  <2>2. wrong \in SUBSET Nat
    BY <1>2
  <2>3. wrong = {}
    <3> HIDE DEF wrong
    <3> QED
      BY <2>1, <2>2, SmallestNumber
  <2> QED
    BY <2>3
<1>11. sum \in [0..N -> Int]
  <2>1. sum = [k \in 0..N |-> sum[k]]
    BY <1>7 DEF IsSum
  <2> QED
    BY <1>10, <2>1
<1> QED
  BY <1>1, <1>8, <1>11 DEF N

\* Sums of natural numbers are natural numbers.
LEMMA NaturalSums ==
  ASSUME NEW numbers \in Seq(Nat)
  PROVE  \A k \in 0..Len(numbers) : Sums(numbers)[k] \in Nat
<1> DEFINE sum == Sums(numbers)
           N == Len(numbers)
           wrong == {k \in 0..N : sum[k] \notin Nat}
<1>0. numbers \in Seq(Int) /\ N \in Nat /\ \A k \in 1..N : numbers[k] \in Nat
  OBVIOUS
<1>1. /\ sum \in [0..N -> Int] /\ sum[0] = 0
      /\ \A k \in 1..N : sum[k] = sum[k - 1] + numbers[k]
  BY <1>0, SumsAre
<1> HIDE DEF sum, N
<1>2. ASSUME NEW m \in wrong, \A t \in wrong : m <= t PROVE FALSE
  <2>1. m \in 1..N /\ m - 1 \in 0..N /\ ~(m <= m - 1) /\ sum[m] \notin Nat
    BY <1>0, <1>1
  <2>2. m - 1 \notin wrong
    <3> HIDE DEF wrong
    <3> QED
      BY <1>2, <2>1
  <2>3. sum[m - 1] \in Nat
    BY <2>1, <2>2
  <2>4. sum[m] = sum[m - 1] + numbers[m] /\ numbers[m] \in Nat
    BY <1>0, <1>1, <2>1
  <2> QED
    BY <2>1, <2>3, <2>4
<1>3. wrong \in SUBSET Nat
  BY <1>0
<1>4. wrong = {}
  <2> HIDE DEF wrong
  <2> QED
    BY <1>2, <1>3, SmallestNumber
<1> QED
  BY <1>4 DEF sum, N

\* Its lead, its tail and its longest gap are numbers.
LEMMA SpansAreTimes ==
  ASSUME NEW magnitudes \in Seq(Nat)
  PROVE  LET spans == SilenceSpans(magnitudes)
         IN spans.leading \in Nat /\ spans.trailing \in Nat /\ spans.internal \in Nat
<1> DEFINE total == Len(magnitudes)
           sounding == {k \in 1..total : magnitudes[k] >= SilenceFloor}
           next(k) == {l \in sounding : k < l /\ \A m \in (k + 1)..(l - 1) : m \notin sounding}
           gaps == UNION {{l - k - 1 : l \in next(k)} : k \in sounding}
           spans == SilenceSpans(magnitudes)
<1>1. total \in Nat
  OBVIOUS
<1>2. ASSUME NEW t \in Nat PROVE ToMs(t) \in Nat
  <2>1. t <= t
    OBVIOUS
  <2> QED
    BY <2>1, ToMsMonotone
<1>3. CASE sounding = {}
  <2>1. spans = [leading |-> ToMs(total), trailing |-> 0, internal |-> 0]
    BY <1>3 DEF SilenceSpans
  <2> QED
    BY <1>1, <1>2, <2>1
<1>4. CASE sounding # {}
  <2>1. /\ spans.leading = ToMs(Min(sounding) - 1)
        /\ spans.trailing = ToMs(total - Max(sounding))
        /\ spans.internal = ToMs(Max(gaps \cup {0}))
    BY <1>4 DEF SilenceSpans
  <2>2. sounding \in SUBSET (0..total) /\ sounding \in SUBSET Nat
    OBVIOUS
  <2>3. gaps \cup {0} \in SUBSET (0..total) /\ gaps \cup {0} # {}
    <3>1. ASSUME NEW p \in sounding, NEW q \in next(p) PROVE q - p - 1 \in 0..total
      BY <1>1
    <3> QED
      BY <1>1, <3>1
  <2> HIDE DEF sounding, gaps, spans
  <2>4. Min(sounding) \in sounding /\ Max(sounding) \in sounding
    BY <1>1, <1>4, <2>2, MinIs, MaxIs
  <2>5. Max(gaps \cup {0}) \in 0..total
    BY <1>1, <2>3, MaxIs
  <2>6. Min(sounding) - 1 \in Nat /\ total - Max(sounding) \in Nat /\ Max(gaps \cup {0}) \in Nat
    BY <1>1, <2>4, <2>5 DEF sounding
  <2> QED
    BY <1>2, <2>1, <2>6 DEF spans
<1> QED
  BY <1>3, <1>4

\* A silence of the file is part of its lead, of its tail or of a gap inside.
LEMMA SilenceIsFound ==
  ASSUME NEW magnitudes \in Seq(Nat), NEW i \in 1..Len(magnitudes), NEW j \in 1..Len(magnitudes),
         i <= j, \A k \in i..j : magnitudes[k] < SilenceFloor
  PROVE  LET spans == SilenceSpans(magnitudes)
         IN \/ ToMs(j - i + 1) <= spans.leading
            \/ ToMs(j - i + 1) <= spans.trailing
            \/ ToMs(j - i + 1) <= spans.internal
<1> DEFINE total == Len(magnitudes)
           sounding == {k \in 1..total : magnitudes[k] >= SilenceFloor}
           next(k) == {l \in sounding : k < l /\ \A m \in (k + 1)..(l - 1) : m \notin sounding}
           gaps == UNION {{l - k - 1 : l \in next(k)} : k \in sounding}
           spans == SilenceSpans(magnitudes)
<1>1. total \in Nat /\ i \in Nat /\ j \in Nat /\ j - i + 1 \in Nat /\ j - i + 1 <= total
  OBVIOUS
<1>2. \A k \in i..j : k \notin sounding
  BY DEF SilenceFloor
<1>3. CASE sounding = {}
  <2>1. spans.leading = ToMs(total)
    BY <1>3 DEF SilenceSpans
  <2> QED
    BY <1>1, <2>1, ToMsMonotone
<1>4. CASE sounding # {}
  <2>1. /\ spans.leading = ToMs(Min(sounding) - 1)
        /\ spans.trailing = ToMs(total - Max(sounding))
        /\ spans.internal = ToMs(Max(gaps \cup {0}))
    BY <1>4 DEF SilenceSpans
  <2>2. sounding \in SUBSET (0..total) /\ sounding \in SUBSET Nat
    OBVIOUS
  <2> HIDE DEF sounding, next, gaps, spans
  <2>3. Min(sounding) \in sounding /\ \A t \in sounding : Min(sounding) <= t
    BY <1>4, <2>2, MinIs
  <2>4. Max(sounding) \in sounding /\ \A t \in sounding : t <= Max(sounding)
    BY <1>1, <1>4, <2>2, MaxIs
  <2>5. Min(sounding) \in 1..total /\ Max(sounding) \in 1..total
    BY <2>3, <2>4 DEF sounding
  <2>6. CASE j < Min(sounding)
    <3>1. j - i + 1 <= Min(sounding) - 1 /\ Min(sounding) - 1 \in Nat
      BY <1>1, <2>5, <2>6
    <3> QED
      BY <1>1, <2>1, <3>1, ToMsMonotone DEF spans
  <2>7. CASE i > Max(sounding)
    <3>1. j - i + 1 <= total - Max(sounding) /\ total - Max(sounding) \in Nat
      BY <1>1, <2>5, <2>7
    <3> QED
      BY <1>1, <2>1, <3>1, ToMsMonotone DEF spans
  <2>8. CASE Min(sounding) <= j /\ i <= Max(sounding)
    <3>1. Min(sounding) < i /\ j < Max(sounding)
      BY <1>1, <1>2, <2>3, <2>4, <2>5, <2>8
    <3> DEFINE before == {k \in sounding : k < i}
               after == {k \in sounding : k > j}
    <3>2. /\ before # {} /\ before \in SUBSET (0..total)
          /\ after # {} /\ after \in SUBSET Nat
      BY <2>2, <2>3, <2>4, <3>1
    <3> HIDE DEF before, after
    <3>3. PICK k \in before : \A t \in before : t <= k
      BY <1>1, <3>2, GreatestNumber
    <3>4. PICK l \in after : \A t \in after : l <= t
      BY <3>2, SmallestNumber
    <3>5. k \in sounding /\ l \in sounding /\ k < i /\ l > j /\ k \in 1..total /\ l \in 1..total
      BY <3>3, <3>4 DEF before, after, sounding
    <3>6. ASSUME NEW m \in (k + 1)..(l - 1) PROVE m \notin sounding
      <4>1. CASE m < i
        BY <1>1, <3>3, <3>5, <4>1 DEF before
      <4>2. CASE m > j
        BY <1>1, <3>4, <3>5, <4>2 DEF after
      <4>3. CASE m \in i..j
        BY <1>2, <4>3
      <4> QED
        BY <1>1, <3>5, <4>1, <4>2, <4>3
    <3>7. l \in next(k)
      BY <1>1, <3>5, <3>6 DEF next
    <3>8. l - k - 1 \in gaps
      BY <3>5, <3>7 DEF gaps
    <3>9. gaps \cup {0} \in SUBSET (0..total) /\ gaps \cup {0} # {}
      <4>1. ASSUME NEW g \in gaps PROVE g \in 0..total
        <5>0. PICK p \in sounding : \E q \in next(p) : g = q - p - 1
          BY DEF gaps
        <5>1. PICK q \in next(p) : g = q - p - 1
          BY <5>0
        <5>2. q \in sounding /\ p < q
          BY <5>1 DEF next
        <5> QED
          BY <1>1, <5>1, <5>2 DEF sounding
      <4> QED
        BY <1>1, <4>1
    <3>10. l - k - 1 <= Max(gaps \cup {0}) /\ Max(gaps \cup {0}) \in 0..total
      BY <1>1, <3>8, <3>9, MaxIs
    <3>11. j - i + 1 <= Max(gaps \cup {0}) /\ Max(gaps \cup {0}) \in Nat
      BY <1>1, <3>5, <3>10
    <3> QED
      BY <1>1, <2>1, <3>11, ToMsMonotone DEF spans
  <2> QED
    BY <1>1, <2>5, <2>6, <2>7, <2>8
<1> QED
  BY <1>3, <1>4

\* Silence has no power.
LEMMA SilenceHasNoPower ==
  ASSUME NEW samples \in Seq(Int), \A k \in 1..Len(samples) : samples[k] = 0
  PROVE  Power(samples) = 0
<1> DEFINE N == Len(samples)
           squares == [k \in DOMAIN samples |-> samples[k] * samples[k]]
           sum == Sums(squares)
<1>0. N \in Nat /\ DOMAIN samples = 1..N /\ \A k \in 1..N : samples[k] * samples[k] = 0
  <2>1. ASSUME NEW k \in 1..N PROVE samples[k] * samples[k] = 0
    <3>1. samples[k] = 0
      OBVIOUS
    <3> QED
      BY <3>1
  <2> QED
    BY <2>1
<1>1. N \in Nat /\ squares \in Seq(Int) /\ Len(squares) = N /\ \A k \in 1..N : squares[k] = 0
  <2> HIDE DEF N
  <2>1. squares = [k \in 1..N |-> 0]
    BY <1>0
  <2> QED
    BY <1>0, <2>1
<1>2. Power(samples) = sum[N]
  BY <1>1 DEF Power, Total
<1> HIDE DEF squares, N
<1>3. sum[0] = 0 /\ \A k \in 1..N : sum[k] = sum[k - 1] + squares[k]
  BY <1>1, SumsAre
<1> HIDE DEF sum
<1> DEFINE wrong == {k \in 0..N : sum[k] # 0}
<1>4. ASSUME NEW m \in wrong, \A t \in wrong : m <= t PROVE FALSE
  <2>1. m \in 1..N /\ m - 1 \in 0..N /\ ~(m <= m - 1) /\ sum[m] # 0
    BY <1>1, <1>3
  <2>2. m - 1 \notin wrong
    <3> HIDE DEF wrong
    <3> QED
      BY <1>4, <2>1
  <2>3. sum[m - 1] = 0 /\ squares[m] = 0
    BY <1>1, <2>1, <2>2
  <2>4. sum[m] = 0 + 0
    BY <1>3, <2>1, <2>3
  <2> QED
    BY <2>1, <2>4
<1>5. wrong \in SUBSET Nat
  BY <1>1
<1>6. wrong = {}
  <2> HIDE DEF wrong
  <2> QED
    BY <1>4, <1>5, SmallestNumber
<1> QED
  BY <1>1, <1>2, <1>6

\* One channel: a sample is a frame.
LEMMA OneChannel ==
  ASSUME NEW m \in Nat
  PROVE  /\ m * 1 = m /\ m \div 1 = m /\ m % 1 = 0
  OBVIOUS

\* The frames of a mono file are its samples, clipped at full scale.
LEMMA MonoFile ==
  ASSUME NEW samples \in Seq(Nat), samples # <<>>, NEW format, format.channels = 1
  PROVE  LET wav == EncodeWav(samples, format)
             level == [k \in 1..Len(samples) |-> IF samples[k] > FullScale THEN FullScale ELSE samples[k]]
         IN /\ wav.decodable /\ wav.format = format /\ Len(wav.frames) = Len(samples)
            /\ FrameMagnitudes(wav.frames) = level
            /\ Interleaved(wav.frames, 1) = level
            /\ level \in Seq(Nat)
<1> DEFINE n == Len(samples)
           level == [k \in 1..n |-> IF samples[k] > FullScale THEN FullScale ELSE samples[k]]
           wav == EncodeWav(samples, format)
           frames == [f \in 1..n |-> [c \in 1..1 |-> level[f]]]
<1>1. n \in Nat /\ n > 0 /\ level \in Seq(Nat) /\ Len(level) = n
  BY DEF FullScale
<1>2. NotANumber \notin ToSet(samples)
  BY DEF NotANumber, ToSet
<1>3. n \div 1 = n /\ n * 1 = n
  BY <1>1, OneChannel
<1>4. ASSUME NEW f \in 1..n, NEW c \in 1..1
      PROVE  Min({FullScale, samples[(f - 1) * 1 + c]}) = level[f]
  <2>1. (f - 1) * 1 + c = f /\ samples[f] \in Nat /\ FullScale \in Nat
    <3>1. f - 1 \in Nat /\ c = 1
      BY <1>1
    <3>2. (f - 1) * 1 = f - 1
      BY <3>1, OneChannel
    <3> QED
      BY <3>1, <3>2 DEF FullScale
  <2>2. LET S == {FullScale, samples[f]} IN Min(S) \in S /\ \A t \in S : Min(S) <= t
    BY <2>1, MinIs
  <2>3. level[f] = IF samples[f] > FullScale THEN FullScale ELSE samples[f]
    OBVIOUS
  <2> DEFINE x == samples[f]
             least == Min({FullScale, x})
  <2>4. /\ least \in {FullScale, x} /\ least <= FullScale /\ least <= x
        /\ level[f] = IF x > FullScale THEN FullScale ELSE x
    BY <2>2, <2>3
  <2>5. Min({FullScale, samples[(f - 1) * 1 + c]}) = least
    BY <2>1
  <2> HIDE DEF level, least
  <2>6. least = level[f]
    BY <2>1, <2>4
  <2> QED
    BY <2>5, <2>6
<1>5. wav = [decodable |-> TRUE, format |-> format, frames |-> frames]
  <2>1. wav = [decodable |-> TRUE, format |-> format,
             frames |-> [f \in 1..(n \div 1) |-> [c \in 1..1 |-> Min({FullScale, samples[(f - 1) * 1 + c]})]]]
    BY <1>1, <1>2 DEF EncodeWav
  <2> QED
    BY <1>3, <1>4, <2>1
<1>6. frames \in Seq(Seq(Nat)) /\ Len(frames) = n /\ DOMAIN frames = 1..n
  BY <1>1
<1>7. FrameMagnitudes(frames) = level
  <2>1. ASSUME NEW f \in 1..n PROVE Max(ToSet(frames[f])) = level[f]
    <3>1. ToSet(frames[f]) = {level[f]}
      BY DEF ToSet
    <3>2. level[f] \in Nat
      BY <1>1
    <3>3. Max({level[f]}) \in {level[f]}
      <4> HIDE DEF level
      <4>1. {level[f]} \in SUBSET (0..level[f]) /\ {level[f]} # {}
        BY <3>2
      <4> QED
        BY <3>2, <4>1, MaxIs
    <3> QED
      BY <3>1, <3>3
  <2> QED
    BY <1>6, <2>1 DEF FrameMagnitudes
<1>8. Interleaved(frames, 1) = level
  <2>2. ASSUME NEW k \in 1..n
        PROVE  frames[((k - 1) \div 1) + 1][((k - 1) % 1) + 1] = level[k]
    <3>0. k - 1 \in Nat
      BY <1>1
    <3>1. ((k - 1) \div 1) + 1 = k /\ ((k - 1) % 1) + 1 = 1
      BY <3>0, OneChannel
    <3> QED
      BY <3>1
  <2> QED
    BY <1>1, <1>3, <1>6, <2>2 DEF Interleaved
<1> QED
  BY <1>1, <1>5, <1>6, <1>7, <1>8

\* The verdict is the name of the first check that fails.
LEMMA VerdictIs ==
  ASSUME NEW wav, NEW expected, NEW chars
  PROVE  LET m == MeasureWav(wav)
             verdict == RunWorkerChecks(wav, expected, chars)
         IN /\ verdict = "PASS" =>
                 /\ m.format.rate = expected.rate /\ m.format.channels = expected.channels
                 /\ m.power > SilenceFloor * SilenceFloor * m.samples
                 /\ m.silence.leading <= Limits.silence
                 /\ m.silence.trailing <= Limits.silence
                 /\ m.silence.internal <= Limits.silence
            /\ (/\ m.format.rate = expected.rate /\ m.format.channels = expected.channels
                /\ ~(m.power > SilenceFloor * SilenceFloor * m.samples)) =>
                    verdict \in {"duration_within_bounds", "not_silent"}
<1> DEFINE m == MeasureWav(wav)
           time == Max({m.duration, 1})
           checks == << <<"duration_within_bounds",
                            m.duration \in Limits.minDuration..Limits.maxDuration>>,
                        <<"sample_rate_matches_expected", m.format.rate = expected.rate>>,
                        <<"channels_match_expected", m.format.channels = expected.channels>>,
                        <<"not_silent", m.power > SilenceFloor * SilenceFloor * m.samples>>,
                        <<"true_peak_clipping", Limits.clippedOneIn * m.clipped <= m.samples>>,
                        <<"leading_silence_within_bounds", m.silence.leading <= Limits.silence>>,
                        <<"trailing_silence_within_bounds", m.silence.trailing <= Limits.silence>>,
                        <<"internal_silence_within_bounds", m.silence.internal <= Limits.silence>>,
                        <<"duration_plausible_for_text",
                            \/ chars = 0
                            \/ chars \in (Limits.minRate * time)..(Limits.maxRate * time)>> >>
           failing == {i \in DOMAIN checks : ~checks[i][2]}
           verdict == RunWorkerChecks(wav, expected, chars)
<1>1. verdict = IF failing = {} THEN "PASS" ELSE checks[Min(failing)][1]
  BY DEF RunWorkerChecks
<1>2. /\ checks[2][2] <=> m.format.rate = expected.rate
      /\ checks[3][2] <=> m.format.channels = expected.channels
      /\ checks[4][2] <=> m.power > SilenceFloor * SilenceFloor * m.samples
      /\ checks[6][2] <=> m.silence.leading <= Limits.silence
      /\ checks[7][2] <=> m.silence.trailing <= Limits.silence
      /\ checks[8][2] <=> m.silence.internal <= Limits.silence
  OBVIOUS
<1>3. DOMAIN checks = 1..9
  OBVIOUS
<1>4. /\ \A i \in 1..9 : checks[i][1] # "PASS"
      /\ checks[1][1] = "duration_within_bounds" /\ checks[4][1] = "not_silent"
  OBVIOUS
<1> HIDE DEF m, checks, verdict
<1>6. failing = {i \in 1..9 : ~checks[i][2]} /\ failing \in SUBSET Nat
  BY <1>3
<1>7. ASSUME failing # {} PROVE Min(failing) \in 1..9 /\ verdict = checks[Min(failing)][1]
  BY <1>1, <1>6, <1>7, MinIs
<1>9. ASSUME verdict = "PASS" PROVE \A i \in 1..9 : checks[i][2]
  BY <1>4, <1>6, <1>7, <1>9
<1>10. ASSUME checks[2][2], checks[3][2], ~checks[4][2]
       PROVE  verdict \in {"duration_within_bounds", "not_silent"}
  <2>1. 4 \in failing /\ 2 \notin failing /\ 3 \notin failing
    BY <1>6, <1>10
  <2>2. Min(failing) \in failing /\ Min(failing) <= 4
    BY <1>6, <2>1, MinIs
  <2>3. Min(failing) \in {1, 4}
    BY <1>6, <2>1, <2>2
  <2> QED
    BY <1>4, <1>7, <2>1, <2>3
<1> QED
  BY <1>2, <1>9, <1>10 DEF m, verdict

\* Audio that is accepted can be heard, is of the format asked for and nowhere silent for longer
\* than the limit; silence is refused as silence, and no number is refused as corrupt (audio.py),
\* for answers of any length.
THEOREM SoundIsJudged ==
  ASSUME NEW samples \in Seq(Nat \cup {NotANumber}),
         NEW format \in [rate : Nat, channels : Nat], NEW chars
  PROVE  SoundJudged(samples, format, Verdict(samples, format, Mono, chars))
<1> DEFINE n == Len(samples)
           wav == EncodeWav(samples, format)
           m == MeasureWav(wav)
           verdict == Verdict(samples, format, Mono, chars)
           silent(i, j) == \A k \in i..j : samples[k] = 0
<1>1. verdict = IF wav.decodable THEN RunWorkerChecks(wav, Mono, chars) ELSE "AUDIO_CORRUPTED"
  BY DEF Verdict
<1>2. NotANumber \in ToSet(samples) => ~wav.decodable
  BY DEF EncodeWav, Corrupted
<1>3. wav.decodable => samples # <<>> /\ NotANumber \notin ToSet(samples) /\ wav.format = format
  BY DEF EncodeWav, Corrupted
<1>4. ASSUME samples # <<>>, NotANumber \notin ToSet(samples), format = Mono
      PROVE  /\ wav.decodable /\ wav.format = format
             /\ silent(1, n) => ~(m.power > SilenceFloor * SilenceFloor * m.samples)
             /\ m.silence.leading \in Nat /\ m.silence.trailing \in Nat
             /\ m.silence.internal \in Nat
             /\ \A i, j \in 1..n : (i <= j /\ silent(i, j)) =>
                    \/ ToMs(j - i + 1) <= m.silence.leading
                    \/ ToMs(j - i + 1) <= m.silence.trailing
                    \/ ToMs(j - i + 1) <= m.silence.internal
  <2> DEFINE level == [k \in 1..n |-> IF samples[k] > FullScale THEN FullScale ELSE samples[k]]
  <2>1. \A k \in 1..n : samples[k] \in Nat
    BY <1>4 DEF ToSet
  <2>2. samples \in Seq(Nat)
    BY <2>1
  <2>3. format.channels = 1
    BY <1>4 DEF Mono
  <2>4. /\ wav.decodable /\ wav.format = format /\ Len(wav.frames) = n
        /\ FrameMagnitudes(wav.frames) = level
        /\ Interleaved(wav.frames, 1) = level
        /\ level \in Seq(Nat)
    BY <1>4, <2>2, <2>3, MonoFile
  <2>5. Len(level) = n /\ n \in Nat
    OBVIOUS
  <2>6. \A k \in 1..n : samples[k] = 0 => level[k] = 0
    BY DEF FullScale
  <2> HIDE DEF wav, level
  <2>7. m.samples = n /\ m.power = Power(level) /\ m.silence = SilenceSpans(level)
    BY <2>3, <2>4, <2>5 DEF MeasureWav
  <2> HIDE DEF m
  <2>8. ASSUME silent(1, n) PROVE ~(m.power > SilenceFloor * SilenceFloor * m.samples)
    <3>0. \A k \in 1..n : samples[k] = 0
      BY <2>8
    <3>1. level \in Seq(Int) /\ \A k \in 1..Len(level) : level[k] = 0
      <4>1. level \in Seq(Int)
        BY <2>4
      <4>2. \A k \in 1..Len(level) : level[k] = 0
        BY <2>5, <2>6, <3>0
      <4> QED
        BY <4>1, <4>2
    <3>2. Power(level) = 0
      BY <3>1, SilenceHasNoPower
    <3> QED
      BY <2>5, <2>7, <3>2 DEF SilenceFloor
  <2>9. ASSUME NEW i \in 1..n, NEW j \in 1..n, i <= j, silent(i, j)
        PROVE  \/ ToMs(j - i + 1) <= m.silence.leading
               \/ ToMs(j - i + 1) <= m.silence.trailing
               \/ ToMs(j - i + 1) <= m.silence.internal
    <3>1. \A k \in i..j : level[k] < SilenceFloor
      BY <2>5, <2>6, <2>9 DEF SilenceFloor
    <3> QED
      BY <2>4, <2>5, <2>7, <2>9, <3>1, SilenceIsFound
  <2>10. m.silence.leading \in Nat /\ m.silence.trailing \in Nat /\ m.silence.internal \in Nat
    BY <2>4, <2>7, SpansAreTimes
  <2> QED
    BY <2>4, <2>8, <2>9, <2>10
<1>5. m.format = wav.format
  BY DEF MeasureWav
<1>6. Mono.rate = 1 /\ Mono.channels = 1
  BY DEF Mono
<1> HIDE DEF wav, m, verdict
<1>7. ASSUME verdict = "PASS"
      PROVE  /\ format = Mono /\ NotANumber \notin ToSet(samples)
             /\ \E k \in 1..n : samples[k] > 0
             /\ \A i, j \in 1..n : (i <= j /\ silent(i, j)) => ToMs(j - i + 1) <= Limits.silence
  <2>1. wav.decodable /\ RunWorkerChecks(wav, Mono, chars) = "PASS"
    BY <1>1, <1>7
  <2>2. /\ m.format.rate = 1 /\ m.format.channels = 1
        /\ m.power > SilenceFloor * SilenceFloor * m.samples
        /\ m.silence.leading <= Limits.silence
        /\ m.silence.trailing <= Limits.silence
        /\ m.silence.internal <= Limits.silence
    BY <1>6, <2>1, VerdictIs DEF m
  <2>3. samples # <<>> /\ NotANumber \notin ToSet(samples) /\ format.rate = 1 /\ format.channels = 1
    BY <1>3, <1>5, <2>1, <2>2
  <2>4. format = Mono
    BY <2>3 DEF Mono
  <2>5. ~silent(1, n)
    BY <1>4, <2>2, <2>3, <2>4
  <2>6. PICK k \in 1..n : samples[k] # 0
    BY <2>5
  <2>7. samples[k] \in Nat
    BY <2>3 DEF ToSet
  <2>8. samples[k] > 0
    BY <2>6, <2>7
  <2>9. ASSUME NEW i \in 1..n, NEW j \in 1..n, i <= j, silent(i, j)
        PROVE  ToMs(j - i + 1) <= Limits.silence
    <3>1. j - i + 1 \in Nat /\ j - i + 1 <= j - i + 1
      BY <2>9
    <3>2. ToMs(j - i + 1) \in Nat /\ Limits.silence = 0
      BY <3>1, ToMsMonotone DEF Limits
    <3>3. \/ ToMs(j - i + 1) <= m.silence.leading
          \/ ToMs(j - i + 1) <= m.silence.trailing
          \/ ToMs(j - i + 1) <= m.silence.internal
      BY <1>4, <2>3, <2>4, <2>9
    <3>4. m.silence.leading \in Nat /\ m.silence.trailing \in Nat /\ m.silence.internal \in Nat
      BY <1>4, <2>3, <2>4
    <3> DEFINE t == ToMs(j - i + 1)
               s == m.silence
    <3>5. /\ t \in Nat /\ s.leading \in Nat /\ s.trailing \in Nat /\ s.internal \in Nat
          /\ s.leading <= 0 /\ s.trailing <= 0 /\ s.internal <= 0
          /\ t <= s.leading \/ t <= s.trailing \/ t <= s.internal
      BY <2>2, <3>2, <3>3, <3>4
    <3> HIDE DEF t, s
    <3>6. t <= 0
      BY <3>5
    <3> QED
      BY <3>2, <3>6 DEF t
  <2> QED
    BY <2>3, <2>4, <2>8, <2>9
<1>8. ASSUME format = Mono, n > 0, silent(1, n)
      PROVE  verdict \in {"duration_within_bounds", "not_silent"}
  <2>1. samples # <<>> /\ NotANumber \notin ToSet(samples)
    BY <1>8 DEF ToSet, NotANumber
  <2>2. /\ wav.decodable /\ m.format.rate = Mono.rate /\ m.format.channels = Mono.channels
        /\ ~(m.power > SilenceFloor * SilenceFloor * m.samples)
    BY <1>4, <1>5, <1>8, <2>1
  <2> QED
    BY <1>1, <2>2, VerdictIs DEF m
<1>9. NotANumber \in ToSet(samples) => verdict = "AUDIO_CORRUPTED"
  BY <1>1, <1>2
<1> QED
  BY <1>7, <1>8, <1>9 DEF SoundJudged, verdict

\* Engines that speak the language.
Engines == [language : {TRUE}, emotion : BOOLEAN, speed : BOOLEAN, pitch : BOOLEAN,
            phonemes : BOOLEAN, ssml : BOOLEAN]

\* An emotion is acted natively only by an engine that can, for a voice not declared otherwise.
LEMMA MoodIs ==
  ASSUME NEW intent, NEW declared,
         NEW engine \in Engines
  PROVE  LET mood == NegotiateEmotion(intent, engine, declared)
             handling == EmotionHandling(engine, declared)
         IN /\ mood.tags # {} => /\ intent.emotion # "NEUTRAL" /\ engine.emotion = TRUE
                                 /\ declared \notin {"APPROXIMATED", "UNSUPPORTED"}
            /\ mood.gaps = IF intent.emotion = "NEUTRAL" \/ mood.tags # {} THEN {}
                           ELSE {Gap("emotion", handling)}
            /\ mood.shaped \subseteq {"emotion"}
<1> DEFINE mood == NegotiateEmotion(intent, engine, declared)
           handling == EmotionHandling(engine, declared)
<1>1. handling = "NATIVE" => engine.emotion = TRUE /\ declared \notin {"APPROXIMATED", "UNSUPPORTED"}
  BY DEF EmotionHandling, Engines
<1> HIDE DEF handling
<1>2. CASE intent.emotion = "NEUTRAL"
  <2>1. mood = [gaps |-> {}, shaped |-> {}, tags |-> {}]
    BY <1>2 DEF NegotiateEmotion
  <2> QED
    BY <1>2, <2>1
<1>3. CASE intent.emotion # "NEUTRAL" /\ handling = "NATIVE"
  <2>1. mood = [gaps |-> {}, shaped |-> {}, tags |-> {intent.emotion}]
    BY <1>3 DEF NegotiateEmotion, handling
  <2> QED
    BY <1>1, <1>3, <2>1
<1>4. CASE intent.emotion # "NEUTRAL" /\ handling # "NATIVE"
  <2>1. mood = [gaps |-> {Gap("emotion", handling)}, shaped |-> {"emotion"}, tags |-> {}]
    BY <1>4 DEF NegotiateEmotion, handling
  <2> QED
    BY <1>4, <2>1 DEF handling
<1> QED
  BY <1>2, <1>3, <1>4

\* The fields of one gap, and of none.
LEMMA GapFields ==
  ASSUME NEW field, NEW handling
  PROVE  /\ {gap.field : gap \in {Gap(field, handling)}} = {field}
         /\ {gap.field : gap \in {}} = {}
<1>1. Gap(field, handling).field = field
  BY DEF Gap
<1> QED
  BY <1>1

\* Each wish of the director is met by a control the engine has or recorded as a gap, never both,
\* and no gap is recorded that nobody asked for (capability.py), whatever the director decides.
THEOREM WishesAreAnswered ==
  ASSUME NEW intent, intent.emphasis \in BOOLEAN, NEW hints, NEW declared,
         NEW engine \in Engines,
         NEW length \in Nat, length <= MaxChars
  PROVE  WishesAnswered(intent, Negotiate(intent, hints, engine, declared, length),
                        engine, declared, hints)
<1> DEFINE answer == Negotiate(intent, hints, engine, declared, length)
           mood == NegotiateEmotion(intent, engine, declared)
           wished == (IF intent.emotion # "NEUTRAL" THEN {"emotion"} ELSE {})
                     \cup (IF intent.delivery_mode # "NORMAL" THEN {"delivery_mode"} ELSE {})
                     \cup (IF intent.pacing # 100 THEN {"pacing"} ELSE {})
                     \cup (IF intent.pitch # 0 THEN {"pitch"} ELSE {})
                     \cup (IF intent.volume # 0 THEN {"volume"} ELSE {})
                     \cup (IF intent.emphasis THEN {"emphasis"} ELSE {})
                     \cup (IF intent.non_verbal # "none" THEN {"non_verbal"} ELSE {})
                     \cup (IF hints # {} THEN {"pronunciation_hints"} ELSE {})
           met == (IF answer.tags # {} THEN {"emotion"} ELSE {})
                  \cup (answer.speed \cap {"pacing"}) \cup (answer.pitch \cap {"pitch"})
                  \cup (IF engine.ssml THEN {"emphasis"} ELSE {})
                  \cup (IF engine.phonemes \/ engine.ssml THEN {"pronunciation_hints"} ELSE {})
           missed == {gap.field : gap \in answer.gaps}
           acted == mood.tags # {}
<1> USE DEF Engines
<1>1. /\ answer.tags = mood.tags
      /\ answer.gaps = mood.gaps \cup NegotiateDelivery(intent) \cup NegotiateControls(intent, engine)
                         \cup NegotiateMarkup(intent, hints, engine)
      /\ answer.speed = mood.shaped \cup (IF intent.delivery_mode # "NORMAL" THEN {"delivery_mode"} ELSE {})
                          \cup (IF intent.pacing # 100 /\ engine.speed THEN {"pacing"} ELSE {})
      /\ answer.pitch = mood.shaped \cup (IF intent.delivery_mode # "NORMAL" THEN {"delivery_mode"} ELSE {})
                          \cup (IF intent.pitch # 0 /\ engine.pitch THEN {"pitch"} ELSE {})
  <2>0. engine.language = TRUE
    OBVIOUS
  <2>1. engine.language /\ ~(length > MaxChars)
    <3>1. engine.language
      BY <2>0, Zenon
    <3>2. ~(length > MaxChars)
      BY MaxCharsPositive
    <3> QED
      BY <3>1, <3>2, Zenon
  <2> QED
    BY <2>1 DEF Negotiate
<1>2. /\ acted => /\ intent.emotion # "NEUTRAL" /\ engine.emotion = TRUE
                  /\ declared \notin {"APPROXIMATED", "UNSUPPORTED"}
      /\ mood.gaps = IF intent.emotion = "NEUTRAL" \/ acted THEN {}
                     ELSE {Gap("emotion", EmotionHandling(engine, declared))}
      /\ mood.shaped \subseteq {"emotion"}
  BY MoodIs
<1> HIDE DEF answer, mood
<1> DEFINE F(S) == {gap.field : gap \in S}
<1>3. /\ F(mood.gaps) = IF intent.emotion = "NEUTRAL" \/ acted THEN {} ELSE {"emotion"}
      /\ F(NegotiateDelivery(intent)) = IF intent.delivery_mode = "NORMAL" THEN {} ELSE {"delivery_mode"}
  BY <1>2, GapFields DEF NegotiateDelivery
<1>4. F(NegotiateControls(intent, engine)) =
        (IF intent.pacing # 100 /\ ~engine.speed THEN {"pacing"} ELSE {})
          \cup (IF intent.pitch # 0 /\ ~engine.pitch THEN {"pitch"} ELSE {})
          \cup (IF intent.volume # 0 THEN {"volume"} ELSE {})
  <2> DEFINE A == IF intent.pacing # 100 /\ ~engine.speed THEN {Gap("pacing", "UNSUPPORTED")} ELSE {}
             B == IF intent.pitch # 0 /\ ~engine.pitch THEN {Gap("pitch", "UNSUPPORTED")} ELSE {}
             C == IF intent.volume # 0 THEN {Gap("volume", "APPROXIMATED")} ELSE {}
  <2>1. NegotiateControls(intent, engine) = A \cup B \cup C
    BY DEF NegotiateControls
  <2>2. /\ F(A) = IF intent.pacing # 100 /\ ~engine.speed THEN {"pacing"} ELSE {}
        /\ F(B) = IF intent.pitch # 0 /\ ~engine.pitch THEN {"pitch"} ELSE {}
        /\ F(C) = IF intent.volume # 0 THEN {"volume"} ELSE {}
    BY GapFields
  <2> HIDE DEF A, B, C
  <2>3. F(A \cup B \cup C) = F(A) \cup F(B) \cup F(C)
    OBVIOUS
  <2> QED
    BY <2>1, <2>2, <2>3
<1>5. F(NegotiateMarkup(intent, hints, engine)) =
        (IF hints # {} /\ ~(engine.phonemes \/ engine.ssml) THEN {"pronunciation_hints"} ELSE {})
          \cup (IF intent.emphasis /\ ~engine.ssml THEN {"emphasis"} ELSE {})
          \cup (IF intent.non_verbal # "none" THEN {"non_verbal"} ELSE {})
  <2> DEFINE A == IF hints # {} /\ ~(engine.phonemes \/ engine.ssml)
                  THEN {Gap("pronunciation_hints", "UNSUPPORTED")} ELSE {}
             B == IF intent.emphasis /\ ~engine.ssml THEN {Gap("emphasis", "UNSUPPORTED")} ELSE {}
             C == IF intent.non_verbal # "none" THEN {Gap("non_verbal", "UNSUPPORTED")} ELSE {}
  <2>1. NegotiateMarkup(intent, hints, engine) = A \cup B \cup C
    BY DEF NegotiateMarkup
  <2>2. /\ F(A) = IF hints # {} /\ ~(engine.phonemes \/ engine.ssml) THEN {"pronunciation_hints"} ELSE {}
        /\ F(B) = IF intent.emphasis /\ ~engine.ssml THEN {"emphasis"} ELSE {}
        /\ F(C) = IF intent.non_verbal # "none" THEN {"non_verbal"} ELSE {}
    BY GapFields
  <2> HIDE DEF A, B, C
  <2>3. F(A \cup B \cup C) = F(A) \cup F(B) \cup F(C)
    OBVIOUS
  <2> QED
    BY <2>1, <2>2, <2>3
<1>6. \A f : f \in missed <=>
               \/ f = "emotion" /\ intent.emotion # "NEUTRAL" /\ ~acted
               \/ f = "delivery_mode" /\ intent.delivery_mode # "NORMAL"
               \/ f = "pacing" /\ intent.pacing # 100 /\ ~engine.speed
               \/ f = "pitch" /\ intent.pitch # 0 /\ ~engine.pitch
               \/ f = "volume" /\ intent.volume # 0
               \/ f = "pronunciation_hints" /\ hints # {} /\ ~(engine.phonemes \/ engine.ssml)
               \/ f = "emphasis" /\ intent.emphasis /\ ~engine.ssml
               \/ f = "non_verbal" /\ intent.non_verbal # "none"
  <2> DEFINE A == mood.gaps
             B == NegotiateDelivery(intent)
             C == NegotiateControls(intent, engine)
             D == NegotiateMarkup(intent, hints, engine)
  <2>1. missed = F(A \cup B \cup C \cup D)
    BY <1>1
  <2> HIDE DEF missed, A, B, C, D
  <2>2. F(A \cup B \cup C \cup D) = F(A) \cup F(B) \cup F(C) \cup F(D)
    OBVIOUS
  <2> HIDE DEF F
  <2>3. missed = F(mood.gaps) \cup F(NegotiateDelivery(intent))
                   \cup F(NegotiateControls(intent, engine)) \cup F(NegotiateMarkup(intent, hints, engine))
    BY <2>1, <2>2 DEF A, B, C, D
  <2> QED
    BY <1>3, <1>4, <1>5, <2>3
<1>7. \A f : f \in met <=>
               \/ f = "emotion" /\ acted
               \/ f = "pacing" /\ intent.pacing # 100 /\ engine.speed
               \/ f = "pitch" /\ intent.pitch # 0 /\ engine.pitch
               \/ f = "emphasis" /\ engine.ssml
               \/ f = "pronunciation_hints" /\ (engine.phonemes \/ engine.ssml)
  BY <1>1, <1>2
<1>8. \A f : f \in wished <=>
               \/ f = "emotion" /\ intent.emotion # "NEUTRAL"
               \/ f = "delivery_mode" /\ intent.delivery_mode # "NORMAL"
               \/ f = "pacing" /\ intent.pacing # 100
               \/ f = "pitch" /\ intent.pitch # 0
               \/ f = "volume" /\ intent.volume # 0
               \/ f = "emphasis" /\ intent.emphasis
               \/ f = "non_verbal" /\ intent.non_verbal # "none"
               \/ f = "pronunciation_hints" /\ hints # {}
  OBVIOUS
<1> HIDE DEF wished, met, missed
<1>9. wished \subseteq met \cup missed
  BY <1>6, <1>7, <1>8
<1>10. missed \subseteq wished \ met
  BY <1>6, <1>7, <1>8
<1>11. answer.tags # {} => engine.emotion /\ declared \notin {"APPROXIMATED", "UNSUPPORTED"}
  BY <1>1, <1>2
<1> QED
  BY <1>9, <1>10, <1>11 DEF WishesAnswered, wished, met, missed, answer

-----------------------------------------------------------------------------
(* Speech *)

\* No tag near the quote names anybody, or one names nobody known.
Disputed(span, text, known) ==
    LET tags == TagsNear(span, text)
    IN tags = {} \/ \E i \in tags : \A k \in DOMAIN known : text[i].name \notin known[k].names

\* The known speakers whom one tag names.
NamedByTag(span, text, known, some) ==
    /\ some \subseteq DOMAIN known
    /\ \E i \in TagsNear(span, text) : some = {k \in DOMAIN known : text[i].name \in known[k].names}

\* A tag gives the quote to somebody who has its name.
LEMMA AttributedIs ==
  ASSUME NEW span, NEW T, NEW text \in Seq(T), NEW known, NEW form \in {"after", "before"}
  PROVE  LET some == Attributed(span, text, known, form)
             tags == TagsNear(span, text)
         IN IF some # {} THEN NamedByTag(span, text, known, some)
            ELSE \/ \A i \in tags : text[i].form # form
                 \/ \E i \in tags : \A k \in DOMAIN known : text[i].name \notin known[k].names
<1> DEFINE found == {i \in DOMAIN text : text[i].form = form /\ InWindow(span, text[i])}
<1>1. Attributed(span, text, known, form)
        = {k \in DOMAIN known : found # {} /\ text[Min(found)].name \in known[k].names}
  BY DEF Attributed
<1>2. found \in SUBSET Nat /\ found \subseteq TagsNear(span, text)
  BY DEF TagsNear
<1>3. ~(\A i \in TagsNear(span, text) : text[i].form # form) => found # {}
  BY DEF TagsNear
<1>4. found # {} => Min(found) \in found
  <2> HIDE DEF found
  <2> QED
    BY <1>2, MinIs
<1> HIDE DEF found
<1> QED
  BY <1>1, <1>2, <1>3, <1>4 DEF NamedByTag

\* Who speaks: the narrator outside of quotes; in a quote a known speaker, by a tag with the
\* speaker's name or with a confidence that is flagged; or nobody.
SpeakerIs(span, text, known, r) ==
    \/ /\ ~span.dialogue /\ r.type = "NARRATOR" /\ r.id = Narrator
    \/ /\ r.type = "UNKNOWN" /\ r.id = Unknown /\ Disputed(span, text, known)
    \/ /\ r.type = "CHARACTER"
       /\ \E k \in DOMAIN known :
              /\ r.id = known[k].id
              /\ \/ r.confidence < LowConfidence /\ Disputed(span, text, known)
                 \/ \E i \in TagsNear(span, text) : text[i].name \in known[k].names

\* The resolver answers so.
LEMMA ResolvedIs ==
  ASSUME NEW C, NEW characters \in Seq(C), NEW known, known = LoadSpeakerRegistry(characters),
         NEW T, NEW text \in Seq(T), NEW span, span.dialogue \in BOOLEAN,
         NEW participants, NEW previous
  PROVE  SpeakerIs(span, text, known, ResolveSpeaker(span, text, known, participants, previous))
<1> DEFINE all == ToSet(known)
           after == Attributed(span, text, known, "after")
           named == IF after # {} THEN after ELSE Attributed(span, text, known, "before")
           present == {s \in all : s.id \in participants}
           scoped == IF present # {} THEN present ELSE all
           near == {name \in ToSet(text) : InWindow(span, name)}
           hits == {s \in scoped : \E name \in near : name.name \in s.names}
           plausible == IF participants # {} THEN scoped ELSE all
           others == {s \in plausible : s.id # previous}
           only(S) == (CHOOSE s \in S : TRUE).id
           r == ResolveSpeaker(span, text, known, participants, previous)
<1>1. /\ ~span.dialogue => r = Resolved("NARRATOR", Narrator, 100)
      /\ span.dialogue /\ named # {} => r = Resolved("CHARACTER", known[Max(named)].id, 95)
      /\ span.dialogue /\ named = {} =>
           IF Cardinality(hits) = 1 THEN r = Resolved("CHARACTER", only(hits), 75)
           ELSE IF previous # Nobody /\ Cardinality(others) = 1
                THEN r = Resolved("CHARACTER", only(others), 60)
           ELSE IF Cardinality(plausible) = 1
                THEN r = Resolved("CHARACTER", only(plausible), 55)
                ELSE r = Resolved("UNKNOWN", Unknown, 0)
  <2> HIDE DEF all, named, scoped, near, hits, plausible, others, only
  <2>1. r = CASE ~span.dialogue -> Resolved("NARRATOR", Narrator, 100)
         [] span.dialogue /\ named # {} -> Resolved("CHARACTER", known[Max(named)].id, 95)
         [] span.dialogue /\ named = {} /\ Cardinality(hits) = 1 ->
                Resolved("CHARACTER", only(hits), 75)
         [] span.dialogue /\ named = {} /\ Cardinality(hits) # 1 /\ previous # Nobody
                /\ Cardinality(others) = 1 -> Resolved("CHARACTER", only(others), 60)
         [] OTHER -> IF span.dialogue /\ Cardinality(plausible) = 1
                     THEN Resolved("CHARACTER", only(plausible), 55)
                     ELSE Resolved("UNKNOWN", Unknown, 0)
    BY DEF ResolveSpeaker, all, named, scoped, near, hits, plausible, others, only
  <2> HIDE DEF r
  <2> QED
    BY <2>1
<1>2. hits \subseteq all /\ plausible \subseteq all /\ others \subseteq all
  OBVIOUS
<1>3. ASSUME NEW S, S \subseteq all, Cardinality(S) = 1
      PROVE  \E k \in DOMAIN known : only(S) = known[k].id
  <2>1. S # {}
    <3>1. Cardinality({}) = 0
      BY FS_EmptySet
    <3>2. Cardinality({}) # 1
      BY <3>1
    <3> QED
      BY <1>3, <3>2, Zenon
  <2>2. (CHOOSE s \in S : TRUE) \in all
    BY <1>3, <2>1
  <2> QED
    BY <2>2 DEF ToSet
<1>4. ASSUME named # {}
      PROVE  Max(named) \in DOMAIN known
             /\ \E i \in TagsNear(span, text) : text[i].name \in known[Max(named)].names
  <2>1. NamedByTag(span, text, known, named)
    BY <1>4, AttributedIs
  <2>2. Max(named) \in named
    <3>1. DOMAIN known \in SUBSET (0..Len(characters)) /\ Len(characters) \in Nat
      BY DEF LoadSpeakerRegistry
    <3> HIDE DEF named
    <3> QED
      BY <1>4, <2>1, <3>1, MaxIs DEF NamedByTag
  <2> HIDE DEF named
  <2> QED
    BY <2>1, <2>2 DEF NamedByTag
<1>0. ASSUME named = {} PROVE Disputed(span, text, known)
  <2>1. \A i \in TagsNear(span, text) : text[i].form \in {"after", "before"}
    BY DEF TagsNear
  <2>2. Attributed(span, text, known, "after") = {} /\ Attributed(span, text, known, "before") = {}
    BY <1>0
  <2> QED
    BY <2>1, <2>2, AttributedIs DEF Disputed
<1> HIDE DEF all, named, near, hits, plausible, others, only, r
<1> USE DEF SpeakerIs
<1>5. CASE ~span.dialogue
  BY <1>1, <1>5 DEF Resolved, r
<1>6. CASE span.dialogue /\ named # {}
  BY <1>1, <1>4, <1>6 DEF Resolved, r
<1>7. CASE span.dialogue /\ named = {}
  <2>1. CASE Cardinality(hits) = 1
    <3>1. r.type = "CHARACTER" /\ r.id = only(hits) /\ r.confidence = 75
      BY <1>1, <1>7, <2>1 DEF Resolved
    <3> QED
      BY <1>0, <1>2, <1>3, <1>7, <2>1, <3>1 DEF r, LowConfidence
  <2>2. CASE Cardinality(hits) # 1 /\ previous # Nobody /\ Cardinality(others) = 1
    <3>1. r.type = "CHARACTER" /\ r.id = only(others) /\ r.confidence = 60
      BY <1>1, <1>7, <2>2 DEF Resolved
    <3> QED
      BY <1>0, <1>2, <1>3, <1>7, <2>2, <3>1 DEF r, LowConfidence
  <2>3. CASE /\ Cardinality(hits) # 1 /\ ~(previous # Nobody /\ Cardinality(others) = 1)
             /\ Cardinality(plausible) = 1
    <3>1. r.type = "CHARACTER" /\ r.id = only(plausible) /\ r.confidence = 55
      BY <1>1, <1>7, <2>3 DEF Resolved
    <3> QED
      BY <1>0, <1>2, <1>3, <1>7, <2>3, <3>1 DEF r, LowConfidence
  <2>4. CASE /\ Cardinality(hits) # 1 /\ ~(previous # Nobody /\ Cardinality(others) = 1)
             /\ Cardinality(plausible) # 1
    BY <1>0, <1>1, <1>7, <2>4 DEF Resolved, r
  <2> QED
    BY <2>1, <2>2, <2>3, <2>4
<1> QED
  BY <1>5, <1>6, <1>7

\* Directing a chapter goes through its spans one after the other.
LEMMA DirectedRun ==
  ASSUME NEW context, NEW X, NEW spans \in Seq(X), NEW state
  PROVE  \E run : /\ run[0].chunks = <<>> /\ run[0].state = state
                  /\ \A n \in 1..Len(spans) : run[n] = DirectSpan(context, run[n - 1], spans[n])
                  /\ DirectChapter(context, spans, state) = run[Len(spans)].chunks
<1> DEFINE N == Len(spans)
           start == [chunks |-> <<>>, state |-> state]
           Runs(f, m) == f = [n \in 0..m |-> IF n = 0 THEN start
                                             ELSE DirectSpan(context, f[n - 1], spans[n])]
           run == CHOOSE f : Runs(f, N)
           wrong == {m \in 0..N : ~\E f : Runs(f, m)}
<1>1. DirectChapter(context, spans, state) = run[N].chunks
  BY DEF DirectChapter
<1>2. N \in Nat
  OBVIOUS
<1> HIDE DEF start
<1>3. ASSUME NEW m \in wrong, \A t \in wrong : m <= t PROVE FALSE
  <2>1. m \in 0..N /\ ~\E f : Runs(f, m)
    OBVIOUS
  <2>2. m # 0
    <3> DEFINE f == [n \in 0..0 |-> start]
    <3>1. Runs(f, 0)
      OBVIOUS
    <3> QED
      BY <2>1, <3>1
  <2>3. m - 1 \in 0..N /\ m - 1 < m /\ m \in Nat
    BY <1>2, <2>1, <2>2
  <2>4. m - 1 \notin wrong
    BY <1>3, <2>3
  <2>5. PICK f : Runs(f, m - 1)
    BY <2>3, <2>4
  <2> DEFINE last == DirectSpan(context, f[m - 1], spans[m])
             g == [n \in 0..m |-> IF n < m THEN f[n] ELSE last]
  <2>6. /\ f[0] = start
        /\ \A n \in 1..(m - 1) : f[n] = DirectSpan(context, f[n - 1], spans[n])
    BY <2>3, <2>5
  <2> HIDE DEF Runs
  <2>7. ASSUME NEW n \in 0..m
        PROVE  g[n] = IF n = 0 THEN start ELSE DirectSpan(context, g[n - 1], spans[n])
    <3>1. CASE n = 0
      BY <2>2, <2>3, <2>6, <3>1
    <3>2. CASE n \in 1..(m - 1)
      <4>1. g[n] = f[n] /\ g[n - 1] = f[n - 1]
        BY <2>3, <3>2
      <4> QED
        BY <2>6, <3>2, <4>1
    <3>3. CASE n = m
      <4>1. g[n] = last /\ g[n - 1] = f[m - 1]
        BY <2>3, <3>3
      <4> QED
        BY <2>2, <3>3, <4>1
    <3> QED
      BY <2>3, <3>1, <3>2, <3>3
  <2>8. Runs(g, m)
    <3>1. g = [n \in 0..m |-> IF n = 0 THEN start ELSE DirectSpan(context, g[n - 1], spans[n])]
      BY <2>7
    <3> HIDE DEF g
    <3> QED
      BY <3>1 DEF Runs
  <2> QED
    BY <2>1, <2>8
<1>4. wrong = {}
  <2>1. wrong \in SUBSET Nat
    BY <1>2
  <2> HIDE DEF wrong
  <2> QED
    BY <1>3, <2>1, SmallestNumber
<1>5. \E f : Runs(f, N)
  BY <1>2, <1>4
<1>6. Runs(run, N)
  <2> HIDE DEF Runs
  <2> QED
    BY <1>5, Zenon
<1> HIDE DEF run
<1>7. run[0] = start /\ \A n \in 1..N : run[n] = DirectSpan(context, run[n - 1], spans[n])
  BY <1>2, <1>6
<1>8. start.chunks = <<>> /\ start.state = state
  BY DEF start
<1> HIDE DEF start
<1> QED
  BY <1>1, <1>7, <1>8

\* The first cue found is one of those looked for.
LEMMA FirstCueIs ==
  ASSUME NEW order, DOMAIN order \in SUBSET Nat, NEW cues, NEW default
  PROVE  /\ cues \cap ToSet(order) = {} => FirstCue(order, cues, default) = default
         /\ cues \cap ToSet(order) # {} => FirstCue(order, cues, default) \in ToSet(order)
<1> DEFINE found == {i \in DOMAIN order : order[i] \in cues}
<1>1. FirstCue(order, cues, default) = IF found = {} THEN default ELSE order[Min(found)]
  BY DEF FirstCue
<1>2. found = {} <=> cues \cap ToSet(order) = {}
  BY DEF ToSet
<1>3. found \in SUBSET Nat
  OBVIOUS
<1>4. found # {} => Min(found) \in DOMAIN order
  <2>1. found \subseteq DOMAIN order
    OBVIOUS
  <2> HIDE DEF found
  <2> QED
    BY <1>3, <2>1, MinIs
<1> HIDE DEF found
<1> QED
  BY <1>1, <1>2, <1>4 DEF ToSet

\* The emotion of a chunk: its own words', else that of the chunk before, else none.
LEMMA EmotionIs ==
  ASSUME NEW cues, NEW tension, NEW speaker, NEW previous
  PROVE  LET e == DecidePerformance(cues, tension, speaker, previous).emotion
         IN /\ cues \cap ToSet(EmotionCues) # {} =>
                  e = FirstCue(EmotionCues, cues, "NEUTRAL") /\ e # "none"
            /\ cues \cap ToSet(EmotionCues) = {} =>
                  e = IF previous.emotion # "none" THEN previous.emotion ELSE "NEUTRAL"
<1>1. DecidePerformance(cues, tension, speaker, previous).emotion = DetectEmotion(cues, previous).emotion
  BY DEF DecidePerformance
<1>2. CASE cues \cap ToSet(EmotionCues) # {}
  <2>0. DOMAIN EmotionCues = 1..16
    BY DEF EmotionCues
  <2>1. DOMAIN EmotionCues \in SUBSET Nat /\ "none" \notin ToSet(EmotionCues)
    <3>1. \A i \in 1..16 : EmotionCues[i] # "none"
      BY DEF EmotionCues
    <3> QED
      BY <2>0, <3>1 DEF ToSet
  <2>2. FirstCue(EmotionCues, cues, "NEUTRAL") \in ToSet(EmotionCues)
    BY <1>2, <2>1, FirstCueIs
  <2>3. DetectEmotion(cues, previous).emotion = FirstCue(EmotionCues, cues, "NEUTRAL")
    <3>1. ToSet(EmotionCues) \cap cues # {}
      BY <1>2
    <3> QED
      BY <3>1 DEF DetectEmotion
  <2> QED
    BY <1>1, <1>2, <2>1, <2>2, <2>3
<1>3. CASE cues \cap ToSet(EmotionCues) = {}
  <2>1. ToSet(EmotionCues) \cap cues = {}
    BY <1>3
  <2>2. DetectEmotion(cues, previous).emotion =
          IF previous.emotion # "none" THEN previous.emotion ELSE "NEUTRAL"
    BY <2>1 DEF DetectEmotion
  <2> QED
    BY <1>1, <1>3, <2>2
<1> QED
  BY <1>2, <1>3

\* Where the mood of a span comes from: itself, or from where that of the span before does.
LEMMA LastMoved ==
  ASSUME NEW N \in Nat, NEW moved \in SUBSET (1..N), NEW n \in 1..N
  PROVE  /\ n \in moved => moved \cap 1..n # {} /\ Max(moved \cap 1..n) = n
         /\ n \notin moved => moved \cap 1..n = moved \cap 1..(n - 1)
<1>1. ASSUME n \in moved PROVE moved \cap 1..n # {} /\ Max(moved \cap 1..n) = n
  <2> DEFINE S == moved \cap 1..n
  <2>1. S \in SUBSET (0..n) /\ n \in S /\ S \in SUBSET (1..n) /\ n \in Nat
    BY <1>1
  <2> HIDE DEF S
  <2>2. Max(S) \in S /\ n <= Max(S)
    BY <2>1, MaxIs
  <2>3. Max(S) \in 1..n
    BY <2>1, <2>2
  <2> DEFINE m == Max(S)
  <2>4. m \in 1..n /\ n <= m
    BY <2>2, <2>3
  <2> HIDE DEF m
  <2>5. m = n
    BY <2>1, <2>4
  <2> QED
    BY <2>1, <2>5 DEF S, m
<1> QED
  BY <1>1

\* Ids are unique and no speaker has a sentinel's.
SpeakersApart(characters) ==
    /\ \A i, j \in DOMAIN characters : characters[i].id = characters[j].id => i = j
    /\ \A i \in DOMAIN characters :
           ~characters[i].sentinel => characters[i].id \notin {Narrator, Unknown}

\* Every castable character speaks with its own voice.
OwnVoices(bindings) == \A v \in DOMAIN bindings : bindings[v] = v

\* The voice of a chunk depends on nothing but its speaker.
VoicedFrom(voices, chunk) ==
    chunk.voice = IF chunk.character_id \notin {Narrator, Unknown} /\ chunk.character_id \in voices
                  THEN chunk.character_id ELSE IF Narrator \in voices THEN Narrator ELSE "none"

\* One chunk of a chapter says of its speaker and its voice what it may.
LEMMA ChunkIsAccounted ==
  ASSUME NEW C, NEW characters \in Seq(C),
         SpeakersApart(characters), NEW known, known = LoadSpeakerRegistry(characters),
         NEW T, NEW span, span.dialogue \in BOOLEAN, NEW text \in Seq(T),
         NEW bindings, OwnVoices(bindings),
         NEW participants, NEW previous, NEW lexicon, NEW decision, NEW sequence
  PROVE  LET speaker == ResolveSpeaker(span, text, known, participants, previous)
             binding == ResolveVoiceBinding(speaker, bindings)
         IN ChunkAccounted(characters, text, span,
                BuildChunk(span, speaker, decision, binding, lexicon, sequence), decision.emotion)
<1> DEFINE voices == DOMAIN bindings
           speaker == ResolveSpeaker(span, text, known, participants, previous)
           binding == ResolveVoiceBinding(speaker, bindings)
           chunk == BuildChunk(span, speaker, decision, binding, lexicon, sequence)
           who == {c \in ToSet(characters) : c.id = chunk.character_id}
           tags == TagsNear(span, text)
           doubts == CASE speaker.type = "UNKNOWN" -> {"UNKNOWN_SPEAKER"}
                      [] speaker.type # "UNKNOWN" /\ speaker.confidence < LowConfidence ->
                             {"LOW_CONFIDENCE"}
                      [] OTHER -> {}
<1>1. /\ chunk.speaker_type = speaker.type /\ chunk.character_id = speaker.id
      /\ chunk.voice = binding.voice /\ chunk.decision = decision
      /\ chunk.review_flags = doubts \cup (IF binding.voice = "none" THEN {"CAPABILITY_GAP"} ELSE {})
      /\ chunk.fallback_applied <=> binding.voice = "none" \/ binding.fallback
  BY DEF BuildChunk
<1>2. /\ DOMAIN known = {k \in DOMAIN characters : ~characters[k].merged /\ ~characters[k].sentinel}
      /\ \A k \in DOMAIN known : known[k].id = characters[k].id /\ known[k].names = characters[k].names
  BY DEF LoadSpeakerRegistry
<1>4. SpeakerIs(span, text, known, speaker)
  BY ResolvedIs
<1>5. /\ speaker.type = "CHARACTER" /\ speaker.id \in voices =>
            binding.voice = speaker.id /\ binding.fallback = FALSE
      /\ ~(speaker.type = "CHARACTER" /\ speaker.id \in voices) =>
            /\ binding.voice = IF Narrator \in voices THEN Narrator ELSE "none"
            /\ binding.fallback <=> speaker.type # "NARRATOR" \/ speaker.id # Narrator
  <2> HIDE DEF speaker
  <2> QED
    BY DEF ResolveVoiceBinding, OwnVoices
<1> HIDE DEF speaker, binding, chunk, tags
<1>6. ASSUME span.dialogue, chunk.review_flags = {}
      PROVE  \E c \in who, i \in tags : text[i].name \in c.names
  <2>1. speaker.type # "UNKNOWN" /\ ~(speaker.confidence < LowConfidence)
    BY <1>1, <1>6
  <2>2. PICK k \in DOMAIN known : speaker.id = known[k].id /\ \E i \in tags : text[i].name \in known[k].names
    BY <1>4, <1>6, <2>1 DEF SpeakerIs, tags
  <2>3. characters[k] \in who
    BY <1>1, <1>2, <2>2 DEF ToSet
  <2> QED
    BY <1>2, <2>2, <2>3
<1>12. ASSUME NEW c \in ToSet(characters), span.dialogue, tags # {},
              \A i \in tags : Bearers(characters, text[i].name) = {c}
       PROVE  c \in who
  <2>1. \A i \in tags, k \in DOMAIN known : text[i].name \in known[k].names <=> characters[k] = c
    BY <1>2, <1>12 DEF Bearers, ToSet
  <2>2. PICK m \in DOMAIN characters : c = characters[m] /\ ~c.merged /\ ~c.sentinel
    BY <1>12 DEF Bearers, ToSet
  <2>3. ~Disputed(span, text, known)
    BY <1>2, <1>12, <2>1, <2>2 DEF Disputed, tags
  <2> QED
    BY <1>1, <1>2, <1>4, <1>12, <2>1, <2>3 DEF SpeakerIs, tags
<1>7. ASSUME chunk.speaker_type = "CHARACTER", NEW c \in who PROVE ~c.merged /\ ~c.sentinel
  <2>1. PICK k \in DOMAIN known : speaker.id = known[k].id
    BY <1>1, <1>4, <1>7 DEF SpeakerIs
  <2>2. PICK i \in DOMAIN characters : c = characters[i]
    BY DEF ToSet
  <2>3. i = k
    BY <1>1, <1>2, <2>1, <2>2 DEF SpeakersApart
  <2> QED
    BY <1>2, <2>1, <2>2, <2>3
<1>8. chunk.speaker_type # "CHARACTER" => chunk.character_id \in {Narrator, Unknown}
  BY <1>1, <1>4 DEF SpeakerIs
<1>9. chunk.voice \notin {"none", chunk.character_id} => chunk.fallback_applied
  BY <1>1, <1>4, <1>5 DEF SpeakerIs
<1>10. chunk.voice = "none" => "CAPABILITY_GAP" \in chunk.review_flags
  BY <1>1
<1>11. chunk.decision.emotion = decision.emotion
  BY <1>1
<1> QED
  BY <1>6, <1>7, <1>8, <1>9, <1>10, <1>11, <1>12 DEF ChunkAccounted, chunk, binding, speaker, tags

\* Every chunk that the director makes is voiced so.
LEMMA VoiceIs ==
  ASSUME NEW C, NEW characters \in Seq(C),
         SpeakersApart(characters), NEW known, known = LoadSpeakerRegistry(characters),
         NEW T, NEW span, span.dialogue \in BOOLEAN, NEW text \in Seq(T),
         NEW bindings, OwnVoices(bindings),
         NEW participants, NEW previous, NEW lexicon, NEW decision, NEW sequence
  PROVE  LET speaker == ResolveSpeaker(span, text, known, participants, previous)
             binding == ResolveVoiceBinding(speaker, bindings)
         IN VoicedFrom(DOMAIN bindings,
                BuildChunk(span, speaker, decision, binding, lexicon, sequence))
<1> DEFINE voices == DOMAIN bindings
           speaker == ResolveSpeaker(span, text, known, participants, previous)
           binding == ResolveVoiceBinding(speaker, bindings)
           chunk == BuildChunk(span, speaker, decision, binding, lexicon, sequence)
<1>1. chunk.character_id = speaker.id /\ chunk.voice = binding.voice
  BY DEF BuildChunk
<1>2. /\ DOMAIN known = {k \in DOMAIN characters : ~characters[k].merged /\ ~characters[k].sentinel}
      /\ \A k \in DOMAIN known : known[k].id = characters[k].id
  BY DEF LoadSpeakerRegistry
<1>4. \A k \in DOMAIN known : known[k].id \notin {Narrator, Unknown}
  BY <1>2 DEF SpeakersApart
<1>5. \/ speaker.type = "NARRATOR" /\ speaker.id = Narrator
      \/ speaker.type = "UNKNOWN" /\ speaker.id = Unknown
      \/ speaker.type = "CHARACTER" /\ \E k \in DOMAIN known : speaker.id = known[k].id
  <2>1. SpeakerIs(span, text, known, speaker)
    BY ResolvedIs
  <2> HIDE DEF speaker
  <2> QED
    BY <2>1 DEF SpeakerIs
<1> HIDE DEF speaker
<1>6. speaker.type = "CHARACTER" <=> speaker.id \notin {Narrator, Unknown}
  BY <1>4, <1>5
<1>7. binding.voice = IF speaker.type = "CHARACTER" /\ speaker.id \in voices THEN speaker.id
                      ELSE IF Narrator \in voices THEN Narrator ELSE "none"
  BY DEF ResolveVoiceBinding, OwnVoices
<1> HIDE DEF binding, chunk
<1> QED
  BY <1>1, <1>6, <1>7 DEF VoicedFrom, chunk, binding, speaker

\* A list that grows by one element at each step has them all.
Grows(N, list, element) ==
    list[0] = <<>> /\ \A n \in 1..N : list[n] = Append(list[n - 1], element[n])

Lists(N, list, element) ==
    \A n \in 0..N : Len(list[n]) = n /\ DOMAIN list[n] = 1..n /\ \A i \in 1..n : list[n][i] = element[i]

LEMMA ListGrows ==
  ASSUME NEW N \in Nat, NEW list, NEW element, Grows(N, list, element)
  PROVE  Lists(N, list, element)
<1> DEFINE All == {element[i] : i \in 1..N}
           Good(n) == /\ list[n] \in Seq(All) /\ Len(list[n]) = n
                      /\ \A i \in 1..n : list[n][i] = element[i]
           wrong == {m \in 0..N : ~Good(m)}
<1>1. ASSUME NEW m \in wrong, \A t \in wrong : m <= t PROVE FALSE
  <2>1. m \in 0..N /\ ~Good(m)
    OBVIOUS
  <2>2. m # 0
    <3>1. Good(0)
      BY DEF Grows
    <3> QED
      BY <2>1, <3>1
  <2>3. m \in 1..N /\ m - 1 \in 0..N /\ m - 1 < m /\ m \in Nat
    BY <2>1, <2>2
  <2>4. Good(m - 1)
    <3>1. ~(m <= m - 1)
      BY <2>3
    <3>2. m - 1 \notin wrong
      <4> HIDE DEF wrong
      <4> QED
        BY <1>1, <3>1
    <3> HIDE DEF Good
    <3> QED
      BY <2>3, <3>2
  <2>5. list[m] = Append(list[m - 1], element[m])
    BY <2>3 DEF Grows
  <2>6. element[m] \in All
    BY <2>3
  <2> HIDE DEF All
  <2>7. Good(m)
    BY <2>3, <2>4, <2>5, <2>6
  <2> QED
    BY <2>1, <2>7
<1>2. wrong \in SUBSET Nat
  OBVIOUS
<1>3. wrong = {}
  <2> HIDE DEF wrong
  <2> QED
    BY <1>1, <1>2, SmallestNumber
<1>4. \A n \in 0..N : Good(n)
  BY <1>3
<1> HIDE DEF All
<1> QED
  BY <1>4 DEF Lists

\* A mood lasts until the next word that sets one.
Fades(N, moved, own, e) ==
    /\ e[0] = "none"
    /\ \A n \in moved : e[n] = own[n] /\ own[n] # "none"
    /\ \A n \in (1..N) \ moved : e[n] = IF e[n - 1] # "none" THEN e[n - 1] ELSE "NEUTRAL"

Lasts(N, moved, own, e) ==
    \A n \in 1..N : e[n] = IF moved \cap 1..n = {} THEN "NEUTRAL" ELSE own[Max(moved \cap 1..n)]

LEMMA MoodLasts ==
  ASSUME NEW N \in Nat, NEW moved \in SUBSET (1..N), NEW own, NEW e, Fades(N, moved, own, e)
  PROVE  Lasts(N, moved, own, e)
<1> USE DEF Fades, Lasts
<1> DEFINE mood(n) == IF moved \cap 1..n = {} THEN "NEUTRAL" ELSE own[Max(moved \cap 1..n)]
           Good(n) == e[n] = mood(n) /\ e[n] # "none"
           wrong == {m \in 1..N : ~Good(m)}
<1>1. ASSUME NEW m \in wrong, \A t \in wrong : m <= t PROVE FALSE
  <2>1. m \in 1..N /\ ~Good(m)
    OBVIOUS
  <2>2. CASE m \in moved
    <3>1. moved \cap 1..m # {} /\ Max(moved \cap 1..m) = m
      BY <2>1, <2>2, LastMoved
    <3> QED
      BY <2>1, <2>2, <3>1
  <2>3. CASE m \notin moved /\ m = 1
    <3>1. moved \cap 1..1 = {}
      BY <2>3
    <3>2. e[1] = "NEUTRAL"
      BY <2>1, <2>3
    <3> QED
      BY <2>1, <2>3, <3>1, <3>2
  <2>4. CASE m \notin moved /\ m # 1
    <3>1. m - 1 \in 1..N /\ m - 1 < m /\ m \in Nat
      BY <2>1, <2>4
    <3>2. m - 1 \notin wrong
      BY <1>1, <3>1
    <3>3. Good(m - 1)
      BY <3>1, <3>2
    <3>4. moved \cap 1..m = moved \cap 1..(m - 1)
      BY <2>1, <2>4, LastMoved
    <3>5. e[m] = e[m - 1]
      BY <2>1, <2>4, <3>3
    <3> QED
      BY <2>1, <3>3, <3>4, <3>5
  <2> QED
    BY <2>2, <2>3, <2>4
<1>2. wrong \in SUBSET Nat
  OBVIOUS
<1>3. wrong = {}
  <2> HIDE DEF wrong
  <2> QED
    BY <1>1, <1>2, SmallestNumber
<1> QED
  BY <1>3

\* One span more is one chunk more, which says what it may, and its mood is the next
\* span's context.
LEMMA SpanIsAccounted ==
  ASSUME NEW C, NEW characters \in Seq(C),
         SpeakersApart(characters),
         NEW T, NEW span, span.dialogue \in BOOLEAN, NEW text \in Seq(T),
         NEW before, NEW context, context.known = LoadSpeakerRegistry(characters), context.text = text,
         OwnVoices(context.bindings)
  PROVE  LET after == DirectSpan(context, before, span)
             e == after.state.emotion
         IN /\ \E chunk :
                  /\ after.chunks = Append(before.chunks, chunk)
                  /\ ChunkAccounted(characters, text, span, chunk, e)
                  /\ VoicedFrom(DOMAIN context.bindings, chunk)
            /\ span.cues \cap ToSet(EmotionCues) # {} =>
                  e = FirstCue(EmotionCues, span.cues, "NEUTRAL") /\ e # "none"
            /\ span.cues \cap ToSet(EmotionCues) = {} =>
                  e = IF before.state.emotion # "none" THEN before.state.emotion ELSE "NEUTRAL"
<1> DEFINE after == DirectSpan(context, before, span)
           speaker == ResolveSpeaker(span, context.text, context.known, span.participants,
                                     before.state.speaker)
           decision == DecidePerformance(span.cues, span.tension, speaker.id, before.state)
           binding == ResolveVoiceBinding(speaker, context.bindings)
           chunk == BuildChunk(span, speaker, decision, binding, context.lexicon, Len(before.chunks))
<1>1. after = [chunks |-> Append(before.chunks, chunk),
               state |-> [speaker |-> speaker.id, emotion |-> decision.emotion,
                          intensity |-> decision.intensity]]
  BY DEF DirectSpan
<1>2. ChunkAccounted(characters, text, span, chunk, decision.emotion)
  <2> HIDE DEF decision
  <2> QED
    BY ChunkIsAccounted
<1>3. VoicedFrom(DOMAIN context.bindings, chunk)
  <2> HIDE DEF decision
  <2> QED
    BY VoiceIs
<1>4. /\ span.cues \cap ToSet(EmotionCues) # {} =>
             /\ decision.emotion = FirstCue(EmotionCues, span.cues, "NEUTRAL")
             /\ decision.emotion # "none"
      /\ span.cues \cap ToSet(EmotionCues) = {} =>
             decision.emotion = IF before.state.emotion # "none" THEN before.state.emotion
                                ELSE "NEUTRAL"
  <2> HIDE DEF speaker
  <2> QED
    BY EmotionIs
<1> HIDE DEF after, chunk, decision, speaker
<1>5. after.chunks = Append(before.chunks, chunk) /\ after.state.emotion = decision.emotion
  BY <1>1
<1>6. \E c : /\ after.chunks = Append(before.chunks, c)
             /\ ChunkAccounted(characters, text, span, c, after.state.emotion)
             /\ VoicedFrom(DOMAIN context.bindings, c)
  BY <1>2, <1>3, <1>5
<1> QED
  BY <1>4, <1>5, <1>6 DEF after

\* The director never passes a guess off as a fact (speaker_resolver.py, ir_builder.py), for
\* chapters of any length, any cast and any voices; ids are unique and no speaker has a
\* sentinel's.
THEOREM ChapterIsAccounted ==
  ASSUME NEW C, NEW characters \in Seq(C),
         SpeakersApart(characters),
         NEW X, NEW T, NEW text \in Seq(T), NEW spans \in Seq(X),
         \A i \in DOMAIN spans : spans[i].dialogue \in BOOLEAN,
         NEW voices, NEW lexicon
  PROVE  ChapterAccounted(characters, text, spans,
             DirectChapter([known |-> LoadSpeakerRegistry(characters), text |-> text, lexicon |-> lexicon,
                            bindings |-> [v \in voices |-> v]], spans, NoState))
<1> DEFINE N == Len(spans)
           context == [known |-> LoadSpeakerRegistry(characters), text |-> text, lexicon |-> lexicon,
                       bindings |-> [v \in voices |-> v]]
           chunks == DirectChapter(context, spans, NoState)
           own == [n \in 1..N |-> FirstCue(EmotionCues, spans[n].cues, "NEUTRAL")]
           moved == {i \in DOMAIN spans : spans[i].cues \cap ToSet(EmotionCues) # {}}
           mood(i) == IF moved \cap 1..i = {} THEN "NEUTRAL"
                      ELSE FirstCue(EmotionCues, spans[Max(moved \cap 1..i)].cues, "NEUTRAL")
<1>1. N \in Nat /\ DOMAIN spans = 1..N
  OBVIOUS
<1>2. /\ context.known = LoadSpeakerRegistry(characters) /\ context.text = text
      /\ OwnVoices(context.bindings)
  BY DEF OwnVoices
<1> HIDE DEF context
<1>3. PICK run : /\ run[0].chunks = <<>> /\ run[0].state = NoState
                 /\ \A n \in 1..N : run[n] = DirectSpan(context, run[n - 1], spans[n])
                 /\ chunks = run[N].chunks
  BY DirectedRun
<1> HIDE DEF N, chunks
<1> DEFINE list == [n \in 0..N |-> run[n].chunks]
           e == [n \in 0..N |-> run[n].state.emotion]
           Voiced(c) == VoicedFrom(DOMAIN context.bindings, c)
           Good(n, c) == /\ run[n].chunks = Append(run[n - 1].chunks, c)
                         /\ ChunkAccounted(characters, text, spans[n], c, run[n].state.emotion)
                         /\ Voiced(c)
           chunk == [n \in 1..N |-> CHOOSE c : Good(n, c)]
<1>4. ASSUME NEW n \in 1..N
      PROVE  /\ \E c : Good(n, c)
             /\ spans[n].cues \cap ToSet(EmotionCues) # {} =>
                  /\ run[n].state.emotion = FirstCue(EmotionCues, spans[n].cues, "NEUTRAL")
                  /\ run[n].state.emotion # "none"
             /\ spans[n].cues \cap ToSet(EmotionCues) = {} =>
                  run[n].state.emotion = IF run[n - 1].state.emotion # "none"
                                         THEN run[n - 1].state.emotion ELSE "NEUTRAL"
  <2> DEFINE before == run[n - 1]
             span == spans[n]
  <2>1. span.dialogue \in BOOLEAN
    BY <1>1
  <2>2. run[n] = DirectSpan(context, before, span)
    BY <1>3
  <2> HIDE DEF before, span
  <2>3. /\ \E c : /\ run[n].chunks = Append(before.chunks, c)
                  /\ ChunkAccounted(characters, text, span, c, run[n].state.emotion)
                  /\ Voiced(c)
        /\ span.cues \cap ToSet(EmotionCues) # {} =>
             /\ run[n].state.emotion = FirstCue(EmotionCues, span.cues, "NEUTRAL")
             /\ run[n].state.emotion # "none"
        /\ span.cues \cap ToSet(EmotionCues) = {} =>
             run[n].state.emotion = IF before.state.emotion # "none"
                                    THEN before.state.emotion ELSE "NEUTRAL"
    BY <1>2, <2>1, <2>2, SpanIsAccounted
  <2> QED
    BY <2>3 DEF before, span
<1>5. ASSUME NEW n \in 1..N PROVE Good(n, chunk[n])
  <2>1. \E c : Good(n, c)
    BY <1>4
  <2>2. chunk[n] = CHOOSE c : Good(n, c)
    OBVIOUS
  <2> HIDE DEF chunk, Good
  <2> QED
    BY <2>1, <2>2, Zenon
<1>6. ASSUME NEW n \in 1..N
      PROVE  /\ list[n] = run[n].chunks /\ list[n - 1] = run[n - 1].chunks
             /\ e[n] = run[n].state.emotion /\ e[n - 1] = run[n - 1].state.emotion
  <2>1. n \in 0..N /\ n - 1 \in 0..N
    BY <1>1
  <2> QED
    BY <2>1
<1>7. list[0] = <<>> /\ list[N] = run[N].chunks /\ e[0] = "none"
  BY <1>1, <1>3 DEF NoState
<1> HIDE DEF chunk, list, e
<1>8. Len(chunks) = N /\ DOMAIN chunks = 1..N /\ \A i \in 1..N : chunks[i] = chunk[i]
  <2>1. Grows(N, list, chunk)
    BY <1>5, <1>6, <1>7 DEF Grows
  <2>2. Lists(N, list, chunk)
    BY <1>1, <2>1, ListGrows
  <2>3. N \in 0..N
    BY <1>1
  <2> QED
    BY <1>3, <1>7, <2>2, <2>3 DEF Lists
<1>9. ASSUME NEW n \in 1..N PROVE run[n].state.emotion = mood(n)
  <2>1. moved \in SUBSET (1..N)
    BY <1>1
  <2>2. \A k \in moved : e[k] = own[k] /\ own[k] # "none"
    BY <1>1, <1>4, <1>6
  <2>3. \A k \in (1..N) \ moved : e[k] = IF e[k - 1] # "none" THEN e[k - 1] ELSE "NEUTRAL"
    <3> SUFFICES ASSUME NEW k \in 1..N, k \notin moved
                 PROVE  e[k] = IF e[k - 1] # "none" THEN e[k - 1] ELSE "NEUTRAL"
      OBVIOUS
    <3>1. spans[k].cues \cap ToSet(EmotionCues) = {}
      BY <1>1
    <3> QED
      BY <1>4, <1>6, <3>1
  <2>4. \A k \in 1..N : own[k] = FirstCue(EmotionCues, spans[k].cues, "NEUTRAL")
    OBVIOUS
  <2> HIDE DEF own, moved
  <2>5. Fades(N, moved, own, e)
    BY <1>7, <2>2, <2>3 DEF Fades
  <2>6. Lasts(N, moved, own, e)
    BY <1>1, <2>1, <2>5, MoodLasts
  <2>7. moved \cap 1..n # {} => Max(moved \cap 1..n) \in 1..N
    <3> DEFINE S == moved \cap 1..n
    <3>1. S \in SUBSET (0..N) /\ S \subseteq 1..N
      BY <2>1
    <3> HIDE DEF S
    <3>2. S # {} => Max(S) \in 1..N
      BY <1>1, <3>1, MaxIs
    <3> QED
      BY <3>2 DEF S
  <2> QED
    BY <1>6, <2>4, <2>6, <2>7 DEF Lasts
<1>10. ASSUME NEW i \in 1..N
       PROVE  ChunkAccounted(characters, text, spans[i], chunk[i], mood(i)) /\ Voiced(chunk[i])
  <2>1. run[i].state.emotion = mood(i)
    BY <1>9
  <2> HIDE DEF mood
  <2> QED
    BY <1>5, <2>1
<1> HIDE DEF mood
<1>11. ValidateVoiceConsistency(chunks)
  <2> SUFFICES ASSUME NEW c \in ToSet(chunks), NEW d \in ToSet(chunks),
                      c.character_id = d.character_id
               PROVE  c.voice = d.voice
    BY DEF ValidateVoiceConsistency
  <2>1. PICK i \in 1..N : c = chunk[i]
    BY <1>8 DEF ToSet
  <2>2. PICK j \in 1..N : d = chunk[j]
    BY <1>8 DEF ToSet
  <2> QED
    BY <1>10, <2>1, <2>2 DEF VoicedFrom
<1>12. \A i \in DOMAIN chunks : ChunkAccounted(characters, text, spans[i], chunks[i], mood(i))
  BY <1>8, <1>10
<1>13. ChapterAccounted(characters, text, spans, chunks)
  BY <1>8, <1>11, <1>12 DEF ChapterAccounted, mood, moved, N
<1> QED
  BY <1>13 DEF chunks, context

-----------------------------------------------------------------------------
(* Joining what was split *)

\* A time is rounded by half a millisecond at most.
LEMMA RoundingIs ==
  ASSUME NEW f \in Nat
  PROVE  /\ ToMs(f) \in Nat
         /\ 2 * (FramesPerMs * ToMs(f)) - 2 * f <= FramesPerMs
         /\ 2 * f - 2 * (FramesPerMs * ToMs(f)) <= FramesPerMs
<1> DEFINE d == 2 * FramesPerMs
           x == 2 * f + FramesPerMs
           q == x \div d
<1>1. d \in Nat /\ d > 0 /\ x \in Nat /\ FramesPerMs \in Nat
  BY FramesPerMsOdd
<1>2. ToMs(f) = q
  BY DEF ToMs
<1>3. q \in Nat /\ d * q <= x /\ x < d * q + d
  <2> HIDE DEF d, x
  <2> QED
    BY <1>1
<1> HIDE DEF q
<1>4. d * q = 2 * (FramesPerMs * q)
  BY <1>1, <1>3
<1> DEFINE p == FramesPerMs * q
<1>5. p \in Nat
  BY <1>1, <1>3
<1> HIDE DEF p
<1>6. 2 * p <= 2 * f + FramesPerMs /\ 2 * f + FramesPerMs < 2 * p + 2 * FramesPerMs
  BY <1>3, <1>4 DEF p
<1>7. 2 * p - 2 * f <= FramesPerMs /\ 2 * f - 2 * p <= FramesPerMs
  BY <1>1, <1>5, <1>6
<1> QED
  BY <1>2, <1>3, <1>7 DEF p

Durations(frames) == [i \in DOMAIN frames |-> ToMs(frames[i])]

\* Rounded durations are numbers.
LEMMA DurationsAre ==
  ASSUME NEW frames \in Seq(Nat)
  PROVE  /\ Durations(frames) \in Seq(Nat) /\ Len(Durations(frames)) = Len(frames)
         /\ \A i \in 1..Len(frames) : Durations(frames)[i] = ToMs(frames[i])
<1>1. ASSUME NEW i \in DOMAIN frames PROVE ToMs(frames[i]) \in Nat
  <2>1. frames[i] \in Nat
    OBVIOUS
  <2> QED
    BY <2>1, RoundingIs
<1> QED
  BY <1>1 DEF Durations

\* The rounded times stay with the sound: they drift by half a millisecond a piece.
LEMMA DriftIs ==
  ASSUME NEW frames \in Seq(Nat), NEW k \in 0..Len(frames)
  PROVE  LET drift == 2 * (FramesPerMs * Sums(Durations(frames))[k] - Sums(frames)[k])
         IN drift <= FramesPerMs * k /\ -drift <= FramesPerMs * k
<1> DEFINE N == Len(frames)
           ms == Durations(frames)
           a == Sums(ms)
           b == Sums(frames)
           Good(n) == /\ 2 * (FramesPerMs * a[n] - b[n]) <= FramesPerMs * n
                      /\ -(2 * (FramesPerMs * a[n] - b[n])) <= FramesPerMs * n
           wrong == {n \in 0..N : ~Good(n)}
<1>1. /\ N \in Nat /\ frames \in Seq(Int) /\ ms \in Seq(Int) /\ ms \in Seq(Nat) /\ Len(ms) = N
      /\ \A n \in 1..N : ms[n] = ToMs(frames[n]) /\ frames[n] \in Nat
  BY DurationsAre
<1>2. /\ b \in [0..N -> Int] /\ b[0] = 0
      /\ \A n \in 1..N : b[n] = b[n - 1] + frames[n]
  BY <1>1, SumsAre
<1>3. /\ a \in [0..N -> Int] /\ a[0] = 0
      /\ \A n \in 1..N : a[n] = a[n - 1] + ms[n]
  <2> HIDE DEF ms
  <2> QED
    BY <1>1, SumsAre
<1> HIDE DEF a, b, ms, N
<1>4. FramesPerMs \in Nat
  BY FramesPerMsOdd
<1>5. Good(0)
  BY <1>2, <1>3, <1>4
<1>6. ASSUME NEW n \in 1..N, Good(n - 1) PROVE Good(n)
  <2> DEFINE f == frames[n]
             m == ms[n]
             u == a[n - 1]
             v == b[n - 1]
             F == FramesPerMs
  <2>1. f \in Nat /\ m = ToMs(f) /\ n \in Nat /\ n - 1 \in 0..N /\ u \in Int /\ v \in Int
    BY <1>1, <1>2, <1>3
  <2>2. a[n] = u + m /\ b[n] = v + f
    BY <1>2, <1>3
  <2>3. m \in Nat /\ 2 * (F * m) - 2 * f <= F /\ 2 * f - 2 * (F * m) <= F
    BY <2>1, RoundingIs
  <2>4. 2 * (F * u - v) <= F * (n - 1) /\ -(2 * (F * u - v)) <= F * (n - 1)
    BY <1>6
  <2>5. F \in Nat
    BY <1>4
  <2> HIDE DEF f, m, u, v, F
  <2>6. F * (u + m) = F * u + F * m /\ F * (n - 1) = F * n - F
    BY <2>1, <2>3, <2>5
  <2> DEFINE fu == F * u
             fm == F * m
             fn == F * n
  <2>7. fu \in Int /\ fm \in Int /\ fn \in Int
    BY <2>1, <2>3, <2>5
  <2>8. /\ 2 * (fu - v) <= fn - F /\ -(2 * (fu - v)) <= fn - F
        /\ 2 * fm - 2 * f <= F /\ 2 * f - 2 * fm <= F
    BY <2>3, <2>4, <2>6
  <2> HIDE DEF fu, fm, fn
  <2>9. 2 * ((fu + fm) - (v + f)) <= fn /\ -(2 * ((fu + fm) - (v + f))) <= fn
    BY <2>1, <2>5, <2>7, <2>8
  <2>10. 2 * (F * (u + m) - (v + f)) <= F * n /\ -(2 * (F * (u + m) - (v + f))) <= F * n
    BY <2>6, <2>9 DEF fu, fm, fn
  <2> QED
    BY <2>2, <2>10 DEF F
<1> HIDE DEF Good
<1>7. ASSUME NEW m \in wrong, \A t \in wrong : m <= t PROVE FALSE
  <2>1. m \in 1..N /\ m - 1 \in 0..N /\ ~(m <= m - 1) /\ ~Good(m)
    BY <1>1, <1>5
  <2>2. m - 1 \notin wrong
    <3> HIDE DEF wrong
    <3> QED
      BY <1>7, <2>1
  <2>3. Good(m - 1)
    BY <2>1, <2>2
  <2> QED
    BY <1>6, <2>1, <2>3
<1>8. wrong \in SUBSET Nat
  BY <1>1
<1>9. wrong = {}
  <2> HIDE DEF wrong
  <2> QED
    BY <1>7, <1>8, SmallestNumber
<1>10. Good(k)
  BY <1>9 DEF N
<1> QED
  BY <1>10 DEF Good, a, b, ms

\* Pieces laid end to end follow each other, and stay with the sound.
LEMMA PiecesFollow ==
  ASSUME NEW frames \in Seq(Nat)
  PROVE  Timeline(frames, Placed(frames))
<1> DEFINE N == Len(frames)
           ms == Durations(frames)
           a == Sums(ms)
           placed == Placed(frames)
<1>1. N \in Nat /\ DOMAIN frames = 1..N /\ ms \in Seq(Int) /\ Len(ms) = N
  BY DurationsAre
<1>2. placed = [i \in DOMAIN frames |-> [start |-> a[i - 1], duration |-> ms[i]]]
  BY DEF Placed, Durations
<1>3. a[0] = 0 /\ \A n \in 1..N : a[n] = a[n - 1] + ms[n]
  <2> HIDE DEF ms
  <2> QED
    BY <1>1, SumsAre
<1> HIDE DEF a, ms, placed, N
<1>4. \A i \in 1..N : placed[i].start = a[i - 1] /\ placed[i].duration = ms[i]
  BY <1>1, <1>2
<1>5. DOMAIN placed = DOMAIN frames
  BY <1>2
<1>6. ASSUME NEW i \in 1..N
      PROVE  placed[i].start = IF i = 1 THEN 0 ELSE placed[i - 1].start + placed[i - 1].duration
  <2>1. CASE i = 1
    BY <1>3, <1>4, <2>1
  <2>2. CASE i # 1
    <3>1. i - 1 \in 1..N
      BY <1>1, <2>2
    <3>2. placed[i - 1].start = a[(i - 1) - 1] /\ placed[i - 1].duration = ms[i - 1]
      BY <1>4, <3>1
    <3>3. a[i - 1] = a[(i - 1) - 1] + ms[i - 1]
      BY <1>3, <3>1
    <3> QED
      BY <1>4, <2>2, <3>2, <3>3
  <2> QED
    BY <2>1, <2>2
<1>7. ASSUME NEW i \in 1..N
      PROVE  LET drift == 2 * (FramesPerMs * placed[i].start - Sums(frames)[i - 1])
             IN drift <= FramesPerMs * (i - 1) /\ -drift <= FramesPerMs * (i - 1)
  <2> DEFINE j == i - 1
             drift == 2 * (FramesPerMs * a[j] - Sums(frames)[j])
  <2>1. j \in 0..Len(frames)
    BY <1>1 DEF N
  <2> HIDE DEF j
  <2>2. drift <= FramesPerMs * j /\ -drift <= FramesPerMs * j
    BY <2>1, DriftIs DEF a, ms
  <2>3. placed[i].start = a[j]
    BY <1>4 DEF j
  <2> QED
    BY <2>2, <2>3 DEF j
<1>8. Timeline(frames, placed)
  BY <1>1, <1>5, <1>6, <1>7 DEF Timeline
<1> QED
  BY <1>8 DEF placed

\* The greater of two numbers.
LEMMA MaxOfTwo ==
  ASSUME NEW a \in Int, NEW b \in Int
  PROVE  Max({a, b}) = IF a >= b THEN a ELSE b
<1> DEFINE S == {a, b}
<1>1. \E m \in S : \A t \in S : m >= t
  BY DEF S
<1>2. Max(S) \in S /\ \A t \in S : Max(S) >= t
  <2> HIDE DEF S
  <2> QED
    BY <1>1 DEF Max
<1> DEFINE m == Max(S)
<1>3. (m = a \/ m = b) /\ m >= a /\ m >= b
  BY <1>2
<1> HIDE DEF m
<1>4. m = IF a >= b THEN a ELSE b
  BY <1>3
<1> QED
  BY <1>4 DEF m

\* A silence that ffmpeg reports is quiet from its first frame to its last.
LEMMA SilenceIs ==
  ASSUME NEW levels \in Seq(Nat), NEW flushed \in BOOLEAN
  PROVE  LET d == DetectSilence(levels, flushed)
             n == Len(levels)
         IN /\ DOMAIN d \in SUBSET (1..n)
            /\ \A i \in DOMAIN d :
                  /\ d[i].start = i - 1
                  /\ \E e \in i..n : /\ \A k \in i..e : levels[k] < TrimFloor
                                     /\ d[i].end = e \/ (e = n /\ d[i].end = Unset)
<1> DEFINE n == Len(levels)
           d == DetectSilence(levels, flushed)
           quiet(i) == i \in 1..n /\ levels[i] < TrimFloor
           starts == {i \in 1..n : ~quiet(i - 1) /\ \A k \in i..(i + MinSilence - 1) : quiet(k)}
           run(i) == {j \in i..n : \A k \in i..j : quiet(k)}
           end(i) == Max(run(i))
           interval(i) == [start |-> i - 1, end |-> IF end(i) = n /\ ~flushed THEN Unset ELSE end(i)]
<1>0. n \in Nat
  OBVIOUS
<1>1. d = [i \in starts |-> interval(i)]
  BY DEF DetectSilence
<1> HIDE DEF n, d
<1>2. DOMAIN d = starts /\ starts \in SUBSET (1..n)
  BY <1>1
<1>3. ASSUME NEW i \in starts
      PROVE  /\ d[i].start = i - 1
             /\ \E e \in i..n : /\ \A k \in i..e : levels[k] < TrimFloor
                                /\ d[i].end = e \/ (e = n /\ d[i].end = Unset)
  <2>1. i \in 1..n
    OBVIOUS
  <2>2. quiet(i)
    <3>1. i \in i..(i + MinSilence - 1)
      BY <1>0, <2>1 DEF MinSilence
    <3> HIDE DEF quiet
    <3> QED
      BY <3>1
  <2>3. run(i) \in SUBSET (0..n) /\ i \in run(i)
    <3>1. \A k \in i..i : k = i
      BY <1>0, <2>1
    <3>2. i \in run(i)
      <4> HIDE DEF quiet
      <4> QED
        BY <1>0, <2>1, <2>2, <3>1
    <3>3. run(i) \in SUBSET (0..n)
      BY <1>0, <2>1
    <3> QED
      BY <3>2, <3>3
  <2>4. end(i) \in run(i)
    <3> DEFINE R == run(i)
    <3>1. R \in SUBSET (0..n) /\ R # {}
      BY <2>3
    <3> HIDE DEF R
    <3>2. Max(R) \in R
      BY <1>0, <3>1, MaxIs
    <3> QED
      BY <3>2 DEF R
  <2>5. d[i] = interval(i)
    BY <1>1
  <2> DEFINE e == end(i)
  <2>6. e \in i..n /\ \A k \in i..e : levels[k] < TrimFloor
    <3> HIDE DEF e
    <3>1. e \in run(i)
      BY <2>4 DEF e
    <3> QED
      BY <3>1
  <2>7. d[i].start = i - 1 /\ d[i].end = IF e = n /\ ~flushed THEN Unset ELSE e
    <3> HIDE DEF end
    <3> QED
      BY <2>5
  <2> HIDE DEF e
  <2>8. d[i].end = e \/ (e = n /\ d[i].end = Unset)
    BY <2>7
  <2> QED
    BY <2>6, <2>7, <2>8
<1> HIDE DEF starts
<1>4. \A i \in DOMAIN d :
         /\ d[i].start = i - 1
         /\ \E e \in i..n : /\ \A k \in i..e : levels[k] < TrimFloor
                            /\ d[i].end = e \/ (e = n /\ d[i].end = Unset)
  BY <1>2, <1>3
<1> QED
  BY <1>2, <1>4 DEF d, n

\* The probed length is the real one up to half a millisecond.
LEMMA ProbedLength ==
  ASSUME NEW n \in Nat
  PROVE  /\ FramesPerMs * ToMs(n) \in Nat /\ FramesPerMs \div 2 \in Nat
         /\ FramesPerMs * ToMs(n) >= n - FramesPerMs \div 2
<1> DEFINE p == FramesPerMs * ToMs(n)
           h == FramesPerMs \div 2
<1>1. FramesPerMs \in Nat /\ FramesPerMs % 2 = 1
  BY FramesPerMsOdd
<1>2. ToMs(n) \in Nat /\ 2 * n - 2 * p <= FramesPerMs
  BY RoundingIs
<1>3. p \in Nat
  BY <1>1, <1>2
<1>4. h \in Nat /\ FramesPerMs = 2 * h + 1
  BY <1>1
<1> HIDE DEF p, h
<1>5. p >= n - h
  BY <1>2, <1>3, <1>4
<1> QED
  BY <1>3, <1>4, <1>5 DEF p, h

\* What is cut off is quiet but for the tolerance at the edges.
LEMMA CutIsQuiet ==
  ASSUME NEW levels \in Seq(Nat), NEW flushed \in BOOLEAN
  PROVE  \E a \in Nat, b \in Nat :
             /\ KeptFrames(levels, flushed) = (a + 1)..b
             /\ \A i \in DOMAIN levels : (levels[i] >= TrimFloor /\ i <= a) => i <= Epsilon
             /\ \A i \in DOMAIN levels : (levels[i] >= TrimFloor /\ i > b) =>
                    i > Len(levels) - Epsilon - FramesPerMs \div 2
<1> DEFINE n == Len(levels)
           h == FramesPerMs \div 2
           total == FramesPerMs * ToMs(n)
           d == DetectSilence(levels, flushed)
           first == d[Min(DOMAIN d)]
           last == d[Max(DOMAIN d)]
           start == IF DOMAIN d # {} /\ first.start <= Epsilon /\ first.end # Unset /\ first.end < total
                    THEN first.end ELSE Unset
           trails == /\ (IF last.end = Unset THEN total ELSE last.end) >= total - Epsilon
                     /\ last.start > Max({start, 0}) + Epsilon
           end == IF DOMAIN d # {} /\ trails THEN last.start ELSE Unset
           a == Max({start, 0})
           b == IF end = Unset THEN n ELSE end
<1>0. n \in Nat /\ DOMAIN levels = 1..n /\ \A i \in 1..n : levels[i] \in Nat
  OBVIOUS
<1>1. total \in Nat /\ h \in Nat /\ total >= n - h
  BY <1>0, ProbedLength
<1>2. KeptFrames(levels, flushed) = (a + 1)..b
  <2> HIDE DEF d, total, n
  <2>1. ComputeLeadTrailTrim(d, total).start = start /\ ComputeLeadTrailTrim(d, total).end = end
    BY DEF ComputeLeadTrailTrim
  <2> HIDE DEF start, end
  <2> QED
    BY <2>1 DEF KeptFrames, d, total, n
<1>3. /\ DOMAIN d \in SUBSET (1..n)
      /\ \A i \in DOMAIN d :
            /\ d[i].start = i - 1
            /\ \E e \in i..n : /\ \A k \in i..e : levels[k] < TrimFloor
                               /\ d[i].end = e \/ (e = n /\ d[i].end = Unset)
  BY SilenceIs
<1> HIDE DEF n, h, total, d
<1>4. DOMAIN d # {} => Min(DOMAIN d) \in DOMAIN d /\ Max(DOMAIN d) \in DOMAIN d
  <2> DEFINE D == DOMAIN d
  <2>1. D \in SUBSET Nat /\ D \in SUBSET (0..n)
    BY <1>0, <1>3
  <2> HIDE DEF D
  <2>2. D # {} => Min(D) \in D /\ Max(D) \in D
    BY <1>0, <2>1, MinIs, MaxIs
  <2> QED
    BY <2>2 DEF D
<1>5. /\ start = Unset \/ start \in Nat
      /\ \A i \in 1..n : (levels[i] >= TrimFloor /\ i <= start) => i <= Epsilon
  <2>1. CASE start = Unset
    <3>1. \A i \in 1..n : ~(i <= Unset)
      BY <1>0 DEF Unset
    <3> QED
      BY <2>1, <3>1
  <2>2. CASE start # Unset
    <3> DEFINE s == Min(DOMAIN d)
    <3>1. DOMAIN d # {} /\ first.start <= Epsilon /\ first.end # Unset /\ start = first.end
      BY <2>2
    <3>2. s \in DOMAIN d
      BY <1>4, <3>1
    <3> HIDE DEF s
    <3>3. first = d[s]
      BY DEF s
    <3> HIDE DEF first
    <3>4. PICK e \in s..n : (\A k \in s..e : levels[k] < TrimFloor) /\ start = e
      BY <1>3, <3>1, <3>2, <3>3
    <3>5. s \in 1..n /\ s - 1 <= Epsilon
      BY <1>3, <3>1, <3>2, <3>3
    <3>6. ASSUME NEW i \in 1..n, levels[i] >= TrimFloor, i <= e PROVE i <= Epsilon
      <4>1. ~(i \in s..e)
        BY <1>0, <3>4, <3>6 DEF TrimFloor
      <4> QED
        BY <1>0, <3>4, <3>5, <3>6, <4>1 DEF Epsilon
    <3> HIDE DEF start
    <3>7. start \in Nat
      BY <1>0, <3>4, <3>5
    <3> QED
      BY <3>4, <3>6, <3>7
  <2> QED
    BY <2>1, <2>2
<1>6. a \in Nat /\ \A i \in 1..n : (levels[i] >= TrimFloor /\ i <= a) => i <= Epsilon
  <2> HIDE DEF start
  <2>1. start \in Int /\ 0 \in Int
    BY <1>5 DEF Unset
  <2>2. a = IF start >= 0 THEN start ELSE 0
    BY <2>1, MaxOfTwo
  <2> HIDE DEF a
  <2> QED
    BY <1>5, <2>1, <2>2 DEF Epsilon, Unset
<1> HIDE DEF start, a, first
<1>7. b \in Nat /\ \A i \in 1..n : (levels[i] >= TrimFloor /\ i > b) => i > n - Epsilon - h
  <2>1. CASE end = Unset
    <3>1. b = n
      BY <2>1
    <3> HIDE DEF b, end, trails, last
    <3>2. \A i \in 1..n : ~(i > n)
      BY <1>0
    <3> QED
      BY <1>0, <3>1, <3>2
  <2>2. CASE end # Unset
    <3> DEFINE t == Max(DOMAIN d)
    <3>1. DOMAIN d # {} /\ trails /\ end = last.start /\ b = last.start
      BY <2>2
    <3>2. t \in DOMAIN d
      BY <1>4, <3>1
    <3>3. last = d[t]
      OBVIOUS
    <3>4. (IF last.end = Unset THEN total ELSE last.end) >= total - Epsilon
      BY <3>1
    <3> HIDE DEF t, last, b, end, trails
    <3>5. last.start = t - 1 /\ t \in 1..n
      BY <1>3, <3>2, <3>3
    <3>6. PICK e \in t..n : /\ \A k \in t..e : levels[k] < TrimFloor
                            /\ last.end = e \/ (e = n /\ last.end = Unset)
      BY <1>3, <3>2, <3>3
    <3>7. e = n \/ e >= total - Epsilon
      <4>1. e \in Nat
        BY <1>0, <3>5, <3>6
      <4> QED
        BY <3>4, <3>6, <4>1 DEF Unset
    <3>8. ASSUME NEW i \in 1..n, levels[i] >= TrimFloor, i > b PROVE i > n - Epsilon - h
      <4>1. ~(i \in t..e)
        BY <1>0, <3>6, <3>8 DEF TrimFloor
      <4>2. i > e
        BY <1>0, <3>1, <3>5, <3>6, <3>8, <4>1
      <4> QED
        BY <1>0, <1>1, <3>5, <3>6, <3>7, <4>2 DEF Epsilon
    <3>9. b \in Nat
      BY <1>0, <3>1, <3>5
    <3> QED
      BY <3>8, <3>9
  <2> QED
    BY <2>1, <2>2
<1> HIDE DEF b
<1>8. \E aa \in Nat, bb \in Nat :
         /\ KeptFrames(levels, flushed) = (aa + 1)..bb
         /\ \A i \in 1..n : (levels[i] >= TrimFloor /\ i <= aa) => i <= Epsilon
         /\ \A i \in 1..n : (levels[i] >= TrimFloor /\ i > bb) => i > n - Epsilon - h
  BY <1>2, <1>6, <1>7
<1> QED
  BY <1>0, <1>8 DEF n, h

\* Trimming loses sound at the edges only, and never a chunk with more sound than the
\* edges may hold.
LEMMA TrimmingKeepsSound ==
  ASSUME NEW levels \in Seq(Nat), NEW flushed \in BOOLEAN
  PROVE  TrimKeepsSound(levels, KeptFrames(levels, flushed))
<1> DEFINE n == Len(levels)
           h == FramesPerMs \div 2
           kept == KeptFrames(levels, flushed)
           loud == {i \in DOMAIN levels : levels[i] >= TrimFloor}
<1>0. n \in Nat /\ DOMAIN levels = 1..n /\ h \in Nat
  BY ProbedLength
<1>1. PICK a \in Nat, b \in Nat :
         /\ kept = (a + 1)..b
         /\ \A i \in DOMAIN levels : (levels[i] >= TrimFloor /\ i <= a) => i <= Epsilon
         /\ \A i \in DOMAIN levels : (levels[i] >= TrimFloor /\ i > b) => i > n - Epsilon - h
  BY CutIsQuiet
<1> HIDE DEF n, h, kept
<1>2. ASSUME NEW i \in loud, i \notin kept PROVE i <= Epsilon \/ i > n - Epsilon - h
  <2>1. i \in Nat /\ (i <= a \/ i > b)
    BY <1>0, <1>1, <1>2
  <2> QED
    BY <1>1, <2>1
<1>3. ASSUME kept = {} PROVE Cardinality(loud) <= 2 * Epsilon + h
  <2> DEFINE lower == 1..Epsilon
             lo == n - Epsilon - h + 1
             upper == lo..n
             both == lower \cup upper
  <2>0. Epsilon \in Nat /\ Epsilon >= 0 /\ lo \in Int /\ n \in Int /\ 1 \in Int
    BY <1>0 DEF Epsilon
  <2>1. loud \subseteq both
    <3> SUFFICES ASSUME NEW i \in loud PROVE i \in both
      OBVIOUS
    <3>1. i \in 1..n /\ (i <= Epsilon \/ i > n - Epsilon - h)
      BY <1>0, <1>2, <1>3
    <3> QED
      BY <1>0, <2>0, <3>1
  <2>2. IsFiniteSet(lower) /\ Cardinality(lower) = Epsilon
    BY <2>0, FS_Interval
  <2>3. IsFiniteSet(upper) /\ Cardinality(upper) \in Nat /\ Cardinality(upper) <= Epsilon + h
    <3>1. IsFiniteSet(upper) /\ Cardinality(upper) = IF lo > n THEN 0 ELSE n - lo + 1
      <4> HIDE DEF lo
      <4> QED
        BY <2>0, FS_Interval
    <3> HIDE DEF upper
    <3> QED
      BY <1>0, <2>0, <3>1
  <2> HIDE DEF lower, upper
  <2>4. IsFiniteSet(both) /\ Cardinality(both) <= Cardinality(lower) + Cardinality(upper)
    <3>1. /\ IsFiniteSet(both)
          /\ Cardinality(both) = Cardinality(lower) + Cardinality(upper) - Cardinality(lower \cap upper)
      BY <2>2, <2>3, FS_Union
    <3>2. Cardinality(lower \cap upper) \in Nat
      BY <2>2, FS_Intersection, FS_CardinalityType
    <3> QED
      BY <2>0, <2>2, <2>3, <3>1, <3>2
  <2>5. Cardinality(both) \in Nat
    BY <2>4, FS_CardinalityType
  <2> HIDE DEF both, loud
  <2>6. Cardinality(loud) \in Nat /\ Cardinality(loud) <= Cardinality(both)
    BY <2>1, <2>4, FS_Subset, FS_CardinalityType
  <2> QED
    BY <1>0, <2>0, <2>2, <2>3, <2>4, <2>5, <2>6
<1>4. Cardinality(loud) > 2 * Epsilon + h => kept # {}
  <2>1. IsFiniteSet(1..n) /\ loud \subseteq 1..n
    BY <1>0, FS_Interval
  <2>2. Cardinality(loud) \in Nat
    <3> HIDE DEF loud
    <3> QED
      BY <2>1, FS_Subset, FS_CardinalityType
  <2> HIDE DEF loud
  <2> QED
    BY <1>0, <1>3, <2>2 DEF Epsilon
<1> QED
  BY <1>2, <1>4 DEF TrimKeepsSound, kept, n, h

\* The chunks and chapters that assembly joins.
PauseRows == [position : {"LEADING", "OFFSET", "TRAILING"}, ms : Nat]
ChunkRows == [levels : Seq(Nat), pauses : Seq(PauseRows)]
ChapterRows == [chunks : Seq(ChunkRows), loudness : Nat]

\* The pauses of a chunk have a length.
LEMMA PausesAre ==
  ASSUME NEW pauses \in Seq(PauseRows), NEW position
  PROVE  SumPauseMs(pauses, position) \in Nat
<1> DEFINE numbers == [i \in DOMAIN pauses |-> IF pauses[i].position = position THEN pauses[i].ms ELSE 0]
<1>0. \A i \in DOMAIN pauses : pauses[i] \in PauseRows
  OBVIOUS
<1>1. \A i \in DOMAIN pauses : pauses[i].ms \in Nat
  BY <1>0 DEF PauseRows
<1>2. numbers \in Seq(Nat) /\ Len(numbers) \in Nat
  BY <1>1
<1>3. SumPauseMs(pauses, position) = Total(numbers)
  BY DEF SumPauseMs
<1> HIDE DEF numbers
<1>4. Len(numbers) \in 0..Len(numbers)
  BY <1>2
<1> QED
  BY <1>2, <1>3, <1>4, NaturalSums DEF Total

\* A chunk has a length.
LEMMA ChunkFramesAre ==
  ASSUME NEW chunk \in ChunkRows
  PROVE  ChunkFrames(chunk) \in Nat
<1> DEFINE kept == KeptFrames(chunk.levels, TRUE)
           lead == SumPauseMs(chunk.pauses, "LEADING")
           trail == SumPauseMs(chunk.pauses, "TRAILING")
<1>1. chunk.levels \in Seq(Nat) /\ chunk.pauses \in Seq(PauseRows)
  BY DEF ChunkRows
<1>2. lead \in Nat /\ trail \in Nat
  BY <1>1, PausesAre
<1>3. Cardinality(kept) \in Nat
  <2> DEFINE levels == chunk.levels
             flushed == TRUE
  <2>1. levels \in Seq(Nat) /\ flushed \in BOOLEAN
    BY <1>1
  <2> HIDE DEF levels, flushed
  <2>2. PICK a \in Nat, b \in Nat : KeptFrames(levels, flushed) = (a + 1)..b
    BY <2>1, CutIsQuiet
  <2>3. IsFiniteSet((a + 1)..b)
    BY FS_Interval
  <2> QED
    BY <2>2, <2>3, FS_CardinalityType DEF levels, flushed
<1>4. FramesPerMs \in Nat
  BY FramesPerMsOdd
<1> HIDE DEF kept, lead, trail
<1>5. FramesPerMs * lead \in Nat /\ FramesPerMs * trail \in Nat
  BY <1>2, <1>4
<1>6. ChunkFrames(chunk) = Cardinality(kept) + FramesPerMs * lead + FramesPerMs * trail
  BY DEF ChunkFrames, PauseFrames, kept, lead, trail
<1> QED
  BY <1>3, <1>5, <1>6

FramesOf(chunks) == [i \in DOMAIN chunks |-> ChunkFrames(chunks[i])]

\* A chapter is as long as its chunks, which follow each other.
LEMMA ChapterIsJoined ==
  ASSUME NEW chunks \in Seq(ChunkRows)
  PROVE  /\ AssembleChapterAudio(chunks).frames \in Nat
         /\ Timeline(FramesOf(chunks), AssembleChapterAudio(chunks).members)
<1> DEFINE frames == FramesOf(chunks)
<1>1. ASSUME NEW i \in DOMAIN chunks PROVE ChunkFrames(chunks[i]) \in Nat
  <2>1. chunks[i] \in ChunkRows
    OBVIOUS
  <2> QED
    BY <2>1, ChunkFramesAre
<1>2. frames \in Seq(Nat) /\ Len(frames) \in Nat
  BY <1>1 DEF FramesOf
<1>3. AssembleChapterAudio(chunks).frames = Total(frames)
      /\ AssembleChapterAudio(chunks).members = Placed(frames)
  BY DEF AssembleChapterAudio, FramesOf
<1> HIDE DEF frames
<1>4. Len(frames) \in 0..Len(frames)
  BY <1>2
<1>5. Total(frames) \in Nat
  BY <1>2, <1>4, NaturalSums DEF Total
<1>6. Timeline(frames, Placed(frames))
  BY <1>2, PiecesFollow
<1> QED
  BY <1>3, <1>5, <1>6 DEF frames

\* No chapter stands out from the mean.
LEMMA LoudnessIsMatched ==
  ASSUME NEW loudness \in Seq(Nat), NEW c \in 1..Len(loudness)
  PROVE  LET n == Len(loudness)
         IN MatchLoudness(loudness)[c] - Total(loudness) \in (-n * Tolerance)..(n * Tolerance)
<1> DEFINE n == Len(loudness)
           sum == Total(loudness)
           l == loudness[c]
           m == MatchLoudness(loudness)[c]
<1>1. n \in Nat /\ l \in Nat /\ DOMAIN loudness = 1..n
  OBVIOUS
<1>2. sum \in Nat
  BY <1>1, NaturalSums DEF Total
<1>3. m = IF n * l - sum > n * Tolerance \/ sum - n * l > n * Tolerance THEN sum ELSE n * l
  BY <1>1 DEF MatchLoudness
<1>4. n * Tolerance = n /\ -n * Tolerance = -n
  <2> HIDE DEF n
  <2> QED
    BY <1>1 DEF Tolerance
<1> DEFINE p == n * l
<1>5. p \in Nat
  BY <1>1
<1> HIDE DEF n, sum, l, m, p
<1>6. m = IF p - sum > n \/ sum - p > n THEN sum ELSE p
  BY <1>3, <1>4 DEF p
<1>7. m - sum \in (-n)..n
  BY <1>1, <1>2, <1>5, <1>6
<1> QED
  BY <1>4, <1>7 DEF n, sum, m

\* The markers follow each other, and the last ends where the book does, up to half a
\* millisecond a chapter.
LEMMA MarkersFollow ==
  ASSUME NEW frames \in Seq(Nat)
  PROVE  LET markers == BuildFfmetadataChapters(Placed(frames))
             n == Len(frames)
             lag == 2 * (FramesPerMs * markers[n].end - Total(frames))
         IN /\ \A c \in 2..n : markers[c].start = markers[c - 1].end
            /\ n > 0 => lag <= FramesPerMs * n /\ -lag <= FramesPerMs * n
<1> DEFINE n == Len(frames)
           ms == Durations(frames)
           a == Sums(ms)
           placed == Placed(frames)
           markers == BuildFfmetadataChapters(placed)
<1>1. n \in Nat /\ DOMAIN frames = 1..n /\ ms \in Seq(Int) /\ Len(ms) = n
  BY DurationsAre
<1>2. placed = [i \in DOMAIN frames |-> [start |-> a[i - 1], duration |-> ms[i]]]
  BY DEF Placed, Durations
<1>3. \A k \in 1..n : a[k] = a[k - 1] + ms[k]
  <2> HIDE DEF ms
  <2> QED
    BY <1>1, SumsAre
<1> HIDE DEF a, ms, placed, n
<1>4. DOMAIN placed = 1..n /\ \A i \in 1..n : placed[i].start = a[i - 1] /\ placed[i].duration = ms[i]
  BY <1>1, <1>2
<1>5. \A i \in 1..n : markers[i].start = placed[i].start
                      /\ markers[i].end = placed[i].start + placed[i].duration
  BY <1>4 DEF BuildFfmetadataChapters
<1> HIDE DEF markers
<1>6. \A i \in 1..n : markers[i].start = a[i - 1] /\ markers[i].end = a[i]
  BY <1>3, <1>4, <1>5
<1>7. ASSUME NEW c \in 2..n PROVE markers[c].start = markers[c - 1].end
  <2>1. c \in 1..n /\ c - 1 \in 1..n
    BY <1>1
  <2> QED
    BY <1>6, <2>1
<1>8. ASSUME n > 0
      PROVE  LET lag == 2 * (FramesPerMs * markers[n].end - Total(frames))
             IN lag <= FramesPerMs * n /\ -lag <= FramesPerMs * n
  <2>1. n \in 1..n /\ n \in 0..Len(frames)
    BY <1>1, <1>8 DEF n
  <2>2. markers[n].end = a[n] /\ Total(frames) = Sums(frames)[n]
    BY <1>6, <2>1 DEF Total, n
  <2> DEFINE drift == 2 * (FramesPerMs * a[n] - Sums(frames)[n])
  <2>3. drift <= FramesPerMs * n /\ -drift <= FramesPerMs * n
    BY <2>1, DriftIs DEF a, ms
  <2> QED
    BY <2>2, <2>3
<1> QED
  BY <1>7, <1>8 DEF markers, placed, n

\* A book is joined without gap, overlap or chapter that stands out.
LEMMA BookIsJoined ==
  ASSUME NEW book \in Seq(ChapterRows)
  PROVE  BookJoined(book, AssembleAudiobookMaster(book))
<1> DEFINE n == Len(book)
           frames == [c \in DOMAIN book |-> AssembleChapterAudio(book[c].chunks).frames]
           loudness == [c \in DOMAIN book |-> book[c].loudness]
           master == AssembleAudiobookMaster(book)
           joined == [c \in DOMAIN book |-> AssembleChapterAudio(book[c].chunks)]
           markers == BuildFfmetadataChapters(master.chapters)
<1>1. n \in Nat /\ DOMAIN book = 1..n
  OBVIOUS
<1>0. \A c \in 1..n : book[c] \in ChapterRows
  OBVIOUS
<1>2. \A c \in 1..n : book[c].chunks \in Seq(ChunkRows) /\ book[c].loudness \in Nat
  BY <1>0 DEF ChapterRows
<1>3. \A c \in 1..n : /\ AssembleChapterAudio(book[c].chunks).frames \in Nat
                      /\ Timeline(FramesOf(book[c].chunks), AssembleChapterAudio(book[c].chunks).members)
  BY <1>2, ChapterIsJoined
<1>4. frames \in Seq(Nat) /\ Len(frames) = n /\ loudness \in Seq(Nat) /\ Len(loudness) = n
  BY <1>1, <1>2, <1>3
<1>5. /\ master.chapters = Placed(frames) /\ master.frames = Total(frames)
      /\ master.loudness = MatchLoudness(loudness)
  <2>1. master = [chapters |-> Placed(frames), frames |-> Total(frames),
                  loudness |-> MatchLoudness(loudness)]
    BY DEF AssembleAudiobookMaster
  <2> HIDE DEF master, frames, loudness
  <2> QED
    BY <2>1
<1>6. [c \in DOMAIN book |-> joined[c].frames] = frames
  OBVIOUS
<1>7. \A c \in DOMAIN book :
         Timeline([i \in DOMAIN book[c].chunks |-> ChunkFrames(book[c].chunks[i])], joined[c].members)
  BY <1>1, <1>3 DEF FramesOf
<1> HIDE DEF master, frames, loudness, n, joined
<1>8. Timeline(frames, master.chapters)
  BY <1>4, <1>5, PiecesFollow
<1>9. \A c \in 2..n : markers[c].start = markers[c - 1].end
  BY <1>4, <1>5, MarkersFollow
<1>10. n > 0 => LET lag == 2 * (FramesPerMs * markers[n].end - master.frames)
                IN lag <= FramesPerMs * n /\ -lag <= FramesPerMs * n
  BY <1>4, <1>5, MarkersFollow
<1>11. \A c \in 1..n : master.loudness[c] - Total(loudness) \in (-n * Tolerance)..(n * Tolerance)
  BY <1>4, <1>5, LoudnessIsMatched
<1> QED
  BY <1>6, <1>7, <1>8, <1>9, <1>10, <1>11 DEF BookJoined, n, joined, loudness, master

-----------------------------------------------------------------------------
(* Splitting and covering a paragraph *)

\* Spans of a paragraph, the order they are sorted in, and where the text is covered to.
SpanRows == [start : Nat, end : Nat, dialogue : BOOLEAN]

SortsBefore(spans, i, j) ==
    \/ spans[i].start < spans[j].start
    \/ /\ spans[i].start = spans[j].start
       /\ spans[i].end < spans[j].end \/ (spans[i].end = spans[j].end /\ i < j)

CoveredTo(spans, S) == Max({0} \cup {spans[i].end : i \in S})

\* The text is covered to the last end, or nowhere.
LEMMA CoverageIs ==
  ASSUME NEW spans \in Seq(SpanRows), NEW S \in SUBSET DOMAIN spans
  PROVE  /\ CoveredTo(spans, S) \in Nat
         /\ \A i \in S : spans[i].end <= CoveredTo(spans, S)
         /\ CoveredTo(spans, S) = 0 \/ \E i \in S : spans[i].end = CoveredTo(spans, S)
<1> DEFINE n == Len(spans)
           f == [i \in 1..n |-> spans[i].end]
           E == {0} \cup {spans[i].end : i \in S}
<1>1. n \in Nat /\ DOMAIN spans = 1..n /\ \A i \in 1..n : spans[i] \in SpanRows
  OBVIOUS
<1>2. \A i \in 1..n : spans[i].end \in Nat
  BY <1>1 DEF SpanRows
<1> HIDE DEF n
<1>3. f \in [1..n -> Nat] /\ \A i \in 1..n : f[i] = spans[i].end
  BY <1>2
<1> HIDE DEF f
<1>4. PICK b \in Nat : \A i \in 1..n : f[i] <= b
  BY <1>1, <1>3, EnumerationIsBounded
<1>5. E \in SUBSET (0..b) /\ 0 \in E
  BY <1>1, <1>2, <1>3, <1>4
<1>6. Max(E) \in E /\ \A t \in E : t <= Max(E)
  <2> HIDE DEF E
  <2> QED
    BY <1>5, MaxIs
<1> DEFINE m == Max(E)
<1>7. CoveredTo(spans, S) = m
  BY DEF CoveredTo
<1> HIDE DEF m
<1>8. m \in E /\ \A t \in E : t <= m
  BY <1>6 DEF m
<1>9. m \in 0..b /\ (\A i \in S : spans[i].end <= m) /\ (m = 0 \/ \E i \in S : spans[i].end = m)
  BY <1>5, <1>8
<1> QED
  BY <1>7, <1>9

\* Among spans there is one that sorts before all others.
LEMMA FirstSpan ==
  ASSUME NEW spans \in Seq(SpanRows), NEW W \in SUBSET DOMAIN spans, W # {}
  PROVE  \E j \in W : \A i \in W : ~SortsBefore(spans, i, j)
<1> DEFINE A == {spans[i].start : i \in W}
<1>0. \A i \in W : spans[i] \in SpanRows /\ i \in Nat
  OBVIOUS
<1>1. \A i \in W : spans[i].start \in Nat /\ spans[i].end \in Nat
  BY <1>0 DEF SpanRows
<1>2. PICK s \in A : \A t \in A : s <= t
  <2>1. A \in SUBSET Nat /\ A # {}
    BY <1>1
  <2> HIDE DEF A
  <2> QED
    BY <2>1, SmallestNumber
<1> DEFINE V == {i \in W : spans[i].start = s}
           B == {spans[i].end : i \in V}
<1>3. V # {} /\ V \subseteq W
  BY <1>2
<1>4. PICK e \in B : \A t \in B : e <= t
  <2>1. B \in SUBSET Nat /\ B # {}
    BY <1>1, <1>3
  <2> HIDE DEF B
  <2> QED
    BY <2>1, SmallestNumber
<1> DEFINE U == {i \in V : spans[i].end = e}
<1>5. PICK j \in U : \A t \in U : j <= t
  <2>1. U \in SUBSET Nat /\ U # {}
    BY <1>0, <1>4
  <2> HIDE DEF U
  <2> QED
    BY <2>1, SmallestNumber
<1>6. j \in W /\ spans[j].start = s /\ spans[j].end = e
  BY <1>5
<1>7. ASSUME NEW i \in W, SortsBefore(spans, i, j) PROVE FALSE
  <2> DEFINE p == spans[i].start
             q == spans[i].end
  <2>1. /\ p \in Nat /\ q \in Nat /\ s \in Nat /\ e \in Nat /\ i \in Nat /\ j \in Nat
    BY <1>0, <1>1, <1>6
  <2>2. s <= p
    BY <1>2
  <2>3. p = s => e <= q
    BY <1>4
  <2>4. p = s /\ q = e => j <= i
    BY <1>5
  <2>5. p < s \/ (p = s /\ (q < e \/ (q = e /\ i < j)))
    BY <1>6, <1>7 DEF SortsBefore
  <2> HIDE DEF p, q
  <2> QED
    BY <2>1, <2>2, <2>3, <2>4, <2>5
<1> QED
  BY <1>6, <1>7

\* What validate_coverage accepts covers each character exactly once.
LEMMA AcceptedSpansCover ==
  ASSUME NEW length \in Nat, NEW spans \in Seq(SpanRows), ValidateCoverage(length, spans),
         NEW c \in 0..(length - 1)
  PROVE  Cardinality({i \in DOMAIN spans : spans[i].start <= c /\ c < spans[i].end}) = 1
<1> DEFINE D == DOMAIN spans
           earlier(j) == {i \in D : SortsBefore(spans, i, j)}
           over == {i \in D : spans[i].start <= c /\ c < spans[i].end}
           W == {i \in D : c < spans[i].end}
<1>0. \A i \in D : spans[i].start \in Nat /\ spans[i].end \in Nat /\ i \in Nat
  <2>1. \A i \in D : spans[i] \in SpanRows /\ i \in Nat
    OBVIOUS
  <2> QED
    BY <2>1 DEF SpanRows
<1>1. /\ \A j \in D : spans[j].start = CoveredTo(spans, earlier(j))
      /\ CoveredTo(spans, D) >= length
  BY DEF ValidateCoverage, CoveredTo, SortsBefore
<1>2. c \in Nat /\ c < length
  OBVIOUS
<1> HIDE DEF D
<1>3. W # {}
  <2>1. D \in SUBSET DOMAIN spans
    BY DEF D
  <2>2. CoveredTo(spans, D) \in Nat /\ CoveredTo(spans, D) > c
    BY <1>1, <1>2, <2>1, CoverageIs
  <2>3. PICK i \in D : spans[i].end = CoveredTo(spans, D)
    BY <1>2, <2>1, <2>2, CoverageIs
  <2> QED
    BY <2>2, <2>3
<1>4. PICK j \in W : \A i \in W : ~SortsBefore(spans, i, j)
  <2>1. W \in SUBSET DOMAIN spans
    BY DEF D
  <2> HIDE DEF W
  <2> QED
    BY <1>3, <2>1, FirstSpan
<1>5. spans[j].start <= c
  <2> DEFINE S == earlier(j)
             r == CoveredTo(spans, S)
  <2>1. S \in SUBSET DOMAIN spans
    BY DEF D
  <2>2. \A i \in S : ~(c < spans[i].end)
    BY <1>4
  <2>3. spans[j].start = r
    BY <1>1, <1>4
  <2> HIDE DEF S
  <2>4. r \in Nat /\ (r = 0 \/ \E i \in S : spans[i].end = r)
    BY <2>1, CoverageIs
  <2> HIDE DEF r
  <2>5. r <= c
    BY <1>2, <2>2, <2>4
  <2> QED
    BY <2>3, <2>5
<1>6. ASSUME NEW i \in over, NEW k \in over, SortsBefore(spans, i, k) PROVE FALSE
  <2> DEFINE S == earlier(k)
             r == CoveredTo(spans, S)
  <2>1. S \in SUBSET DOMAIN spans /\ i \in S
    BY <1>6 DEF D
  <2>2. spans[k].start = r
    BY <1>1
  <2> HIDE DEF S
  <2>3. r \in Nat /\ spans[i].end <= r
    BY <2>1, CoverageIs
  <2>4. spans[k].start <= c /\ c < spans[i].end /\ spans[i].end \in Nat
    BY <1>0
  <2> HIDE DEF r
  <2> QED
    BY <1>2, <2>2, <2>3, <2>4
<1>7. ASSUME NEW i \in D, i # j PROVE SortsBefore(spans, i, j) \/ SortsBefore(spans, j, i)
  <2> DEFINE p == spans[i].start
             q == spans[i].end
             s == spans[j].start
             e == spans[j].end
  <2>1. p \in Nat /\ q \in Nat /\ s \in Nat /\ e \in Nat /\ i \in Nat /\ j \in Nat
    BY <1>0
  <2>2. /\ (p < s \/ (p = s /\ (q < e \/ (q = e /\ i < j)))) => SortsBefore(spans, i, j)
        /\ (s < p \/ (s = p /\ (e < q \/ (e = q /\ j < i)))) => SortsBefore(spans, j, i)
    BY DEF SortsBefore
  <2> HIDE DEF p, q, s, e
  <2>3. \/ p < s \/ (p = s /\ (q < e \/ (q = e /\ i < j)))
        \/ s < p \/ (s = p /\ (e < q \/ (e = q /\ j < i)))
    BY <1>7, <2>1
  <2> QED
    BY <2>2, <2>3
<1>8. j \in over /\ \A i \in over : i = j
  BY <1>4, <1>5, <1>6, <1>7
<1>9. over = {j}
  BY <1>8
<1> QED
  BY <1>9, FS_Singleton DEF D

\* Spans that follow each other from a to b, none empty or longer than m.
Chain(p, a, b, m) ==
    /\ p \in Seq(SpanRows)
    /\ p = <<>> => a = b
    /\ p # <<>> => p[1].start = a /\ p[Len(p)].end = b
    /\ \A i \in 2..Len(p) : p[i].start = p[i - 1].end
    /\ \A i \in 1..Len(p) : p[i].start < p[i].end /\ p[i].end - p[i].start <= m

\* Two chains that meet make a chain.
LEMMA ChainConcat ==
  ASSUME NEW a \in Nat, NEW b \in Nat, NEW c \in Nat, NEW m \in Nat,
         NEW p, NEW q, Chain(p, a, b, m), Chain(q, b, c, m)
  PROVE  Chain(p \o q, a, c, m)
<1> DEFINE k == Len(p)
           l == Len(q)
           r == p \o q
<1>1. p \in Seq(SpanRows) /\ q \in Seq(SpanRows) /\ k \in Nat /\ l \in Nat
  BY DEF Chain
<1>2. r \in Seq(SpanRows) /\ Len(r) = k + l
  BY <1>1
<1>3. /\ \A i \in 1..k : r[i] = p[i]
      /\ \A i \in 1..(k + l) : i > k => r[i] = q[i - k]
  BY <1>1
<1>4. /\ p = <<>> <=> k = 0
      /\ q = <<>> <=> l = 0
      /\ r = <<>> <=> k + l = 0
  BY <1>1, <1>2
<1> HIDE DEF k, l, r
<1>5. /\ k = 0 => a = b
      /\ k # 0 => p[1].start = a /\ p[k].end = b
      /\ \A i \in 2..k : p[i].start = p[i - 1].end
      /\ \A i \in 1..k : p[i].start < p[i].end /\ p[i].end - p[i].start <= m
  BY <1>4 DEF Chain, k
<1>6. /\ l = 0 => b = c
      /\ l # 0 => q[1].start = b /\ q[l].end = c
      /\ \A i \in 2..l : q[i].start = q[i - 1].end
      /\ \A i \in 1..l : q[i].start < q[i].end /\ q[i].end - q[i].start <= m
  BY <1>4 DEF Chain, l
<1>7. k + l # 0 => r[1].start = a /\ r[k + l].end = c
  <2>1. CASE k = 0 /\ l # 0
    <3>1. 1 \in 1..(k + l) /\ 1 > k /\ 1 - k = 1 /\ k + l \in 1..(k + l) /\ k + l > k /\ (k + l) - k = l
      BY <1>1, <2>1
    <3>2. r[1] = q[1] /\ r[k + l] = q[l]
      BY <1>3, <3>1
    <3> QED
      BY <1>5, <1>6, <2>1, <3>2
  <2>2. CASE k # 0 /\ l = 0
    <3>1. 1 \in 1..k /\ k \in 1..k /\ k + l = k
      BY <1>1, <2>2
    <3>2. r[1] = p[1] /\ r[k + l] = p[k]
      BY <1>3, <3>1
    <3> QED
      BY <1>5, <1>6, <2>2, <3>2
  <2>3. CASE k # 0 /\ l # 0
    <3>1. 1 \in 1..k /\ k + l \in 1..(k + l) /\ k + l > k /\ (k + l) - k = l
      BY <1>1, <2>3
    <3>2. r[1] = p[1] /\ r[k + l] = q[l]
      BY <1>3, <3>1
    <3> QED
      BY <1>5, <1>6, <2>3, <3>2
  <2> QED
    BY <1>1, <2>1, <2>2, <2>3
<1>8. ASSUME NEW i \in 2..(k + l) PROVE r[i].start = r[i - 1].end
  <2>1. CASE i <= k
    <3>1. i \in 1..k /\ i - 1 \in 1..k /\ i \in 2..k
      BY <1>1, <2>1
    <3> QED
      BY <1>3, <1>5, <3>1
  <2>2. CASE i = k + 1
    <3>1. i - 1 = k /\ k \in 1..k /\ i \in 1..(k + l) /\ i > k /\ i - k = 1 /\ k # 0 /\ l # 0
      BY <1>1, <2>2
    <3>2. r[i - 1] = p[k] /\ r[i] = q[1]
      BY <1>3, <3>1
    <3> QED
      BY <1>5, <1>6, <3>1, <3>2
  <2>3. CASE i > k + 1
    <3> DEFINE j == i - k
    <3>1. /\ i \in 1..(k + l) /\ i > k /\ i - 1 \in 1..(k + l) /\ i - 1 > k
          /\ j \in 2..l /\ (i - 1) - k = j - 1
      BY <1>1, <2>3
    <3>2. r[i - 1] = q[j - 1] /\ r[i] = q[j]
      BY <1>3, <3>1
    <3> QED
      BY <1>6, <3>1, <3>2
  <2> QED
    BY <1>1, <2>1, <2>2, <2>3
<1>9. ASSUME NEW i \in 1..(k + l) PROVE r[i].start < r[i].end /\ r[i].end - r[i].start <= m
  <2>1. CASE i <= k
    <3>1. i \in 1..k
      BY <1>1, <2>1
    <3> QED
      BY <1>3, <1>5, <3>1
  <2>2. CASE i > k
    <3>1. i - k \in 1..l
      BY <1>1, <2>2
    <3> QED
      BY <1>3, <1>6, <2>2, <3>1
  <2> QED
    BY <1>1, <2>1, <2>2
<1>10. k + l = 0 => a = c
  BY <1>1, <1>5, <1>6
<1>11. Chain(r, a, c, m)
  BY <1>2, <1>4, <1>7, <1>8, <1>9, <1>10 DEF Chain
<1> QED
  BY <1>11 DEF r

\* Nothing is a chain, and so is a piece.
LEMMA ChainEmpty ==
  ASSUME NEW a \in Nat, NEW m \in Nat
  PROVE  Chain(<<>>, a, a, m)
  BY DEF Chain

LEMMA ChainOne ==
  ASSUME NEW a \in Nat, NEW b \in Nat, NEW m \in Nat, a < b, b - a <= m, NEW d \in BOOLEAN
  PROVE  Chain(<<Piece(a, b, d)>>, a, b, m)
<1> DEFINE e == Piece(a, b, d)
           p == <<e>>
<1>1. e \in SpanRows /\ e.start = a /\ e.end = b
  BY DEF Piece, SpanRows
<1> HIDE DEF e
<1>2. p \in Seq(SpanRows) /\ Len(p) = 1 /\ p[1] = e /\ p # <<>>
  BY <1>1
<1> HIDE DEF p
<1>3. Chain(p, a, b, m)
  BY <1>1, <1>2 DEF Chain
<1> QED
  BY <1>3 DEF p, e

\* A chain goes on with a piece.
LEMMA ChainAppend ==
  ASSUME NEW a \in Nat, NEW b \in Nat, NEW c \in Nat, NEW m \in Nat, NEW p, Chain(p, a, b, m),
         b < c, c - b <= m, NEW d \in BOOLEAN
  PROVE  Chain(Append(p, Piece(b, c, d)), a, c, m)
<1> DEFINE e == Piece(b, c, d)
           q == <<e>>
<1>1. Chain(q, b, c, m)
  BY ChainOne
<1>2. Append(p, e) = p \o q
  <2>1. p \in Seq(SpanRows) /\ e \in SpanRows
    BY DEF Chain, Piece, SpanRows
  <2> HIDE DEF e
  <2> QED
    BY <2>1
<1> HIDE DEF q
<1> QED
  BY <1>1, <1>2, ChainConcat DEF e

\* The pieces of a chain are in order.
LEMMA ChainOrdered ==
  ASSUME NEW a \in Nat, NEW b \in Nat, NEW m \in Nat, NEW p, Chain(p, a, b, m),
         NEW i \in 1..Len(p), NEW j \in 1..Len(p), i < j
  PROVE  p[i].end <= p[j].start
<1> DEFINE n == Len(p)
           wrong == {k \in 1..n : k > i /\ ~(p[i].end <= p[k].start)}
<1>1. n \in Nat /\ \A k \in 1..n : p[k] \in SpanRows
  BY DEF Chain
<1>2. \A k \in 1..n : p[k].start \in Nat /\ p[k].end \in Nat
  BY <1>1 DEF SpanRows
<1>3. /\ \A k \in 2..n : p[k].start = p[k - 1].end
      /\ \A k \in 1..n : p[k].start < p[k].end
  BY DEF Chain
<1> HIDE DEF n
<1>4. ASSUME NEW k \in wrong, \A t \in wrong : k <= t PROVE FALSE
  <2>1. k \in 1..n /\ k > i /\ ~(p[i].end <= p[k].start) /\ i \in 1..n
    BY DEF n
  <2>2. k \in 2..n /\ k - 1 \in 1..n /\ ~(k <= k - 1) /\ (k - 1 = i \/ k - 1 > i)
    BY <1>1, <2>1
  <2>3. p[k].start = p[k - 1].end /\ p[k - 1].start < p[k - 1].end
    BY <1>3, <2>2
  <2>4. k - 1 > i
    BY <1>2, <2>1, <2>2, <2>3
  <2>5. k - 1 \notin wrong
    <3> HIDE DEF wrong
    <3> QED
      BY <1>4, <2>2
  <2>6. p[i].end <= p[k - 1].start
    BY <2>2, <2>4, <2>5
  <2> QED
    BY <1>2, <2>1, <2>2, <2>3, <2>6
<1>5. wrong \in SUBSET Nat
  BY <1>1
<1>6. wrong = {}
  <2> HIDE DEF wrong
  <2> QED
    BY <1>4, <1>5, SmallestNumber
<1> QED
  BY <1>6 DEF n

\* validate_coverage accepts a chain through the text.
LEMMA ChainIsAccepted ==
  ASSUME NEW b \in Nat, NEW m \in Nat, NEW p, Chain(p, 0, b, m)
  PROVE  ValidateCoverage(b, p)
<1> DEFINE n == Len(p)
           D == DOMAIN p
           earlier(j) == {i \in D : SortsBefore(p, i, j)}
<1>1. p \in Seq(SpanRows) /\ n \in Nat /\ D = 1..n /\ \A k \in 1..n : p[k] \in SpanRows
  BY DEF Chain
<1>2. \A k \in 1..n : p[k].start \in Nat /\ p[k].end \in Nat /\ p[k].start < p[k].end
  BY <1>1 DEF SpanRows, Chain
<1>3. \A i, j \in 1..n : i < j => p[i].end <= p[j].start
  <2> DEFINE a == 0
  <2>1. a \in Nat /\ Chain(p, a, b, m)
    OBVIOUS
  <2> HIDE DEF a
  <2> QED
    BY <2>1, ChainOrdered
<1>4. /\ n = 0 => b = 0
      /\ n # 0 => p[1].start = 0 /\ p[n].end = b
      /\ \A k \in 2..n : p[k].start = p[k - 1].end
  BY <1>1 DEF Chain
<1> HIDE DEF n, D
<1>5. ASSUME NEW i \in 1..n, NEW j \in 1..n PROVE SortsBefore(p, i, j) <=> i < j
  <2> DEFINE pi == p[i].start
             qi == p[i].end
             pj == p[j].start
             qj == p[j].end
  <2>1. /\ pi \in Nat /\ qi \in Nat /\ pj \in Nat /\ qj \in Nat /\ i \in Nat /\ j \in Nat
        /\ pi < qi /\ pj < qj /\ (i < j => qi <= pj) /\ (j < i => qj <= pi)
        /\ (i = j => pi = pj /\ qi = qj)
    BY <1>2, <1>3
  <2>2. SortsBefore(p, i, j) <=> (pi < pj \/ (pi = pj /\ (qi < qj \/ (qi = qj /\ i < j))))
    BY DEF SortsBefore
  <2> HIDE DEF pi, qi, pj, qj
  <2>3. (pi < pj \/ (pi = pj /\ (qi < qj \/ (qi = qj /\ i < j)))) <=> i < j
    BY <2>1
  <2> QED
    BY <2>2, <2>3
<1>6. ASSUME NEW j \in 1..n PROVE p[j].start = CoveredTo(p, earlier(j))
  <2> DEFINE S == earlier(j)
             r == CoveredTo(p, S)
  <2>1. S \in SUBSET DOMAIN p /\ \A i \in 1..n : i \in S <=> i < j
    BY <1>1, <1>5 DEF D
  <2>2. S \subseteq 1..n
    BY <1>1
  <2> HIDE DEF S
  <2>3. /\ r \in Nat /\ \A i \in S : p[i].end <= r
        /\ r = 0 \/ \E i \in S : p[i].end = r
    BY <1>1, <2>1, CoverageIs
  <2> HIDE DEF r
  <2>4. CASE j = 1
    <3>1. S = {}
      BY <2>1, <2>2, <2>4
    <3>2. n # 0
      BY <1>1
    <3>3. r = 0
      BY <2>3, <3>1
    <3>4. p[j].start = r
      BY <1>4, <2>4, <3>2, <3>3
    <3> QED
      BY <3>4 DEF r, S
  <2>5. CASE j # 1
    <3>1. j - 1 \in 1..n /\ j - 1 < j /\ j \in 2..n
      BY <1>1, <2>5
    <3>2. p[j - 1].end <= r /\ p[j].start = p[j - 1].end
      BY <1>4, <2>1, <2>3, <3>1
    <3>3. r <= p[j].start
      <4>1. CASE r = 0
        BY <1>2, <4>1
      <4>2. CASE r # 0
        <5>1. PICK i \in S : p[i].end = r
          BY <2>3, <4>2
        <5>2. i \in 1..n /\ i < j
          BY <2>1, <2>2
        <5> QED
          BY <1>3, <5>1, <5>2
      <4> QED
        BY <4>1, <4>2
    <3> DEFINE x == p[j].start
    <3>4. x \in Nat /\ x <= r /\ r <= x
      BY <1>2, <3>2, <3>3
    <3> HIDE DEF x
    <3>5. x = r
      BY <2>3, <3>4
    <3> QED
      BY <3>5 DEF x, r, S
  <2> QED
    BY <2>4, <2>5
<1>7. CoveredTo(p, D) >= b
  <2>1. D \in SUBSET DOMAIN p
    BY DEF D
  <2>2. CoveredTo(p, D) \in Nat /\ \A i \in D : p[i].end <= CoveredTo(p, D)
    BY <1>1, <2>1, CoverageIs
  <2> DEFINE r == CoveredTo(p, D)
  <2> HIDE DEF r
  <2>3. r \in Nat /\ \A i \in D : p[i].end <= r
    BY <2>2 DEF r
  <2>4. CASE n = 0
    BY <1>4, <2>3, <2>4 DEF r
  <2>5. CASE n # 0
    <3>1. n \in D /\ p[n].end = b
      BY <1>1, <1>4, <2>5
    <3>2. b <= r
      BY <2>3, <3>1
    <3> QED
      BY <2>3, <3>2 DEF r
  <2> QED
    BY <2>4, <2>5
<1>8. \A j \in DOMAIN p : p[j].start = CoveredTo(p, {i \in DOMAIN p : SortsBefore(p, i, j)})
  BY <1>1, <1>6 DEF D
<1> QED
  BY <1>7, <1>8 DEF ValidateCoverage, SortsBefore, CoveredTo, D

\* Cutting at every MaxChars characters is a chain within the budget.
LEMMA HardSplitIs ==
  ASSUME NEW start \in Nat, NEW end \in Nat, start < end, NEW dialogue \in BOOLEAN
  PROVE  Chain(HardSplit(start, end, dialogue), start, end, MaxChars)
<1> DEFINE M == MaxChars
           x == end - start + M - 1
           N == x \div M
           cut(k) == start + k * M
           p == HardSplit(start, end, dialogue)
<1>1. M \in Nat /\ M > 0 /\ x \in Nat
  BY MaxCharsPositive
<1>2. N \in Nat /\ M * N <= x /\ x < M * N + M
  <2> HIDE DEF x, M
  <2> QED
    BY <1>1
<1> HIDE DEF N, M
<1>3. \A k \in 0..N : cut(k) \in Nat
  <2>1. ASSUME NEW k \in 0..N PROVE k * M \in Nat
    BY <1>1, <1>2
  <2> QED
    BY <2>1
<1>4. \A k \in 1..N : cut(k) = cut(k - 1) + M
  <2>1. ASSUME NEW k \in 1..N PROVE k * M = (k - 1) * M + M
    BY <1>1, <1>2
  <2>2. ASSUME NEW k \in 1..N PROVE (k - 1) * M \in Nat
    BY <1>1, <1>2
  <2> QED
    BY <1>1, <2>1, <2>2
<1>5. N # 0 /\ cut(N) >= end
  <2> DEFINE y == M * N
  <2>1. y \in Nat /\ N * M = y /\ (N = 0 => y = 0)
    BY <1>1, <1>2
  <2>2. y <= x /\ x < y + M
    BY <1>2
  <2> HIDE DEF y
  <2>3. y >= end - start
    BY <1>1, <2>1, <2>2 DEF x
  <2> QED
    BY <2>1, <2>3
<1>6. ASSUME NEW k \in 0..(N - 1) PROVE cut(k) < end
  <2> DEFINE y == M * N
             z == k * M
  <2>1. z \in Nat /\ y \in Nat
    BY <1>1, <1>2
  <2>2. z + M <= y
    <3>1. k + 1 <= N /\ k \in Nat
      BY <1>2
    <3>2. (k + 1) * M <= N * M
      BY <1>1, <1>2, <3>1
    <3>3. (k + 1) * M = k * M + M /\ N * M = M * N
      BY <1>1, <1>2, <3>1
    <3> QED
      BY <3>2, <3>3
  <2>3. y <= x
    BY <1>2
  <2> HIDE DEF y, z
  <2>4. start + z < end
    BY <1>1, <2>1, <2>2, <2>3 DEF x
  <2> QED
    BY <2>4 DEF z
<1>7. p = [k \in 1..N |-> Piece(cut(k - 1), IF cut(k) < end THEN cut(k) ELSE end, dialogue)]
  BY DEF HardSplit, N, M
<1>8. \A k \in 1..N : /\ p[k].start = cut(k - 1) /\ p[k].end = IF cut(k) < end THEN cut(k) ELSE end
                      /\ p[k] \in SpanRows
  <2> SUFFICES ASSUME NEW k \in 1..N
               PROVE  /\ p[k].start = cut(k - 1) /\ p[k].end = IF cut(k) < end THEN cut(k) ELSE end
                      /\ p[k] \in SpanRows
    OBVIOUS
  <2>1. p[k] = Piece(cut(k - 1), IF cut(k) < end THEN cut(k) ELSE end, dialogue)
    BY <1>7
  <2>2. cut(k - 1) \in Nat /\ cut(k) \in Nat
    <3>1. k \in 0..N /\ k - 1 \in 0..N
      BY <1>2
    <3> HIDE DEF cut
    <3> QED
      BY <1>3, <3>1
  <2> HIDE DEF p, cut
  <2> QED
    BY <2>1, <2>2 DEF Piece, SpanRows
<1>9. p \in Seq(SpanRows) /\ Len(p) = N
  <2> HIDE DEF cut
  <2>1. DOMAIN p = 1..N
    BY <1>7
  <2>2. p = [k \in 1..N |-> p[k]]
    BY <1>7
  <2> HIDE DEF p
  <2> QED
    BY <1>2, <1>8, <2>1, <2>2
<1> HIDE DEF p, cut
<1>10. p # <<>>
  BY <1>5, <1>9
<1>11. cut(0) = start
  BY <1>1 DEF cut
<1>12. ASSUME NEW i \in 2..N PROVE p[i].start = p[i - 1].end
  <2>1. i \in 1..N /\ i - 1 \in 1..N /\ i - 1 \in 0..(N - 1)
    BY <1>2
  <2> QED
    BY <1>6, <1>8, <2>1
<1>13. ASSUME NEW i \in 1..N PROVE p[i].start < p[i].end /\ p[i].end - p[i].start <= M
  <2>1. i - 1 \in 0..(N - 1) /\ i \in 0..N /\ i - 1 \in 0..N
    BY <1>2
  <2>2. cut(i - 1) < end /\ cut(i) = cut(i - 1) + M /\ cut(i) \in Nat /\ cut(i - 1) \in Nat
    BY <1>3, <1>4, <1>6, <2>1
  <2>3. p[i].start = cut(i - 1) /\ p[i].end = IF cut(i) < end THEN cut(i) ELSE end
    BY <1>8
  <2> QED
    BY <1>1, <2>2, <2>3
<1>14. p[1].start = start /\ p[N].end = end
  <2>1. 1 \in 1..N /\ N \in 1..N /\ 1 - 1 = 0 /\ N \in 0..N
    BY <1>2, <1>5
  <2>2. ~(cut(N) < end) /\ cut(N) \in Nat
    BY <1>3, <1>5, <2>1
  <2> QED
    BY <1>8, <1>11, <2>1, <2>2
<1>15. Chain(p, start, end, M)
  BY <1>9, <1>10, <1>12, <1>13, <1>14 DEF Chain
<1> QED
  BY <1>15 DEF p, M

\* A recursion from a to b has a result.
RecursionUpTo(a, b, S, initial, g) ==
    \E f \in [a..b -> S] : f[a] = initial /\ \A n \in (a + 1)..b : f[n] = g[n][f[n - 1]]

LEMMA RecursionRunsOn ==
  ASSUME NEW a \in Nat, NEW b \in Nat, a <= b, NEW S, NEW initial \in S,
         NEW g \in [(a + 1)..b -> [S -> S]]
  PROVE  RecursionUpTo(a, b, S, initial, g)
<1> DEFINE N == b - a
           k == [n \in 1..N |-> g[n + a]]
<1>1. N \in Nat
  OBVIOUS
<1>2. k \in [1..N -> [S -> S]] /\ \A n \in 1..N : k[n] = g[n + a]
  <2>1. \A n \in 1..N : n + a \in (a + 1)..b
    OBVIOUS
  <2> HIDE DEF N
  <2> QED
    BY <2>1
<1> HIDE DEF N, k
<1>3. PICK f \in [0..N -> S] : f[0] = initial /\ \A n \in 1..N : f[n] = k[n][f[n - 1]]
  <2>1. Recursion(N, S, initial, k)
    BY <1>1, <1>2, RecursionRuns
  <2> QED
    BY <2>1 DEF Recursion
<1> DEFINE h == [n \in a..b |-> f[n - a]]
<1>4. h \in [a..b -> S] /\ \A n \in a..b : h[n] = f[n - a]
  <2>1. \A n \in a..b : n - a \in 0..N
    BY DEF N
  <2> QED
    BY <2>1
<1> HIDE DEF h
<1>5. h[a] = initial
  <2>1. a \in a..b /\ a - a = 0
    OBVIOUS
  <2> QED
    BY <1>3, <1>4, <2>1
<1>6. ASSUME NEW n \in (a + 1)..b PROVE h[n] = g[n][h[n - 1]]
  <2> DEFINE j == n - a
  <2>1. /\ n \in a..b /\ n - 1 \in a..b /\ j \in 1..N /\ (n - 1) - a = j - 1 /\ j + a = n
    BY DEF N
  <2>2. h[n] = f[j] /\ h[n - 1] = f[j - 1] /\ k[j] = g[n]
    BY <1>2, <1>4, <2>1
  <2>3. f[j] = k[j][f[j - 1]]
    BY <1>3, <2>1
  <2> QED
    BY <2>2, <2>3
<1> QED
  BY <1>4, <1>5, <1>6 DEF RecursionUpTo

\* A step of the search for sentences, and what has been split so far.
SplitStates == [out : Seq(SpanRows), start : Nat]

SplitStep(text, start, end, dialogue, acc, b) ==
    CASE b # end /\ (~SentenceBoundary(text, start, end, b) \/ b - acc.start >= MaxChars) -> acc
      [] b = end /\ b - acc.start > MaxChars ->
             [out |-> acc.out \o HardSplit(acc.start, b, dialogue), start |-> b]
      [] OTHER -> [out |-> Append(acc.out, Piece(acc.start, b, dialogue)), start |-> b]

SplitSoFar(start, end, acc, b) ==
    /\ acc \in SplitStates /\ acc.start \in start..b
    /\ Chain(acc.out, start, acc.start, MaxChars)
    /\ (b = end /\ start < b) => acc.start = end

LEMMA SplitStepTyped ==
  ASSUME NEW text, NEW start \in Nat, NEW end \in Nat, NEW dialogue \in BOOLEAN,
         NEW acc \in SplitStates, NEW b \in Nat
  PROVE  SplitStep(text, start, end, dialogue, acc, b) \in SplitStates
<1> DEFINE s == acc.start
           hard == HardSplit(s, b, dialogue)
           one == Piece(s, b, dialogue)
           more == acc.out \o hard
           next == Append(acc.out, one)
<1>1. acc.out \in Seq(SpanRows) /\ s \in Nat /\ MaxChars \in Nat
  BY MaxCharsPositive DEF SplitStates
<1>2. b - s > MaxChars => more \in Seq(SpanRows)
  <2>1. ASSUME b - s > MaxChars PROVE hard \in Seq(SpanRows)
    <3> HIDE DEF s
    <3>1. s < b
      BY <1>1, <2>1
    <3> QED
      BY <1>1, <3>1, HardSplitIs DEF Chain
  <2> HIDE DEF hard, s
  <2> QED
    BY <1>1, <2>1
<1>3. next \in Seq(SpanRows)
  <2>1. one \in SpanRows
    BY <1>1 DEF Piece, SpanRows
  <2> HIDE DEF one
  <2> QED
    BY <1>1, <2>1
<1> DEFINE step == SplitStep(text, start, end, dialogue, acc, b)
<1>4. \/ step = acc
      \/ b - s > MaxChars /\ step = [out |-> more, start |-> b]
      \/ step = [out |-> next, start |-> b]
  <2> HIDE DEF hard, one
  <2> QED
    BY DEF SplitStep, hard, one
<1> HIDE DEF step, more, next, s
<1> QED
  BY <1>2, <1>3, <1>4 DEF SplitStates, step

LEMMA SplitStepIs ==
  ASSUME NEW text, NEW start \in Nat, NEW end \in Nat, NEW dialogue \in BOOLEAN,
         NEW acc, NEW b \in (start + 1)..end, SplitSoFar(start, end, acc, b - 1)
  PROVE  SplitSoFar(start, end, SplitStep(text, start, end, dialogue, acc, b), b)
<1> DEFINE s == acc.start
           step == SplitStep(text, start, end, dialogue, acc, b)
           hard == HardSplit(s, b, dialogue)
           one == Piece(s, b, dialogue)
<1>1. acc \in SplitStates /\ s \in start..(b - 1) /\ Chain(acc.out, start, s, MaxChars)
  BY DEF SplitSoFar
<1>2. MaxChars \in Nat /\ b \in Nat /\ s \in Nat /\ s < b /\ start \in Nat /\ start < b
  BY <1>1, MaxCharsPositive
<1>3. step \in SplitStates
  BY <1>1, <1>2, SplitStepTyped
<1>4. CASE b # end /\ (~SentenceBoundary(text, start, end, b) \/ b - s >= MaxChars)
  <2>1. step = acc
    BY <1>4 DEF SplitStep
  <2>2. s \in start..b
    BY <1>1, <1>2
  <2> QED
    BY <1>1, <1>3, <1>4, <2>1, <2>2 DEF SplitSoFar
<1>5. CASE b = end /\ b - s > MaxChars
  <2>1. step = [out |-> acc.out \o hard, start |-> b]
    BY <1>5 DEF SplitStep
  <2>2. step.out = acc.out \o hard /\ step.start = b
    <3> HIDE DEF hard, step
    <3> QED
      BY <2>1
  <2> HIDE DEF s, step
  <2>3. Chain(hard, s, b, MaxChars)
    BY <1>2, HardSplitIs
  <2> HIDE DEF hard
  <2>4. Chain(acc.out \o hard, start, b, MaxChars)
    BY <1>1, <1>2, <2>3, ChainConcat
  <2>5. b \in start..b
    BY <1>2
  <2>6. Chain(step.out, start, step.start, MaxChars)
    BY <2>2, <2>4
  <2>7. SplitSoFar(start, end, step, b)
    BY <1>3, <1>5, <2>2, <2>5, <2>6 DEF SplitSoFar
  <2> QED
    BY <2>7 DEF step
<1>6. CASE /\ ~(b # end /\ (~SentenceBoundary(text, start, end, b) \/ b - s >= MaxChars))
           /\ ~(b = end /\ b - s > MaxChars)
  <2>1. step = [out |-> Append(acc.out, one), start |-> b]
    BY <1>6 DEF SplitStep
  <2>2. step.out = Append(acc.out, one) /\ step.start = b
    <3> HIDE DEF one, step
    <3> QED
      BY <2>1
  <2> HIDE DEF s, step
  <2>3. b - s <= MaxChars
    BY <1>2, <1>6
  <2>4. Chain(Append(acc.out, one), start, b, MaxChars)
    BY <1>1, <1>2, <2>3, ChainAppend
  <2>5. b \in start..b
    BY <1>2
  <2> HIDE DEF one
  <2>6. Chain(step.out, start, step.start, MaxChars)
    BY <2>2, <2>4
  <2>7. SplitSoFar(start, end, step, b)
    BY <1>3, <2>2, <2>5, <2>6 DEF SplitSoFar
  <2> QED
    BY <2>7 DEF step
<1> QED
  BY <1>4, <1>5, <1>6

\* A segment is split into pieces within the budget that follow each other.
LEMMA SplitIs ==
  ASSUME NEW text, NEW start \in Nat, NEW end \in Nat, start < end, NEW dialogue \in BOOLEAN
  PROVE  Chain(SplitToBudget(text, start, end, dialogue), start, end, MaxChars)
<1> DEFINE initial == [out |-> <<>>, start |-> start]
           Step(acc, b) == SplitStep(text, start, end, dialogue, acc, b)
           IsSplit(f) == f = [b \in start..end |-> IF b = start THEN initial ELSE Step(f[b - 1], b)]
           split == CHOOSE f : IsSplit(f)
           g == [b \in (start + 1)..end |-> [acc \in SplitStates |-> Step(acc, b)]]
           result == SplitToBudget(text, start, end, dialogue)
<1>0. MaxChars \in Nat /\ start <= end
  BY MaxCharsPositive
<1>1. result = IF end - start <= MaxChars THEN <<Piece(start, end, dialogue)>> ELSE split[end].out
  BY DEF SplitToBudget, SplitStep
<1>2. initial \in SplitStates /\ initial.out = <<>> /\ initial.start = start
  BY DEF SplitStates
<1> HIDE DEF initial, result
<1>3. \A b \in (start + 1)..end, acc \in SplitStates : Step(acc, b) \in SplitStates
  <2>1. \A b \in (start + 1)..end : b \in Nat
    OBVIOUS
  <2> QED
    BY <2>1, SplitStepTyped
<1> HIDE DEF Step
<1>4. /\ g \in [(start + 1)..end -> [SplitStates -> SplitStates]]
      /\ \A b \in (start + 1)..end, acc \in SplitStates : g[b][acc] = Step(acc, b)
  BY <1>3
<1> HIDE DEF g
<1>5. PICK f \in [start..end -> SplitStates] :
          f[start] = initial /\ \A n \in (start + 1)..end : f[n] = g[n][f[n - 1]]
  <2>1. RecursionUpTo(start, end, SplitStates, initial, g)
    BY <1>0, <1>2, <1>4, RecursionRunsOn
  <2> QED
    BY <2>1 DEF RecursionUpTo
<1>6. ASSUME NEW b \in start..end PROVE f[b] = IF b = start THEN initial ELSE Step(f[b - 1], b)
  <2>1. CASE b # start
    <3>1. b \in (start + 1)..end /\ b - 1 \in start..end
      BY <2>1
    <3> QED
      BY <1>4, <1>5, <2>1, <3>1
  <2> QED
    BY <1>5, <2>1
<1>7. IsSplit(f)
  BY <1>5, <1>6
<1>8. IsSplit(split)
  <2> HIDE DEF IsSplit
  <2> QED
    BY <1>7, Zenon
<1> HIDE DEF split
<1>9. split[start] = initial /\ \A b \in (start + 1)..end : split[b] = Step(split[b - 1], b)
  BY <1>8
<1> HIDE DEF IsSplit
<1> DEFINE wrong == {b \in start..end : ~SplitSoFar(start, end, split[b], b)}
<1>10. ASSUME NEW m \in wrong, \A t \in wrong : m <= t PROVE FALSE
  <2>1. m \in start..end /\ ~SplitSoFar(start, end, split[m], m)
    OBVIOUS
  <2>2. m # start
    <3>1. start \in start..start /\ ~(start < start)
      OBVIOUS
    <3>2. Chain(<<>>, start, start, MaxChars)
      BY <1>0, ChainEmpty
    <3>3. SplitSoFar(start, end, initial, start)
      BY <1>2, <3>1, <3>2 DEF SplitSoFar
    <3> QED
      BY <1>9, <2>1, <3>3
  <2>3. m \in (start + 1)..end /\ m - 1 \in start..end /\ ~(m <= m - 1)
    BY <2>1, <2>2
  <2>4. m - 1 \notin wrong
    <3> HIDE DEF wrong
    <3> QED
      BY <1>10, <2>3
  <2>5. SplitSoFar(start, end, split[m - 1], m - 1)
    BY <2>3, <2>4
  <2>6. SplitSoFar(start, end, Step(split[m - 1], m), m)
    BY <2>3, <2>5, SplitStepIs DEF Step
  <2> QED
    BY <1>9, <2>1, <2>3, <2>6
<1>11. wrong \in SUBSET Nat
  OBVIOUS
<1>12. wrong = {}
  <2> HIDE DEF wrong
  <2> QED
    BY <1>10, <1>11, SmallestNumber
<1>13. SplitSoFar(start, end, split[end], end)
  <2>1. end \in start..end
    OBVIOUS
  <2> QED
    BY <1>12, <2>1
<1>14. Chain(split[end].out, start, end, MaxChars)
  BY <1>13 DEF SplitSoFar
<1>15. end - start <= MaxChars => Chain(<<Piece(start, end, dialogue)>>, start, end, MaxChars)
  BY <1>0, ChainOne
<1>16. Chain(result, start, end, MaxChars)
  BY <1>1, <1>14, <1>15
<1> QED
  BY <1>16 DEF result

\* A character of the search for quotes, and what has been found so far.
QuoteStates == [out : Seq(SpanRows), open : Nat \cup {-1}, cursor : Nat]

QuoteNarration(acc, end) ==
    IF end > acc.cursor THEN Append(acc.out, Piece(acc.cursor, end, FALSE)) ELSE acc.out

QuoteStep(text, acc, n) ==
    LET i == n - 1 IN
    CASE acc.open = -1 /\ Char(text, i) \in Openers ->
             [acc EXCEPT !.out = QuoteNarration(acc, i), !.open = i]
      [] acc.open # -1 /\ Char(text, i) \in Closers ->
             [out |-> Append(acc.out, Piece(acc.open, n, TRUE)), open |-> -1, cursor |-> n]
      [] OTHER -> acc

QuotedSoFar(m, acc, n) ==
    /\ acc \in QuoteStates
    /\ acc.open = -1 => acc.cursor <= n /\ Chain(acc.out, 0, acc.cursor, m)
    /\ acc.open # -1 => acc.open < n /\ Chain(acc.out, 0, acc.open, m)

\* The three ways a character is read.
LEMMA QuoteStepCases ==
  ASSUME NEW text, NEW acc \in QuoteStates, NEW n \in Nat \ {0}
  PROVE  LET step == QuoteStep(text, acc, n)
         IN \/ step = acc
            \/ /\ acc.open = -1
               /\ step = [acc EXCEPT !.out = QuoteNarration(acc, n - 1), !.open = n - 1]
            \/ /\ acc.open # -1
               /\ step = [out |-> Append(acc.out, Piece(acc.open, n, TRUE)), open |-> -1, cursor |-> n]
<1> DEFINE told == QuoteNarration(acc, n - 1)
           step == QuoteStep(text, acc, n)
<1>2. CASE acc.open = -1 /\ Char(text, n - 1) \in Openers
  <2>1. step = [acc EXCEPT !.out = told, !.open = n - 1]
    BY <1>2 DEF QuoteStep
  <2> QED
    BY <1>2, <2>1
<1>3. CASE acc.open # -1 /\ Char(text, n - 1) \in Closers
  <2>1. step = [out |-> Append(acc.out, Piece(acc.open, n, TRUE)), open |-> -1, cursor |-> n]
    BY <1>3 DEF QuoteStep
  <2> QED
    BY <1>3, <2>1
<1>4. CASE /\ ~(acc.open = -1 /\ Char(text, n - 1) \in Openers)
           /\ ~(acc.open # -1 /\ Char(text, n - 1) \in Closers)
  BY <1>4 DEF QuoteStep
<1> QED
  BY <1>2, <1>3, <1>4

\* Narration up to a place.
LEMMA NarrationIs ==
  ASSUME NEW m \in Nat, NEW acc \in QuoteStates, NEW end \in Nat
  PROVE  /\ QuoteNarration(acc, end) \in Seq(SpanRows)
         /\ (acc.cursor <= end /\ end <= m /\ Chain(acc.out, 0, acc.cursor, m)) =>
                Chain(QuoteNarration(acc, end), 0, end, m)
<1> DEFINE c == acc.cursor
           one == Piece(c, end, FALSE)
           told == QuoteNarration(acc, end)
           zero == 0
           no == FALSE
<1>1. acc.out \in Seq(SpanRows) /\ c \in Nat /\ zero \in Nat /\ no \in BOOLEAN
  BY DEF QuoteStates
<1>2. one \in SpanRows
  BY <1>1 DEF Piece, SpanRows
<1>3. told = IF end > c THEN Append(acc.out, one) ELSE acc.out
  BY DEF QuoteNarration
<1>4. ASSUME c <= end, end <= m, Chain(acc.out, 0, c, m) PROVE Chain(told, 0, end, m)
  <2>1. CASE end > c
    <3> HIDE DEF c
    <3>1. end - c <= m /\ c < end
      BY <1>1, <1>4, <2>1
    <3>2. Chain(acc.out, zero, c, m)
      BY <1>4
    <3> HIDE DEF zero, no
    <3>3. Chain(Append(acc.out, Piece(c, end, no)), zero, end, m)
      BY <1>1, <3>1, <3>2, ChainAppend
    <3>4. told = Append(acc.out, Piece(c, end, no))
      BY <1>3, <2>1 DEF no
    <3> QED
      BY <3>3, <3>4 DEF zero
  <2>2. CASE ~(end > c)
    <3> HIDE DEF c, told
    <3>1. end = c
      BY <1>1, <1>4, <2>2
    <3> QED
      BY <1>3, <1>4, <2>2, <3>1
  <2> QED
    BY <2>1, <2>2
<1> HIDE DEF one, told
<1>5. told \in Seq(SpanRows)
  BY <1>1, <1>2, <1>3
<1> QED
  BY <1>4, <1>5 DEF told

LEMMA QuoteStepTyped ==
  ASSUME NEW text, NEW acc \in QuoteStates, NEW n \in Nat \ {0}
  PROVE  QuoteStep(text, acc, n) \in QuoteStates
<1> DEFINE step == QuoteStep(text, acc, n)
           told == QuoteNarration(acc, n - 1)
           next == Append(acc.out, Piece(acc.open, n, TRUE))
<1>1. n - 1 \in Nat /\ n \in Nat /\ acc.cursor \in Nat /\ acc.open \in Nat \cup {-1}
      /\ acc.out \in Seq(SpanRows)
  BY DEF QuoteStates
<1>2. told \in Seq(SpanRows)
  <2> DEFINE z == n - 1
  <2>1. z \in Nat
    BY <1>1
  <2> HIDE DEF z
  <2>2. QuoteNarration(acc, z) \in Seq(SpanRows)
    BY <2>1, NarrationIs
  <2> QED
    BY <2>2 DEF z
<1>3. acc.open # -1 => next \in Seq(SpanRows)
  <2> DEFINE one == Piece(acc.open, n, TRUE)
  <2>1. ASSUME acc.open # -1 PROVE one \in SpanRows
    BY <1>1, <2>1 DEF Piece, SpanRows
  <2> HIDE DEF one
  <2>2. acc.open # -1 => Append(acc.out, one) \in Seq(SpanRows)
    BY <1>1, <2>1
  <2> QED
    BY <2>2 DEF one
<1>4. \/ step = acc
      \/ step = [acc EXCEPT !.out = told, !.open = n - 1]
      \/ acc.open # -1 /\ step = [out |-> next, open |-> -1, cursor |-> n]
  <2> HIDE DEF told, next, step
  <2> QED
    BY QuoteStepCases DEF told, next, step
<1> DEFINE z == n - 1
           Q == Seq(SpanRows)
<1>5. z \in Nat /\ told \in Q /\ (acc.open # -1 => next \in Q)
  BY <1>1, <1>2, <1>3
<1> HIDE DEF told, next, Q
<1>6. QuoteStates = [out : Q, open : Nat \cup {-1}, cursor : Nat]
  BY DEF QuoteStates, Q
<1>7. CASE step = [acc EXCEPT !.out = told, !.open = z]
  <2> HIDE DEF step, z
  <2>1. [acc EXCEPT !.out = told, !.open = z] \in QuoteStates
    BY <1>5, <1>6
  <2> QED
    BY <1>7, <2>1 DEF step
<1>8. CASE acc.open # -1 /\ step = [out |-> next, open |-> -1, cursor |-> n]
  <2> HIDE DEF step, z
  <2>1. step \in QuoteStates
    BY <1>1, <1>5, <1>6, <1>8
  <2> QED
    BY <2>1 DEF step
<1> QED
  BY <1>4, <1>7, <1>8

LEMMA QuoteStepIs ==
  ASSUME NEW text, NEW m \in Nat, NEW acc, NEW n \in 1..m, QuotedSoFar(m, acc, n - 1)
  PROVE  QuotedSoFar(m, QuoteStep(text, acc, n), n)
<1> DEFINE step == QuoteStep(text, acc, n)
           z == n - 1
           told == QuoteNarration(acc, z)
           next == Append(acc.out, Piece(acc.open, n, TRUE))
<1>1. acc \in QuoteStates /\ n \in Nat \ {0} /\ z \in Nat /\ z < n /\ z <= m /\ n <= m
  BY DEF QuotedSoFar
<1>2. step \in QuoteStates
  BY <1>1, QuoteStepTyped
<1>3. /\ acc.open = -1 => acc.cursor <= z /\ Chain(acc.out, 0, acc.cursor, m)
      /\ acc.open # -1 => acc.open < z /\ Chain(acc.out, 0, acc.open, m)
  BY DEF QuotedSoFar
<1>4. acc.cursor \in Nat /\ acc.open \in Nat \cup {-1}
  BY <1>1 DEF QuoteStates
<1>5. \/ step = acc
      \/ acc.open = -1 /\ step = [acc EXCEPT !.out = told, !.open = z]
      \/ acc.open # -1 /\ step = [out |-> next, open |-> -1, cursor |-> n]
  <2> HIDE DEF told, next, step
  <2> QED
    BY <1>1, QuoteStepCases DEF told, next, step, z
<1> HIDE DEF step, z
<1>6. CASE step = acc
  <2>1. /\ acc.open = -1 => acc.cursor <= n
        /\ acc.open # -1 => acc.open < n
    BY <1>1, <1>3, <1>4
  <2>2. QuotedSoFar(m, acc, n)
    BY <1>1, <1>3, <2>1 DEF QuotedSoFar
  <2> QED
    BY <1>6, <2>2 DEF step
<1>7. CASE acc.open = -1 /\ step = [acc EXCEPT !.out = told, !.open = z]
  <2>1. Chain(told, 0, z, m)
    BY <1>1, <1>3, <1>7, NarrationIs
  <2> HIDE DEF told
  <2>2. step.out = told /\ step.open = z /\ z # -1
    BY <1>1, <1>7 DEF QuoteStates
  <2>3. QuotedSoFar(m, step, n)
    BY <1>1, <1>2, <2>1, <2>2 DEF QuotedSoFar
  <2> QED
    BY <2>3 DEF step
<1>8. CASE acc.open # -1 /\ step = [out |-> next, open |-> -1, cursor |-> n]
  <2> DEFINE o == acc.open
             zero == 0
             yes == TRUE
  <2>1. o \in Nat /\ o < n /\ n - o <= m /\ zero \in Nat /\ yes \in BOOLEAN /\ n \in Nat
        /\ Chain(acc.out, zero, o, m)
    BY <1>1, <1>3, <1>4, <1>8
  <2>2. next = Append(acc.out, Piece(o, n, yes))
    OBVIOUS
  <2> HIDE DEF next, o, zero, yes
  <2>3. Chain(next, zero, n, m)
    BY <2>1, <2>2, ChainAppend
  <2>4. step.out = next /\ step.open = -1 /\ step.cursor = n
    BY <1>8
  <2>5. Chain(step.out, 0, step.cursor, m) /\ step.cursor <= n
    BY <2>1, <2>3, <2>4 DEF zero
  <2>6. QuotedSoFar(m, step, n)
    BY <1>2, <2>4, <2>5 DEF QuotedSoFar
  <2> QED
    BY <2>6 DEF step
<1> QED
  BY <1>5, <1>6, <1>7, <1>8

\* Quoted runs and the text between them follow each other through the text.
LEMMA QuotesAre ==
  ASSUME NEW T, NEW text \in Seq(T)
  PROVE  Chain(QuoteSpans(text), 0, Len(text), Len(text))
<1> DEFINE N == Len(text)
           initial == [out |-> <<>>, open |-> -1, cursor |-> 0]
           Step(acc, n) == QuoteStep(text, acc, n)
           IsRead(f) == f = [n \in 0..N |-> IF n = 0 THEN initial ELSE Step(f[n - 1], n)]
           read == CHOOSE f : IsRead(f)
           g == [n \in 1..N |-> [acc \in QuoteStates |-> Step(acc, n)]]
           result == QuoteSpans(text)
           end == read[N]
<1>0. N \in Nat
  OBVIOUS
<1>1. result = IF end.open # -1 THEN Append(end.out, Piece(end.open, N, TRUE))
               ELSE QuoteNarration(end, N)
  BY DEF QuoteSpans, QuoteStep, QuoteNarration
<1>2. initial \in QuoteStates /\ initial.out = <<>> /\ initial.open = -1 /\ initial.cursor = 0
  BY DEF QuoteStates
<1> HIDE DEF initial, result, N
<1>3. \A n \in 1..N, acc \in QuoteStates : Step(acc, n) \in QuoteStates
  <2>1. \A n \in 1..N : n \in Nat \ {0}
    OBVIOUS
  <2> QED
    BY <2>1, QuoteStepTyped
<1> HIDE DEF Step
<1>4. /\ g \in [1..N -> [QuoteStates -> QuoteStates]]
      /\ \A n \in 1..N, acc \in QuoteStates : g[n][acc] = Step(acc, n)
  BY <1>3
<1> HIDE DEF g
<1>5. PICK f \in [0..N -> QuoteStates] :
          f[0] = initial /\ \A n \in 1..N : f[n] = g[n][f[n - 1]]
  <2>1. Recursion(N, QuoteStates, initial, g)
    BY <1>0, <1>2, <1>4, RecursionRuns
  <2> QED
    BY <2>1 DEF Recursion
<1>6. ASSUME NEW n \in 0..N PROVE f[n] = IF n = 0 THEN initial ELSE Step(f[n - 1], n)
  <2>1. CASE n # 0
    <3>1. n \in 1..N /\ n - 1 \in 0..N
      BY <1>0, <2>1
    <3> QED
      BY <1>4, <1>5, <2>1, <3>1
  <2> QED
    BY <1>5, <2>1
<1>7. IsRead(f)
  BY <1>5, <1>6
<1>8. IsRead(read)
  <2> HIDE DEF IsRead
  <2> QED
    BY <1>7, Zenon
<1> HIDE DEF read
<1>9. read[0] = initial /\ \A n \in 1..N : read[n] = Step(read[n - 1], n)
  BY <1>0, <1>8
<1> HIDE DEF IsRead
<1> DEFINE wrong == {n \in 0..N : ~QuotedSoFar(N, read[n], n)}
<1>10. ASSUME NEW k \in wrong, \A t \in wrong : k <= t PROVE FALSE
  <2>1. k \in 0..N /\ ~QuotedSoFar(N, read[k], k)
    OBVIOUS
  <2>2. k # 0
    <3>1. Chain(<<>>, 0, 0, N)
      BY <1>0 DEF Chain
    <3>2. QuotedSoFar(N, initial, 0)
      BY <1>2, <3>1 DEF QuotedSoFar
    <3> QED
      BY <1>9, <2>1, <3>2
  <2>3. k \in 1..N /\ k - 1 \in 0..N /\ ~(k <= k - 1)
    BY <1>0, <2>1, <2>2
  <2>4. k - 1 \notin wrong
    <3> HIDE DEF wrong
    <3> QED
      BY <1>10, <2>3
  <2>5. QuotedSoFar(N, read[k - 1], k - 1)
    BY <2>3, <2>4
  <2>6. QuotedSoFar(N, Step(read[k - 1], k), k)
    BY <1>0, <2>3, <2>5, QuoteStepIs DEF Step
  <2> QED
    BY <1>9, <2>1, <2>3, <2>6
<1>11. wrong \in SUBSET Nat
  BY <1>0
<1>12. wrong = {}
  <2> HIDE DEF wrong
  <2> QED
    BY <1>10, <1>11, SmallestNumber
<1>13. QuotedSoFar(N, end, N)
  <2>1. N \in 0..N
    BY <1>0
  <2> QED
    BY <1>12, <2>1
<1> HIDE DEF end
<1>14. end \in QuoteStates /\ end.open \in Nat \cup {-1}
  BY <1>13 DEF QuotedSoFar, QuoteStates
<1>15. CASE end.open # -1
  <2> DEFINE o == end.open
             zero == 0
             yes == TRUE
  <2>1. o \in Nat /\ o < N /\ N - o <= N /\ zero \in Nat /\ yes \in BOOLEAN
        /\ Chain(end.out, zero, o, N)
    BY <1>0, <1>13, <1>14, <1>15 DEF QuotedSoFar
  <2>2. result = Append(end.out, Piece(o, N, yes))
    BY <1>1, <1>15
  <2> HIDE DEF o, zero, yes
  <2>3. Chain(result, zero, N, N)
    BY <1>0, <2>1, <2>2, ChainAppend
  <2> QED
    BY <2>3 DEF zero, result, N
<1>16. CASE end.open = -1
  <2>1. end.cursor <= N /\ Chain(end.out, 0, end.cursor, N)
    BY <1>13, <1>16 DEF QuotedSoFar
  <2>2. N <= N
    BY <1>0
  <2>3. Chain(QuoteNarration(end, N), 0, N, N)
    BY <1>0, <1>14, <2>1, <2>2, NarrationIs
  <2>4. Chain(result, 0, N, N)
    BY <1>1, <1>16, <2>3
  <2> QED
    BY <2>4 DEF result, N
<1> QED
  BY <1>15, <1>16

\* What the segments of a chain are split into, one after the other, is a chain.
LEMMA FlattenIs ==
  ASSUME NEW L \in Nat, NEW m \in Nat, NEW M \in Nat, NEW spans, Chain(spans, 0, L, m), spans # <<>>,
         NEW seqs \in Seq(Seq(SpanRows)), Len(seqs) = Len(spans),
         \A i \in 1..Len(spans) : Chain(seqs[i], spans[i].start, spans[i].end, M)
  PROVE  Chain(FlattenSeq(seqs), 0, L, M)
<1> DEFINE n == Len(seqs)
           S == Seq(SpanRows)
           IsFlat(f) == f = [i \in 1..n |-> IF i = 1 THEN seqs[i] ELSE f[i - 1] \o seqs[i]]
           flat == CHOOSE f : IsFlat(f)
           g == [i \in 1..n |-> [acc \in S |-> acc \o seqs[i]]]
           empty == <<>>
<1>0. spans \in Seq(SpanRows) /\ n \in Nat /\ n # 0 /\ \A i \in 1..n : seqs[i] \in S
  BY DEF Chain
<1>1. FlattenSeq(seqs) = flat[n]
  BY <1>0 DEF FlattenSeq
<1>2. /\ g \in [1..n -> [S -> S]] /\ empty \in S /\ \A s \in S : empty \o s = s
      /\ \A i \in 1..n, acc \in S : g[i][acc] = acc \o seqs[i]
  BY <1>0
<1> HIDE DEF n, S, g, empty
<1>3. PICK h \in [0..n -> S] : h[0] = empty /\ \A i \in 1..n : h[i] = g[i][h[i - 1]]
  <2>1. Recursion(n, S, empty, g)
    BY <1>0, <1>2, RecursionRuns
  <2> QED
    BY <2>1 DEF Recursion
<1>4. h[1] = seqs[1] /\ \A i \in 2..n : h[i] = h[i - 1] \o seqs[i]
  <2>1. 1 \in 1..n /\ 1 - 1 = 0 /\ 0 \in 0..n
    BY <1>0
  <2>2. h[1] = empty \o seqs[1]
    <3>1. h[1] = g[1][empty]
      BY <1>3, <2>1
    <3> QED
      BY <1>2, <2>1, <3>1
  <2>3. ASSUME NEW i \in 2..n PROVE h[i] = h[i - 1] \o seqs[i]
    <3>1. i \in 1..n /\ i - 1 \in 0..n
      BY <1>0
    <3> QED
      BY <1>2, <1>3, <3>1
  <2> QED
    BY <1>0, <1>2, <2>1, <2>2, <2>3
<1> DEFINE f == [i \in 1..n |-> h[i]]
<1>5. ASSUME NEW i \in 1..n PROVE f[i] = IF i = 1 THEN seqs[i] ELSE f[i - 1] \o seqs[i]
  <2>1. CASE i # 1
    <3>1. i \in 2..n /\ i - 1 \in 1..n
      BY <1>0, <2>1
    <3> QED
      BY <1>4, <2>1, <3>1
  <2> QED
    BY <1>4, <2>1
<1>6. IsFlat(f)
  <2>1. f = [i \in 1..n |-> f[i]]
    OBVIOUS
  <2> HIDE DEF f
  <2> QED
    BY <1>5, <2>1
<1>7. IsFlat(flat)
  <2> HIDE DEF IsFlat, f
  <2> QED
    BY <1>6, Zenon
<1> HIDE DEF flat
<1>8. flat[1] = seqs[1] /\ \A i \in 2..n : flat[i] = flat[i - 1] \o seqs[i]
  <2>1. flat[1] = seqs[1] /\ 1 \in 1..n
    BY <1>0, <1>7
  <2>2. ASSUME NEW i \in 2..n PROVE flat[i] = flat[i - 1] \o seqs[i]
    <3>1. i \in 1..n /\ i # 1
      BY <1>0
    <3>2. flat[i] = IF i = 1 THEN seqs[i] ELSE flat[i - 1] \o seqs[i]
      BY <1>7, <3>1
    <3> QED
      BY <3>1, <3>2
  <2> QED
    BY <2>1, <2>2
<1> HIDE DEF IsFlat
<1>9. /\ spans[1].start = 0 /\ spans[n].end = L
      /\ \A i \in 2..n : spans[i].start = spans[i - 1].end
      /\ \A i \in 1..n : spans[i].start \in Nat /\ spans[i].end \in Nat
                         /\ Chain(seqs[i], spans[i].start, spans[i].end, M)
  <2>1. \A i \in 1..n : spans[i] \in SpanRows
    BY <1>0 DEF n
  <2> QED
    BY <2>1 DEF Chain, SpanRows, n
<1> DEFINE Good(i) == Chain(flat[i], 0, spans[i].end, M)
           wrong == {i \in 1..n : ~Good(i)}
<1>10. Good(1)
  BY <1>0, <1>8, <1>9
<1>11. ASSUME NEW i \in 2..n, Good(i - 1) PROVE Good(i)
  <2> DEFINE a == 0
             b == spans[i - 1].end
             c == spans[i].end
             p == flat[i - 1]
             q == seqs[i]
  <2>1. i \in 1..n /\ i - 1 \in 1..n
    BY <1>0
  <2>2. a \in Nat /\ b \in Nat /\ c \in Nat /\ Chain(p, a, b, M) /\ Chain(q, b, c, M)
    BY <1>9, <1>11, <2>1
  <2> HIDE DEF a, b, c, p, q
  <2>3. Chain(p \o q, a, c, M)
    BY <2>2, ChainConcat
  <2> QED
    BY <1>8, <2>3 DEF a, c, p, q
<1> HIDE DEF Good
<1>12. ASSUME NEW k \in wrong, \A t \in wrong : k <= t PROVE FALSE
  <2>1. k \in 2..n /\ k - 1 \in 1..n /\ ~(k <= k - 1) /\ ~Good(k)
    BY <1>0, <1>10
  <2>2. k - 1 \notin wrong
    <3> HIDE DEF wrong
    <3> QED
      BY <1>12, <2>1
  <2>3. Good(k - 1)
    BY <2>1, <2>2
  <2> QED
    BY <1>11, <2>1, <2>3
<1>13. wrong \in SUBSET Nat
  BY <1>0
<1>14. wrong = {}
  <2> HIDE DEF wrong
  <2> QED
    BY <1>12, <1>13, SmallestNumber
<1>15. n \in 1..n
  BY <1>0
<1>16. Good(n)
  BY <1>14, <1>15
<1> QED
  BY <1>1, <1>9, <1>16 DEF Good

\* The chunks of a paragraph.
ChunkedExactly(length, pieces) ==
    /\ pieces[1].start = 0 /\ Last(pieces).end = length
    /\ \A i \in 2..Len(pieces) : pieces[i].start = pieces[i - 1].end
    /\ \A i \in DOMAIN pieces : pieces[i].end - pieces[i].start <= MaxChars
    /\ ValidateCoverage(length, pieces)

\* A paragraph is split into consecutive pieces that cover it and fit the budget.
LEMMA ParagraphIsChunked ==
  ASSUME NEW T, NEW text \in Seq(T)
  PROVE  ChunkedExactly(Len(text), ChunkParagraph(text))
<1> DEFINE pieces == ChunkParagraph(text)
           L == Len(text)
<1>0. MaxChars \in Nat /\ L \in Nat
  BY MaxCharsPositive
<1>1. CASE text = <<>>
  <2> DEFINE e == Piece(0, 0, FALSE)
             p == <<e>>
             none == {i \in DOMAIN p : SortsBefore(p, i, 1)}
             all == DOMAIN p
  <2>1. pieces = p /\ L = 0
    BY <1>1 DEF ChunkParagraph
  <2>2. e \in SpanRows /\ e.start = 0 /\ e.end = 0
    BY DEF Piece, SpanRows
  <2> HIDE DEF e
  <2>3. p \in Seq(SpanRows) /\ Len(p) = 1 /\ p[1] = e /\ DOMAIN p = {1}
    BY <2>2
  <2> HIDE DEF p, pieces
  <2>4. none = {}
    BY <2>2, <2>3 DEF SortsBefore
  <2>5. none \in SUBSET DOMAIN p /\ all \in SUBSET DOMAIN p
    OBVIOUS
  <2> HIDE DEF none, all
  <2>6. CoveredTo(p, none) = 0 /\ CoveredTo(p, all) \in Nat
    BY <2>3, <2>4, <2>5, CoverageIs
  <2>7. ValidateCoverage(0, p)
    <3>1. \A j \in DOMAIN p : p[j].start = CoveredTo(p, {i \in DOMAIN p : SortsBefore(p, i, j)})
      BY <2>2, <2>3, <2>6 DEF none
    <3>2. CoveredTo(p, DOMAIN p) >= 0
      BY <2>6 DEF all
    <3> QED
      BY <3>1, <3>2 DEF ValidateCoverage, CoveredTo, SortsBefore
  <2>8. Last(p) = e
    BY <2>3 DEF Last
  <2>9. ChunkedExactly(0, p)
    BY <1>0, <2>2, <2>3, <2>7, <2>8 DEF ChunkedExactly
  <2> QED
    BY <2>1, <2>9 DEF pieces
<1>2. CASE text # <<>>
  <2> DEFINE spans == QuoteSpans(text)
             n == Len(spans)
             seqs == [i \in DOMAIN spans |->
                         SplitToBudget(text, spans[i].start, spans[i].end, spans[i].dialogue)]
  <2>1. pieces = FlattenSeq(seqs) /\ L # 0
    BY <1>0, <1>2 DEF ChunkParagraph
  <2>2. Chain(spans, 0, L, L)
    BY QuotesAre
  <2> HIDE DEF spans, L
  <2>3. spans # <<>> /\ spans \in Seq(SpanRows) /\ DOMAIN spans = 1..n /\ n \in Nat
    BY <2>1, <2>2 DEF Chain
  <2>4. \A i \in 1..n : spans[i] \in SpanRows
    BY <2>3
  <2>5. \A i \in 1..n : /\ spans[i].start \in Nat /\ spans[i].end \in Nat
                        /\ spans[i].dialogue \in BOOLEAN /\ spans[i].start < spans[i].end
    BY <2>2, <2>4 DEF SpanRows, Chain
  <2>6. \A i \in 1..n : Chain(SplitToBudget(text, spans[i].start, spans[i].end, spans[i].dialogue),
                              spans[i].start, spans[i].end, MaxChars)
    BY <2>5, SplitIs
  <2>7. \A i \in 1..n : seqs[i] = SplitToBudget(text, spans[i].start, spans[i].end, spans[i].dialogue)
    BY <2>3
  <2>8. DOMAIN seqs = 1..n
    BY <2>3
  <2>9. seqs = [i \in 1..n |-> seqs[i]]
    BY <2>3
  <2> HIDE DEF seqs, n
  <2>10. \A i \in 1..n : Chain(seqs[i], spans[i].start, spans[i].end, MaxChars)
    BY <2>6, <2>7
  <2>11. \A i \in 1..n : seqs[i] \in Seq(SpanRows)
    BY <2>10 DEF Chain
  <2>12. seqs \in Seq(Seq(SpanRows)) /\ Len(seqs) = n
    <3> DEFINE Q == Seq(SpanRows)
    <3>1. \A i \in 1..n : seqs[i] \in Q
      BY <2>11
    <3> HIDE DEF Q
    <3>2. seqs \in [1..n -> Q]
      BY <2>9, <3>1
    <3>3. seqs \in Seq(Q) /\ Len(seqs) = n
      BY <2>3, <3>2
    <3> QED
      BY <3>3 DEF Q
  <2>13. Chain(pieces, 0, L, MaxChars)
    BY <1>0, <2>1, <2>2, <2>3, <2>10, <2>12, FlattenIs DEF n
  <2> HIDE DEF pieces
  <2>14. ValidateCoverage(L, pieces)
    BY <1>0, <2>13, ChainIsAccepted
  <2>15. pieces # <<>> /\ pieces \in Seq(SpanRows)
    BY <2>1, <2>13 DEF Chain
  <2>16. Last(pieces) = pieces[Len(pieces)] /\ DOMAIN pieces = 1..Len(pieces)
    BY <2>15 DEF Last
  <2>17. ChunkedExactly(L, pieces)
    BY <2>13, <2>14, <2>15, <2>16 DEF ChunkedExactly, Chain
  <2> QED
    BY <2>17 DEF pieces, L
<1> QED
  BY <1>1, <1>2

-----------------------------------------------------------------------------
(* The numbering of a book *)

\* A list, whatever it holds.
IsList(s) == \E n \in Nat : s = [i \in 1..n |-> s[i]]

LEMMA ListIs ==
  ASSUME NEW s, IsList(s)
  PROVE  /\ Len(s) \in Nat /\ DOMAIN s = 1..Len(s) /\ s = [i \in 1..Len(s) |-> s[i]]
         /\ IsFiniteSet(DOMAIN s) /\ s \in Seq(ToSet(s))
<1>1. PICK n \in Nat : s = [i \in 1..n |-> s[i]]
  BY DEF IsList
<1>2. DOMAIN s = 1..n
  BY <1>1
<1>3. \A i \in 1..n : s[i] \in ToSet(s)
  BY <1>2 DEF ToSet
<1> DEFINE T == ToSet(s)
<1> HIDE DEF T
<1>4. s \in Seq(T) /\ Len(s) = n
  <2>1. \A i \in 1..n : s[i] \in T
    BY <1>3 DEF T
  <2> QED
    BY <1>1, <1>2, <2>1
<1>5. IsFiniteSet(1..n)
  <2>1. 1 \in Int /\ n \in Int
    OBVIOUS
  <2> QED
    BY <2>1, FS_Interval
<1> QED
  BY <1>1, <1>2, <1>4, <1>5 DEF T

\* A sequence is a list.
LEMMA SeqIsList ==
  ASSUME NEW T, NEW s \in Seq(T)
  PROVE  IsList(s)
<1>1. Len(s) \in Nat /\ s = [i \in 1..Len(s) |-> s[i]]
  OBVIOUS
<1> QED
  BY <1>1 DEF IsList

\* A function of the positions of a list is a list.
LEMMA MappedIsList ==
  ASSUME NEW s, IsList(s), NEW f, f = [i \in DOMAIN s |-> f[i]]
  PROVE  IsList(f)
<1>1. Len(s) \in Nat /\ DOMAIN s = 1..Len(s)
  BY ListIs
<1>2. f = [i \in 1..Len(s) |-> f[i]]
  BY <1>1, Zenon
<1> QED
  BY <1>1, <1>2 DEF IsList

\* What is picked from a list is a list.
LEMMA PickedIsList ==
  ASSUME NEW s, NEW D, IsFiniteSet(D)
  PROVE  IsList(Pick(s, D))
<1> DEFINE p == Pick(s, D)
<1>1. Cardinality(D) \in Nat
  BY FS_CardinalityType
<1>2. p = [k \in 1..Cardinality(D) |-> p[k]]
  BY DEF Pick
<1> HIDE DEF p
<1>3. IsList(p)
  BY <1>1, <1>2 DEF IsList
<1> QED
  BY <1>3 DEF p

\* So are the positions of a list that have something in common.
LEMMA PositionsAreFinite ==
  ASSUME NEW s, IsList(s), NEW D \in SUBSET DOMAIN s
  PROVE  IsFiniteSet(D)
<1>1. IsFiniteSet(DOMAIN s)
  BY ListIs
<1> QED
  BY <1>1, FS_Subset

\* A list is cut into lists.
LEMMA CutIsLists ==
  ASSUME NEW s, IsList(s), NEW starts \in SUBSET DOMAIN s
  PROVE  IsList(Cut(s, starts)) /\ \A k \in DOMAIN Cut(s, starts) : IsList(Cut(s, starts)[k])
<1> DEFINE c == Cut(s, starts)
           n == Cardinality(starts)
<1>1. n \in Nat
  BY PositionsAreFinite, FS_CardinalityType
<1>2. c = [k \in 1..n |-> c[k]] /\ DOMAIN c = 1..n
      /\ \A k \in 1..n : c[k] = Pick(s, {i \in DOMAIN s : Upto(starts, i) = k})
  BY DEF Cut
<1> HIDE DEF c, n
<1>3. IsList(c)
  BY <1>1, <1>2 DEF IsList
<1>4. ASSUME NEW k \in 1..n PROVE IsList(c[k])
  <2> DEFINE D == {i \in DOMAIN s : Upto(starts, i) = k}
  <2>1. D \in SUBSET DOMAIN s
    OBVIOUS
  <2> HIDE DEF D
  <2>2. IsList(Pick(s, D))
    BY <2>1, PositionsAreFinite, PickedIsList
  <2> QED
    BY <1>2, <2>2 DEF D
<1> QED
  BY <1>2, <1>3, <1>4 DEF c

\* A list of lists is a sequence of sequences.
LEMMA ListsAreTyped ==
  ASSUME NEW seqs, IsList(seqs), \A i \in DOMAIN seqs : IsList(seqs[i])
  PROVE  \E T : seqs \in Seq(Seq(T))
<1> DEFINE T == UNION {ToSet(seqs[i]) : i \in DOMAIN seqs}
           n == Len(seqs)
<1>1. n \in Nat /\ DOMAIN seqs = 1..n /\ seqs = [i \in 1..n |-> seqs[i]]
  BY ListIs
<1>2. ASSUME NEW i \in 1..n PROVE seqs[i] \in Seq(T)
  <2> DEFINE s == seqs[i]
             R == ToSet(s)
  <2>1. s \in Seq(R)
    BY <1>1, ListIs
  <2>2. R \subseteq T
    BY <1>1
  <2> HIDE DEF s, R, T
  <2>3. s \in Seq(T)
    BY <2>1, <2>2
  <2> QED
    BY <2>3 DEF s
<1> DEFINE Q == Seq(T)
<1>3. \A i \in 1..n : seqs[i] \in Q
  BY <1>2
<1> HIDE DEF Q, n, T
<1>4. seqs \in Seq(Q)
  BY <1>1, <1>3
<1> QED
  BY <1>4 DEF Q

\* How a sequence of sequences is flattened.
Flattens(seqs, S, f) ==
    /\ f \in [1..Len(seqs) -> S] /\ FlattenSeq(seqs) = f[Len(seqs)]
    /\ f[1] = seqs[1] /\ \A i \in 2..Len(seqs) : f[i] = f[i - 1] \o seqs[i]

LEMMA FlatteningRuns ==
  ASSUME NEW T, NEW seqs \in Seq(Seq(T)), Len(seqs) # 0
  PROVE  \E f : Flattens(seqs, Seq(T), f)
<1> DEFINE n == Len(seqs)
           S == Seq(T)
           IsFlat(f) == f = [i \in 1..n |-> IF i = 1 THEN seqs[i] ELSE f[i - 1] \o seqs[i]]
           flat == CHOOSE f : IsFlat(f)
           g == [i \in 1..n |-> [acc \in S |-> acc \o seqs[i]]]
           empty == <<>>
<1>0. n \in Nat /\ n # 0 /\ \A i \in 1..n : seqs[i] \in S
  OBVIOUS
<1>1. FlattenSeq(seqs) = flat[n]
  BY <1>0 DEF FlattenSeq
<1>2. /\ g \in [1..n -> [S -> S]] /\ empty \in S /\ \A s \in S : empty \o s = s
      /\ \A i \in 1..n, acc \in S : g[i][acc] = acc \o seqs[i]
      /\ \A s, t \in S : s \o t \in S
  BY <1>0
<1> HIDE DEF n, S, g, empty
<1>3. PICK h \in [0..n -> S] : h[0] = empty /\ \A i \in 1..n : h[i] = g[i][h[i - 1]]
  <2>1. Recursion(n, S, empty, g)
    BY <1>0, <1>2, RecursionRuns
  <2> QED
    BY <2>1 DEF Recursion
<1>4. h[1] = seqs[1] /\ \A i \in 2..n : h[i] = h[i - 1] \o seqs[i]
  <2>1. 1 \in 1..n /\ 1 - 1 = 0 /\ 0 \in 0..n
    BY <1>0
  <2>2. h[1] = empty \o seqs[1]
    <3>1. h[1] = g[1][empty]
      BY <1>3, <2>1
    <3> QED
      BY <1>2, <2>1, <3>1
  <2>3. ASSUME NEW i \in 2..n PROVE h[i] = h[i - 1] \o seqs[i]
    <3>1. i \in 1..n /\ i - 1 \in 0..n
      BY <1>0
    <3> QED
      BY <1>2, <1>3, <3>1
  <2> QED
    BY <1>0, <1>2, <2>1, <2>2, <2>3
<1> DEFINE f == [i \in 1..n |-> h[i]]
<1>5. ASSUME NEW i \in 1..n PROVE f[i] = IF i = 1 THEN seqs[i] ELSE f[i - 1] \o seqs[i]
  <2>1. CASE i # 1
    <3>1. i \in 2..n /\ i - 1 \in 1..n
      BY <1>0, <2>1
    <3> QED
      BY <1>4, <2>1, <3>1
  <2> QED
    BY <1>4, <2>1
<1>6. IsFlat(f)
  <2>1. f = [i \in 1..n |-> f[i]]
    OBVIOUS
  <2> HIDE DEF f
  <2> QED
    BY <1>5, <2>1
<1>7. IsFlat(flat)
  <2> HIDE DEF IsFlat, f
  <2> QED
    BY <1>6, Zenon
<1> HIDE DEF flat
<1>8. flat[1] = seqs[1] /\ \A i \in 2..n : flat[i] = flat[i - 1] \o seqs[i]
  <2>1. flat[1] = seqs[1] /\ 1 \in 1..n
    BY <1>0, <1>7
  <2>2. ASSUME NEW i \in 2..n PROVE flat[i] = flat[i - 1] \o seqs[i]
    <3>1. i \in 1..n /\ i # 1
      BY <1>0
    <3>2. flat[i] = IF i = 1 THEN seqs[i] ELSE flat[i - 1] \o seqs[i]
      BY <1>7, <3>1
    <3> QED
      BY <3>1, <3>2
  <2> QED
    BY <2>1, <2>2
<1>9. flat = [i \in 1..n |-> flat[i]]
  BY <1>7
<1> HIDE DEF IsFlat
<1> DEFINE wrong == {i \in 1..n : flat[i] \notin S}
<1>10. ASSUME NEW k \in wrong, \A t \in wrong : k <= t PROVE FALSE
  <2>1. k \in 2..n /\ k - 1 \in 1..n /\ ~(k <= k - 1) /\ flat[k] \notin S
    BY <1>0, <1>8
  <2>2. k - 1 \notin wrong
    <3> HIDE DEF wrong
    <3> QED
      BY <1>10, <2>1
  <2>3. flat[k - 1] \in S
    BY <2>1, <2>2
  <2>4. k \in 1..n
    BY <1>0, <2>1
  <2>5. flat[k] = flat[k - 1] \o seqs[k]
    BY <1>8, <2>1
  <2>6. seqs[k] \in S
    BY <1>0, <2>4
  <2> HIDE DEF wrong
  <2>7. flat[k] \in S
    BY <1>2, <2>3, <2>5, <2>6
  <2> QED
    BY <2>1, <2>7
<1>11. wrong \in SUBSET Nat
  BY <1>0
<1>12. wrong = {}
  <2> HIDE DEF wrong
  <2> QED
    BY <1>10, <1>11, SmallestNumber
<1>13. flat \in [1..n -> S]
  BY <1>9, <1>12
<1>14. Flattens(seqs, S, flat)
  BY <1>1, <1>8, <1>13 DEF Flattens, n
<1> QED
  BY <1>14 DEF S

\* Two intervals from one that are the same have the same end.
LEMMA SameInterval ==
  ASSUME NEW m \in Nat, NEW n \in Nat, 1..m = 1..n
  PROVE  m = n
<1>1. (m \in 1..m => m \in 1..n) /\ (n \in 1..n => n \in 1..m)
  OBVIOUS
<1> QED
  BY <1>1

\* Sums of natural numbers do not fall.
LEMMA SumsRise ==
  ASSUME NEW numbers \in Seq(Nat), NEW a \in 0..Len(numbers), NEW b \in 0..Len(numbers), a <= b
  PROVE  Sums(numbers)[a] <= Sums(numbers)[b]
<1> DEFINE sum == Sums(numbers)
           N == Len(numbers)
           wrong == {k \in 0..N : a <= k /\ ~(sum[a] <= sum[k])}
<1>0. numbers \in Seq(Int) /\ N \in Nat /\ \A k \in 1..N : numbers[k] \in Nat
  OBVIOUS
<1>1. /\ sum \in [0..N -> Int]
      /\ \A k \in 1..N : sum[k] = sum[k - 1] + numbers[k]
  BY <1>0, SumsAre
<1> HIDE DEF sum
<1>2. ASSUME NEW m \in wrong, \A t \in wrong : m <= t PROVE FALSE
  <2>1. m \in 0..N /\ a <= m /\ ~(sum[a] <= sum[m]) /\ sum[a] \in Int /\ sum[m] \in Int
    BY <1>1
  <2>2. m # a
    BY <2>1
  <2>3. m \in 1..N /\ m - 1 \in 0..N /\ a <= m - 1 /\ ~(m <= m - 1)
    BY <1>0, <2>1, <2>2
  <2>4. m - 1 \notin wrong
    <3> HIDE DEF wrong
    <3> QED
      BY <1>2, <2>3
  <2>5. sum[a] <= sum[m - 1] /\ sum[m - 1] \in Int
    BY <1>1, <2>3, <2>4
  <2>6. sum[m] = sum[m - 1] + numbers[m] /\ numbers[m] \in Nat
    BY <1>0, <1>1, <2>3
  <2> QED
    BY <2>1, <2>5, <2>6
<1>3. wrong \in SUBSET Nat
  BY <1>0
<1>4. wrong = {}
  <2> HIDE DEF wrong
  <2> QED
    BY <1>2, <1>3, SmallestNumber
<1> QED
  BY <1>4 DEF sum

\* Where the elements of a flattened sequence come from.
Lengths(seqs) == [i \in 1..Len(seqs) |-> Len(seqs[i])]

PlacedUpTo(seqs, n, flat) ==
    LET sum == Sums(Lengths(seqs))
    IN /\ Len(flat) = sum[n]
       /\ \A c \in 1..n : \A i \in 1..Len(seqs[c]) : flat[sum[c - 1] + i] = seqs[c][i]
       /\ \A j \in 1..Len(flat) :
              \E c \in 1..n : \E i \in 1..Len(seqs[c]) : j = sum[c - 1] + i

\* Two sequences, one after the other.
Joined(f, s, g) ==
    /\ Len(g) = Len(f) + Len(s)
    /\ \A j \in 1..Len(f) : g[j] = f[j]
    /\ \A i \in 1..Len(s) : g[Len(f) + i] = s[i]

LEMMA ConcatIs ==
  ASSUME NEW T, NEW f \in Seq(T), NEW s \in Seq(T)
  PROVE  f \o s \in Seq(T) /\ Joined(f, s, f \o s)
<1>1. Len(f) \in Nat /\ Len(s) \in Nat /\ f \o s \in Seq(T) /\ Len(f \o s) = Len(f) + Len(s)
  OBVIOUS
<1>2. ASSUME NEW j \in 1..Len(f) PROVE (f \o s)[j] = f[j]
  OBVIOUS
<1>3. ASSUME NEW i \in 1..Len(s) PROVE (f \o s)[Len(f) + i] = s[i]
  <2>1. /\ Len(f) + i \in 1..(Len(f) + Len(s)) /\ ~(Len(f) + i <= Len(f))
        /\ (Len(f) + i) - Len(f) = i
    BY <1>1
  <2> QED
    BY <1>1, <2>1
<1> QED
  BY <1>1, <1>2, <1>3 DEF Joined

\* One more sequence takes the places that follow.
LEMMA NextIsPlaced ==
  ASSUME NEW T, NEW seqs \in Seq(Seq(T)), NEW m \in 1..Len(seqs), NEW f \in Seq(T),
         PlacedUpTo(seqs, m - 1, f)
  PROVE  PlacedUpTo(seqs, m, f \o seqs[m])
<1> DEFINE N == Len(seqs)
           sum == Sums(Lengths(seqs))
           l == Lengths(seqs)
           s == seqs[m]
           g == f \o s
           b == sum[m - 1]
           k == Len(s)
<1>0. N \in Nat /\ m \in Nat /\ m - 1 \in Nat /\ m - 1 \in 0..N /\ m \in 0..N /\ m \in 1..N
  OBVIOUS
<1>1. \A i \in 1..N : seqs[i] \in Seq(T) /\ Len(seqs[i]) \in Nat
  OBVIOUS
<1>2. l \in Seq(Nat) /\ Len(l) = N /\ \A i \in 1..N : l[i] = Len(seqs[i])
  <2> HIDE DEF N
  <2>1. l = [i \in 1..N |-> Len(seqs[i])]
    BY DEF Lengths, N
  <2> QED
    BY <1>0, <1>1, <2>1
<1>3. s \in Seq(T) /\ k \in Nat /\ l[m] = k
  BY <1>1, <1>2
<1> HIDE DEF l
<1>4. l \in Seq(Int) /\ sum = Sums(l)
  BY <1>2 DEF l
<1>5. /\ sum \in [0..N -> Int] /\ \A c \in 1..N : sum[c] = sum[c - 1] + l[c]
      /\ \A c \in 0..N : sum[c] \in Nat
  BY <1>2, <1>4, SumsAre, NaturalSums
<1>6. sum[m] = b + k /\ b \in Nat
  BY <1>0, <1>3, <1>5
<1>7. ASSUME NEW c \in 1..(m - 1), NEW i \in 1..Len(seqs[c])
      PROVE  sum[c - 1] + i \in 1..b
  <2> DEFINE a == m - 1
  <2>1. c \in 1..N /\ c - 1 \in 0..N /\ c \in 0..N /\ c <= a /\ a \in 0..N
    BY <1>0
  <2>2. sum[c] <= sum[a]
    <3> HIDE DEF a, sum
    <3> QED
      BY <1>2, <1>4, <2>1, SumsRise
  <2>3. sum[c] = sum[c - 1] + l[c] /\ l[c] = Len(seqs[c]) /\ l[c] \in Nat /\ sum[c - 1] \in Nat
        /\ sum[c] \in Nat
    BY <1>1, <1>2, <1>5, <2>1
  <2>4. i \in 1..l[c]
    BY <2>3
  <2> DEFINE x == sum[c - 1]
             y == sum[c]
             n == l[c]
  <2>5. /\ x \in Nat /\ n \in Nat /\ y = x + n /\ y <= b /\ i \in 1..n
    BY <2>2, <2>3, <2>4
  <2> HIDE DEF x, y, n, b
  <2>6. x + i \in 1..b
    BY <1>6, <2>5
  <2> QED
    BY <2>6 DEF x
<1> HIDE DEF l
<1>8. /\ Len(f) = b
      /\ \A c \in 1..(m - 1) : \A i \in 1..Len(seqs[c]) : f[sum[c - 1] + i] = seqs[c][i]
      /\ \A j \in 1..b : \E c \in 1..(m - 1) : \E i \in 1..Len(seqs[c]) : j = sum[c - 1] + i
  BY DEF PlacedUpTo
<1>9. Len(g) = b + k /\ g \in Seq(T)
      /\ (\A j \in 1..b : g[j] = f[j]) /\ (\A i \in 1..k : g[b + i] = s[i])
  <2> HIDE DEF s, k, b, sum
  <2>1. Len(f) = b /\ f \in Seq(T) /\ s \in Seq(T) /\ Len(s) = k /\ b \in Nat /\ k \in Nat
    BY <1>3, <1>6, <1>8 DEF k
  <2>2. g \in Seq(T) /\ Joined(f, s, g)
    BY <2>1, ConcatIs
  <2> HIDE DEF g
  <2> QED
    BY <2>1, <2>2 DEF Joined
<1> HIDE DEF g, sum
<1>10. ASSUME NEW c \in 1..m, NEW i \in 1..Len(seqs[c]) PROVE g[sum[c - 1] + i] = seqs[c][i]
  <2>1. CASE c = m
    BY <1>9, <2>1
  <2>2. CASE c # m
    <3>1. c \in 1..(m - 1)
      BY <1>0, <2>2
    <3>2. sum[c - 1] + i \in 1..b
      BY <1>7, <3>1
    <3> QED
      BY <1>8, <1>9, <3>1, <3>2
  <2> QED
    BY <2>1, <2>2
<1>11. ASSUME NEW j \in 1..(b + k)
       PROVE  \E c \in 1..m : \E i \in 1..Len(seqs[c]) : j = sum[c - 1] + i
  <2>1. CASE j <= b
    <3>1. j \in 1..b
      BY <1>6, <2>1
    <3>2. PICK c \in 1..(m - 1) : \E i \in 1..Len(seqs[c]) : j = sum[c - 1] + i
      BY <1>8, <3>1
    <3>3. c \in 1..m
      BY <1>0
    <3> QED
      BY <3>2, <3>3
  <2>2. CASE ~(j <= b)
    <3>1. j - b \in 1..k /\ j = b + (j - b) /\ m \in 1..m
      BY <1>0, <1>3, <1>6, <2>2
    <3> QED
      BY <3>1
  <2> QED
    BY <2>1, <2>2
<1>12. PlacedUpTo(seqs, m, g)
  BY <1>6, <1>9, <1>10, <1>11 DEF PlacedUpTo, sum
<1> QED
  BY <1>12 DEF g

\* The elements of a flattened sequence are those of its parts, one after the other.
LEMMA FlatteningPlaces ==
  ASSUME NEW T, NEW seqs \in Seq(Seq(T))
  PROVE  FlattenSeq(seqs) \in Seq(T) /\ PlacedUpTo(seqs, Len(seqs), FlattenSeq(seqs))
<1> DEFINE N == Len(seqs)
           l == Lengths(seqs)
           sum == Sums(l)
           Good(m, f) == PlacedUpTo(seqs, m, f)
           empty == <<>>
<1>0. N \in Nat /\ \A i \in 1..N : seqs[i] \in Seq(T) /\ Len(seqs[i]) \in Nat
  OBVIOUS
<1>1. l \in Seq(Int) /\ Len(l) = N
  <2> HIDE DEF N
  <2>1. l = [i \in 1..N |-> Len(seqs[i])]
    BY DEF Lengths, N
  <2> QED
    BY <1>0, <2>1
<1> HIDE DEF l
<1>2. sum[0] = 0
  BY <1>1, SumsAre
<1> HIDE DEF sum
<1>3. Good(0, empty) /\ empty \in Seq(T)
  BY <1>2 DEF PlacedUpTo, sum, l
<1> HIDE DEF empty
<1>4. ASSUME NEW m \in 1..N, NEW f \in Seq(T), Good(m - 1, f) PROVE Good(m, f \o seqs[m])
  BY <1>4, NextIsPlaced
<1>5. CASE N = 0
  <2>1. FlattenSeq(seqs) = empty
    BY <1>5 DEF FlattenSeq, empty
  <2> QED
    BY <1>3, <1>5, <2>1
<1>6. CASE N # 0
  <2>1. PICK f : Flattens(seqs, Seq(T), f)
    BY <1>6, FlatteningRuns
  <2>2. /\ \A i \in 1..N : f[i] \in Seq(T)
        /\ FlattenSeq(seqs) = f[N] /\ f[1] = seqs[1]
        /\ \A i \in 2..N : f[i] = f[i - 1] \o seqs[i]
    BY <2>1 DEF Flattens
  <2> HIDE DEF Good
  <2>3. Good(1, f[1])
    <3> DEFINE s == seqs[1]
    <3>1. 1 \in 1..N /\ 1 - 1 = 0 /\ s \in Seq(T)
      BY <1>0, <1>6
    <3>2. Good(1, empty \o s)
      BY <1>3, <1>4, <3>1
    <3>3. empty \o s = s
      <4> HIDE DEF s
      <4> QED
        BY <3>1 DEF empty
    <3> QED
      BY <2>2, <3>2, <3>3
  <2> DEFINE wrong == {i \in 1..N : ~Good(i, f[i])}
  <2>4. ASSUME NEW k \in wrong, \A t \in wrong : k <= t PROVE FALSE
    <3>1. k \in 2..N /\ k - 1 \in 1..N /\ k \in 1..N /\ ~(k <= k - 1) /\ ~Good(k, f[k])
      BY <1>0, <2>3
    <3>2. k - 1 \notin wrong
      <4> HIDE DEF wrong
      <4> QED
        BY <2>4, <3>1
    <3>3. Good(k - 1, f[k - 1])
      BY <3>1, <3>2
    <3> QED
      BY <1>4, <2>2, <3>1, <3>3
  <2>5. wrong \in SUBSET Nat
    BY <1>0
  <2>6. wrong = {}
    <3> HIDE DEF wrong
    <3> QED
      BY <2>4, <2>5, SmallestNumber
  <2>7. N \in 1..N
    BY <1>0, <1>6
  <2>8. Good(N, f[N])
    BY <2>6, <2>7
  <2> QED
    BY <2>2, <2>7, <2>8 DEF Good
<1> QED
  BY <1>5, <1>6

\* So a list of lists is flattened into a list.
LEMMA FlattenedIsList ==
  ASSUME NEW seqs, IsList(seqs), \A i \in DOMAIN seqs : IsList(seqs[i])
  PROVE  /\ IsList(FlattenSeq(seqs)) /\ PlacedUpTo(seqs, Len(seqs), FlattenSeq(seqs))
         /\ Lengths(seqs) \in Seq(Nat) /\ Len(Lengths(seqs)) = Len(seqs)
<1>1. PICK T : seqs \in Seq(Seq(T))
  BY ListsAreTyped
<1>2. FlattenSeq(seqs) \in Seq(T) /\ PlacedUpTo(seqs, Len(seqs), FlattenSeq(seqs))
  BY <1>1, FlatteningPlaces
<1>3. IsList(FlattenSeq(seqs))
  BY <1>2, SeqIsList
<1>4. Lengths(seqs) \in Seq(Nat) /\ Len(Lengths(seqs)) = Len(seqs)
  <2> DEFINE N == Len(seqs)
  <2>1. N \in Nat /\ \A i \in 1..N : Len(seqs[i]) \in Nat
    BY <1>1
  <2>2. Lengths(seqs) = [i \in 1..N |-> Len(seqs[i])]
    BY DEF Lengths
  <2> HIDE DEF N
  <2>3. Lengths(seqs) \in Seq(Nat) /\ Len(Lengths(seqs)) = N
    BY <2>1, <2>2
  <2> QED
    BY <2>3 DEF N
<1> QED
  BY <1>2, <1>3, <1>4

\* A value lies between the lowest and the highest.
LEMMA RangeIs ==
  ASSUME NEW n \in Nat, NEW V \in SUBSET (0..n), NEW v \in V, NEW lower, NEW upper
  PROVE  /\ Lowest(V, lower) \in V /\ Highest(V, upper) \in V
         /\ v \in Lowest(V, lower)..Highest(V, upper)
<1>1. V # {} /\ V \in SUBSET Nat /\ V \in SUBSET Int
  OBVIOUS
<1>2. \E m \in V : \A k \in V : m <= k
  BY <1>1, SmallestNumber
<1>3. \E m \in V : \A k \in V : m >= k
  <2>1. PICK m \in V : \A k \in V : k <= m
    BY <1>1, GreatestNumber
  <2> QED
    BY <1>1, <2>1
<1>4. Lowest(V, lower) \in V /\ \A k \in V : Lowest(V, lower) <= k
  BY <1>1, <1>2 DEF Lowest
<1>5. Highest(V, upper) \in V /\ \A k \in V : Highest(V, upper) >= k
  BY <1>1, <1>3 DEF Highest
<1> QED
  BY <1>1, <1>4, <1>5

\* A chapter whose first paragraph has the number `before`.
NumberedFrom(chapter, before) ==
    LET paragraphs == chapter.paragraphs
        sections == chapter.sections
        in(i, part) == paragraphs[i].spinePosition \in part.spineStart..part.spineEnd
    IN /\ IsList(paragraphs) /\ IsList(sections)
       /\ \A i \in DOMAIN paragraphs :
              /\ paragraphs[i].spinePosition = before + i - 1 /\ in(i, chapter)
              /\ \A s \in DOMAIN sections : paragraphs[i].section = s => in(i, sections[s])
       /\ Len(paragraphs) # 0 =>
              /\ chapter.spineStart \in Nat /\ chapter.spineStart >= before
              /\ chapter.spineEnd \in Nat /\ chapter.spineEnd < before + Len(paragraphs)

\* NumberChapter numbers its paragraphs and finds their range.
LEMMA ChapterIsNumbered ==
  ASSUME NEW c, NEW title, NEW titles, IsList(titles), NEW old, IsList(old), NEW before \in Nat,
         NEW paragraphs, paragraphs = NumberParagraphs(old, before)
  PROVE  NumberedFrom(NumberChapter(c, title, titles, paragraphs,
                                    Lowest(Positions(ToSet(paragraphs)), before),
                                    Highest(Positions(ToSet(paragraphs)), before)), before)
<1> DEFINE n == Len(old)
           all == Positions(ToSet(paragraphs))
           start == Lowest(all, before)
           end == Highest(all, before)
           sections == NumberSections(titles, paragraphs, start, end)
           of(s) == Positions({p \in ToSet(paragraphs) : p.section = s})
           chapter == NumberChapter(c, title, titles, paragraphs, start, end)
           top == before + n
<1>1. n \in Nat /\ DOMAIN old = 1..n /\ top \in Nat
  BY ListIs
<1>2. /\ paragraphs = [i \in 1..n |-> paragraphs[i]] /\ DOMAIN paragraphs = 1..n
      /\ \A i \in 1..n : paragraphs[i].spinePosition = before + i - 1
  <2> HIDE DEF n
  <2> QED
    BY <1>1 DEF NumberParagraphs
<1>3. IsList(paragraphs) /\ Len(paragraphs) = n
  <2>1. IsList(paragraphs)
    BY <1>1, <1>2 DEF IsList
  <2>2. Len(paragraphs) \in Nat /\ 1..n = 1..Len(paragraphs)
    BY <1>2, <2>1, ListIs
  <2>3. Len(paragraphs) = n
    BY <1>1, <2>2, SameInterval
  <2> QED
    BY <2>1, <2>3
<1> HIDE DEF n
<1>4. \A i \in 1..n : paragraphs[i].spinePosition \in all /\ paragraphs[i] \in ToSet(paragraphs)
  BY <1>2 DEF Positions, ToSet
<1>5. \A v \in all : v \in before..(top - 1)
  <2> SUFFICES ASSUME NEW v \in all PROVE v \in before..(top - 1)
    OBVIOUS
  <2>1. PICK i \in 1..n : v = paragraphs[i].spinePosition
    BY <1>2 DEF Positions, ToSet
  <2> QED
    BY <1>1, <1>2, <2>1
<1>6. all \in SUBSET (0..top)
  BY <1>1, <1>5
<1>7. ASSUME NEW i \in 1..n
      PROVE  /\ paragraphs[i].spinePosition \in start..end /\ start \in all /\ end \in all
  <2> HIDE DEF all, top
  <2> QED
    BY <1>1, <1>4, <1>6, RangeIs
<1>8. ASSUME NEW i \in 1..n, NEW s, paragraphs[i].section = s
      PROVE  paragraphs[i].spinePosition \in Lowest(of(s), start)..Highest(of(s), end)
  <2>1. paragraphs[i].spinePosition \in of(s)
    BY <1>4, <1>8 DEF Positions
  <2>2. of(s) \in SUBSET (0..top)
    <3>1. of(s) \subseteq all
      BY DEF Positions
    <3> QED
      BY <1>6, <3>1
  <2> DEFINE V == of(s)
  <2> HIDE DEF V, top, start, end
  <2>3. paragraphs[i].spinePosition \in Lowest(V, start)..Highest(V, end)
    BY <1>1, <2>1, <2>2, RangeIs DEF V
  <2> QED
    BY <2>3 DEF V
<1>9. /\ chapter.paragraphs = paragraphs /\ chapter.sections = sections
      /\ chapter.spineStart = start /\ chapter.spineEnd = end
  BY DEF NumberChapter
<1>10. /\ sections = [s \in DOMAIN titles |-> sections[s]] /\ DOMAIN sections = DOMAIN titles
       /\ \A s \in DOMAIN titles : /\ sections[s].spineStart = Lowest(of(s), start)
                                   /\ sections[s].spineEnd = Highest(of(s), end)
  <2> HIDE DEF start, end
  <2> QED
    BY DEF NumberSections
<1> HIDE DEF sections, start, end, chapter, of, all
<1>11. IsList(sections)
  BY <1>10, MappedIsList
<1>12. ASSUME n # 0
       PROVE  start \in Nat /\ start >= before /\ end \in Nat /\ end < before + n
  <2>1. 1 \in 1..n
    BY <1>1, <1>12
  <2>2. start \in before..(top - 1) /\ end \in before..(top - 1)
    BY <1>5, <1>7, <2>1
  <2> QED
    BY <1>1, <2>2
<1>13. ASSUME NEW i \in DOMAIN paragraphs
       PROVE  /\ paragraphs[i].spinePosition = before + i - 1
              /\ paragraphs[i].spinePosition \in start..end
              /\ \A s \in DOMAIN sections : paragraphs[i].section = s =>
                     paragraphs[i].spinePosition \in sections[s].spineStart..sections[s].spineEnd
  BY <1>2, <1>7, <1>8, <1>10
<1>14. NumberedFrom(chapter, before)
  BY <1>3, <1>9, <1>11, <1>12, <1>13, Zenon DEF NumberedFrom
<1> QED
  BY <1>14 DEF chapter, start, end, all

\* The paragraphs of each chapter, counted.
Counts(chapters) == [c \in 1..Len(chapters) |-> Len(chapters[c].paragraphs)]

LEMMA CountsAre ==
  ASSUME NEW chapters, IsList(chapters), \A c \in DOMAIN chapters : IsList(chapters[c].paragraphs)
  PROVE  /\ Counts(chapters) \in Seq(Nat) /\ Len(Counts(chapters)) = Len(chapters)
         /\ \A c \in 1..Len(chapters) : Counts(chapters)[c] = Len(chapters[c].paragraphs)
<1> DEFINE N == Len(chapters)
           counts == Counts(chapters)
<1>1. N \in Nat /\ DOMAIN chapters = 1..N
  BY ListIs
<1>2. \A c \in 1..N : Len(chapters[c].paragraphs) \in Nat
  BY <1>1, ListIs
<1>3. counts = [c \in 1..N |-> Len(chapters[c].paragraphs)]
  BY DEF Counts
<1> HIDE DEF N, counts
<1>4. counts \in Seq(Nat) /\ Len(counts) = N
      /\ \A c \in 1..N : counts[c] = Len(chapters[c].paragraphs)
  BY <1>1, <1>2, <1>3
<1> QED
  BY <1>4 DEF N, counts

\* The spine counter is the number of paragraphs before.
LEMMA SpineBeforeIs ==
  ASSUME NEW split, IsList(split), \A c \in DOMAIN split : IsList(split[c].paragraphs),
         NEW c \in 1..Len(split)
  PROVE  SpineBefore(split, c) = Sums(Counts(split))[c - 1]
<1> DEFINE N == Len(split)
           IsUp(f) == f = [n \in 0..N |-> IF n = 0 THEN 0 ELSE f[n - 1] + Len(split[n].paragraphs)]
           up == CHOOSE f : IsUp(f)
           counts == Counts(split)
           sum == Sums(counts)
<1>0. N \in Nat
  BY ListIs
<1>1. SpineBefore(split, c) = up[c - 1]
  BY DEF SpineBefore
<1>2. counts \in Seq(Nat) /\ Len(counts) = N /\ \A n \in 1..N : counts[n] = Len(split[n].paragraphs)
  BY CountsAre
<1> HIDE DEF counts, N
<1>3. counts \in Seq(Int)
  BY <1>2
<1>4. sum \in [0..N -> Int] /\ sum[0] = 0 /\ \A n \in 1..N : sum[n] = sum[n - 1] + counts[n]
  BY <1>2, <1>3, SumsAre
<1> HIDE DEF sum
<1>5. ASSUME NEW n \in 0..N
      PROVE  sum[n] = IF n = 0 THEN 0 ELSE sum[n - 1] + Len(split[n].paragraphs)
  <2>1. CASE n # 0
    <3>1. n \in 1..N
      BY <1>0, <2>1
    <3> QED
      BY <1>2, <1>4, <2>1, <3>1
  <2> QED
    BY <1>4, <2>1
<1>6. IsUp(sum)
  <2>1. sum = [n \in 0..N |-> sum[n]]
    BY <1>4
  <2> QED
    BY <1>5, <2>1
<1>7. IsUp(up)
  <2> HIDE DEF IsUp
  <2> QED
    BY <1>6, Zenon
<1> HIDE DEF up
<1>8. up[0] = 0 /\ \A n \in 1..N : up[n] = up[n - 1] + Len(split[n].paragraphs)
  <2>1. up[0] = 0
    BY <1>0, <1>7
  <2>2. ASSUME NEW n \in 1..N PROVE up[n] = up[n - 1] + Len(split[n].paragraphs)
    <3>1. n \in 0..N /\ n # 0
      BY <1>0
    <3>2. up[n] = IF n = 0 THEN 0 ELSE up[n - 1] + Len(split[n].paragraphs)
      BY <1>7, <3>1
    <3> QED
      BY <3>1, <3>2
  <2> QED
    BY <2>1, <2>2
<1> HIDE DEF IsUp
<1> DEFINE wrong == {n \in 0..N : up[n] # sum[n]}
<1>9. ASSUME NEW m \in wrong, \A t \in wrong : m <= t PROVE FALSE
  <2>1. m \in 1..N /\ m - 1 \in 0..N /\ ~(m <= m - 1) /\ up[m] # sum[m]
    BY <1>0, <1>4, <1>8
  <2>2. m - 1 \notin wrong
    <3> HIDE DEF wrong
    <3> QED
      BY <1>9, <2>1
  <2>3. up[m - 1] = sum[m - 1]
    BY <2>1, <2>2
  <2> QED
    BY <1>2, <1>4, <1>8, <2>1, <2>3
<1>10. wrong \in SUBSET Nat
  BY <1>0
<1>11. wrong = {}
  <2> HIDE DEF wrong
  <2> QED
    BY <1>9, <1>10, SmallestNumber
<1>12. c - 1 \in 0..N
  BY <1>0 DEF N
<1> QED
  BY <1>1, <1>11, <1>12 DEF sum, counts

\* The chapters of a book are numbered one after the other.
WellNumbered(chapters) ==
    /\ IsList(chapters) /\ \A c \in DOMAIN chapters : IsList(chapters[c].paragraphs)
    /\ \A c \in DOMAIN chapters : NumberedFrom(chapters[c], Sums(Counts(chapters))[c - 1])

LEMMA ChaptersAreNumbered ==
  ASSUME NEW raw, IsList(raw), NEW split, split = [c \in DOMAIN raw |-> split[c]],
         \A c \in DOMAIN raw : IsList(split[c].paragraphs) /\ IsList(split[c].sections)
  PROVE  WellNumbered(NumberChapters(raw, split))
<1> DEFINE N == Len(raw)
           chapters == NumberChapters(raw, split)
           sum == Sums(Counts(split))
           before(c) == SpineBefore(split, c)
           rows(c) == NumberParagraphs(split[c].paragraphs, before(c))
<1>1. N \in Nat /\ DOMAIN raw = 1..N
  BY ListIs
<1>2. IsList(split) /\ DOMAIN split = 1..N /\ Len(split) = N
  <2>1. IsList(split)
    BY MappedIsList
  <2>2. DOMAIN split = 1..N
    BY <1>1
  <2>3. Len(split) \in Nat /\ 1..N = 1..Len(split)
    BY <2>1, <2>2, ListIs
  <2>4. Len(split) = N
    BY <1>1, <2>3, SameInterval
  <2> QED
    BY <2>1, <2>2, <2>4
<1> HIDE DEF N
<1>3. Counts(split) \in Seq(Nat) /\ Len(Counts(split)) = N
      /\ \A c \in 1..N : Counts(split)[c] = Len(split[c].paragraphs)
  BY <1>1, <1>2, CountsAre
<1>4. \A c \in 1..N : before(c) = sum[c - 1] /\ before(c) \in Nat
  <2>1. \A c \in 1..N : before(c) = sum[c - 1]
    BY <1>1, <1>2, SpineBeforeIs
  <2>2. \A k \in 0..N : sum[k] \in Nat
    BY <1>3, NaturalSums
  <2>3. \A c \in 1..N : c - 1 \in 0..N
    BY <1>1
  <2> QED
    BY <2>1, <2>2, <2>3
<1>5. /\ chapters = [c \in 1..N |-> chapters[c]] /\ DOMAIN chapters = 1..N
      /\ \A c \in 1..N : chapters[c] =
             NumberChapter(c, raw[c].title, split[c].sections, rows(c),
                           Lowest(Positions(ToSet(rows(c))), before(c)),
                           Highest(Positions(ToSet(rows(c))), before(c)))
  BY <1>1 DEF NumberChapters
<1> HIDE DEF chapters, sum, before
<1>6. ASSUME NEW c \in 1..N
      PROVE  /\ NumberedFrom(chapters[c], before(c)) /\ IsList(chapters[c].paragraphs)
             /\ Len(chapters[c].paragraphs) = Len(split[c].paragraphs)
  <2> DEFINE old == split[c].paragraphs
             titles == split[c].sections
             title == raw[c].title
             b == before(c)
             paragraphs == NumberParagraphs(old, b)
             chapter == NumberChapter(c, title, titles, paragraphs,
                                      Lowest(Positions(ToSet(paragraphs)), b),
                                      Highest(Positions(ToSet(paragraphs)), b))
  <2>1. b \in Nat /\ IsList(old) /\ IsList(titles) /\ chapters[c] = chapter
    BY <1>1, <1>4, <1>5
  <2>2. chapter.paragraphs = paragraphs
    BY DEF NumberChapter
  <2>3. DOMAIN paragraphs = DOMAIN old
    BY DEF NumberParagraphs
  <2> HIDE DEF old, titles, title, b, paragraphs
  <2>4. NumberedFrom(chapter, b)
    BY <2>1, ChapterIsNumbered DEF paragraphs
  <2> HIDE DEF chapter
  <2>5. IsList(paragraphs)
    BY <2>2, <2>4 DEF NumberedFrom
  <2>6. /\ Len(paragraphs) \in Nat /\ DOMAIN paragraphs = 1..Len(paragraphs)
        /\ Len(old) \in Nat /\ DOMAIN old = 1..Len(old)
    BY <2>1, <2>5, ListIs
  <2>7. Len(paragraphs) = Len(old)
    BY <2>3, <2>6, SameInterval
  <2> QED
    BY <2>1, <2>2, <2>4, <2>5, <2>7 DEF b, old
<1>7. IsList(chapters)
  BY <1>1, <1>5 DEF IsList
<1>8. Len(chapters) = N
  <2>1. Len(chapters) \in Nat /\ 1..N = 1..Len(chapters)
    BY <1>5, <1>7, ListIs
  <2> QED
    BY <1>1, <2>1, SameInterval
<1>9. Counts(chapters) = Counts(split)
  <2>1. \A c \in 1..N : Len(chapters[c].paragraphs) = Len(split[c].paragraphs)
    BY <1>6
  <2> QED
    BY <1>2, <1>8, <2>1 DEF Counts
<1>10. WellNumbered(chapters)
  BY <1>4, <1>5, <1>6, <1>7, <1>9 DEF WellNumbered, sum
<1> QED
  BY <1>10 DEF chapters

\* What is stored of a well-numbered book is a numbering.
LEMMA StoredIsNumbered ==
  ASSUME NEW result, WellNumbered(result.chapters),
         result.status = "READY" =>
             \A c \in DOMAIN result.chapters : Len(result.chapters[c].paragraphs) # 0
  PROVE  Numbered(result, PersistStructure(result))
<1> DEFINE chapters == result.chapters
           N == Len(chapters)
           sum == Sums(Counts(chapters))
           stored == PersistStructure(result)
           rowOf(c, p) == [chapter |-> c, section |-> p.section, orderIndex |-> p.orderIndex,
                         spinePosition |-> p.spinePosition, text |-> p.text,
                         parsedPage |-> IF p.page \in DOMAIN result.pages THEN p.page ELSE 0]
           part(c, s) == [chapter |-> c, section |-> s, title |-> chapters[c].sections[s].title,
                          spineStart |-> chapters[c].sections[s].spineStart,
                          spineEnd |-> chapters[c].sections[s].spineEnd]
           prows == [c \in DOMAIN chapters |->
                        [i \in DOMAIN chapters[c].paragraphs |-> rowOf(c, chapters[c].paragraphs[i])]]
           srows == [c \in DOMAIN chapters |->
                        [s \in DOMAIN chapters[c].sections |-> part(c, s)]]
<1>1. /\ stored.paragraph = FlattenSeq(prows) /\ stored.section = FlattenSeq(srows)
      /\ DOMAIN stored.chapter = DOMAIN chapters
      /\ \A c \in DOMAIN chapters : /\ stored.chapter[c].spineStart = chapters[c].spineStart
                                    /\ stored.chapter[c].spineEnd = chapters[c].spineEnd
  <2> HIDE DEF chapters
  <2> QED
    BY DEF PersistStructure, chapters
<1> HIDE DEF chapters, stored
<1>2. /\ IsList(chapters) /\ N \in Nat /\ DOMAIN chapters = 1..N
      /\ \A c \in 1..N : /\ IsList(chapters[c].paragraphs) /\ IsList(chapters[c].sections)
                         /\ NumberedFrom(chapters[c], sum[c - 1])
  <2>1. IsList(chapters) /\ N \in Nat /\ DOMAIN chapters = 1..N
    BY ListIs DEF WellNumbered, chapters
  <2> QED
    BY <2>1 DEF WellNumbered, NumberedFrom, chapters
<1>3. Counts(chapters) \in Seq(Nat) /\ Len(Counts(chapters)) = N
      /\ \A c \in 1..N : Counts(chapters)[c] = Len(chapters[c].paragraphs)
  BY <1>2, CountsAre
<1> HIDE DEF N
<1>4. /\ \A k \in 0..N : sum[k] \in Nat
      /\ \A k \in 1..N : sum[k] = sum[k - 1] + Counts(chapters)[k]
  <2>1. Counts(chapters) \in Seq(Int)
    BY <1>3
  <2> QED
    BY <1>3, <2>1, NaturalSums, SumsAre
<1>5. /\ IsList(prows) /\ DOMAIN prows = 1..N
      /\ \A c \in 1..N : /\ IsList(prows[c]) /\ DOMAIN prows[c] = DOMAIN chapters[c].paragraphs
                         /\ Len(prows[c]) = Len(chapters[c].paragraphs)
                         /\ \A i \in DOMAIN chapters[c].paragraphs :
                                prows[c][i] = rowOf(c, chapters[c].paragraphs[i])
  <2>1. prows = [c \in 1..N |-> prows[c]] /\ DOMAIN prows = 1..N
    BY <1>2
  <2>2. IsList(prows)
    BY <1>2, <2>1 DEF IsList
  <2>3. ASSUME NEW c \in 1..N
        PROVE  /\ IsList(prows[c]) /\ DOMAIN prows[c] = DOMAIN chapters[c].paragraphs
               /\ Len(prows[c]) = Len(chapters[c].paragraphs)
               /\ \A i \in DOMAIN chapters[c].paragraphs :
                      prows[c][i] = rowOf(c, chapters[c].paragraphs[i])
    <3> DEFINE old == chapters[c].paragraphs
               new == prows[c]
    <3>1. new = [i \in DOMAIN old |-> rowOf(c, old[i])]
      BY <1>2
    <3>2. IsList(old)
      BY <1>2
    <3> HIDE DEF old, new, rowOf, prows
    <3>3. new = [i \in DOMAIN old |-> new[i]] /\ DOMAIN new = DOMAIN old
          /\ \A i \in DOMAIN old : new[i] = rowOf(c, old[i])
      BY <3>1
    <3>4. IsList(new)
      BY <3>2, <3>3, MappedIsList
    <3>5. /\ Len(new) \in Nat /\ DOMAIN new = 1..Len(new)
          /\ Len(old) \in Nat /\ DOMAIN old = 1..Len(old)
      BY <3>2, <3>4, ListIs
    <3>6. Len(new) = Len(old)
      BY <3>3, <3>5, SameInterval
    <3> QED
      BY <3>3, <3>4, <3>6 DEF new, old
  <2> HIDE DEF prows, rowOf
  <2> QED
    BY <2>1, <2>2, <2>3
<1>6. /\ IsList(srows) /\ DOMAIN srows = 1..N
      /\ \A c \in 1..N : /\ IsList(srows[c]) /\ DOMAIN srows[c] = DOMAIN chapters[c].sections
                         /\ \A s \in DOMAIN chapters[c].sections : srows[c][s] = part(c, s)
  <2>1. srows = [c \in 1..N |-> srows[c]] /\ DOMAIN srows = 1..N
    BY <1>2
  <2>2. IsList(srows)
    BY <1>2, <2>1 DEF IsList
  <2>3. ASSUME NEW c \in 1..N
        PROVE  /\ IsList(srows[c]) /\ DOMAIN srows[c] = DOMAIN chapters[c].sections
               /\ \A s \in DOMAIN chapters[c].sections : srows[c][s] = part(c, s)
    <3> DEFINE old == chapters[c].sections
               new == srows[c]
    <3>1. new = [s \in DOMAIN old |-> part(c, s)]
      BY <1>2
    <3>2. IsList(old)
      BY <1>2
    <3> HIDE DEF old, new, part, srows
    <3>3. new = [s \in DOMAIN old |-> new[s]] /\ DOMAIN new = DOMAIN old
          /\ \A s \in DOMAIN old : new[s] = part(c, s)
      BY <3>1
    <3>4. IsList(new)
      BY <3>2, <3>3, MappedIsList
    <3> QED
      BY <3>3, <3>4 DEF new, old
  <2> HIDE DEF srows, part
  <2> QED
    BY <2>1, <2>2, <2>3
<1> HIDE DEF prows, srows, sum
<1>7. Len(prows) = N /\ Len(srows) = N
  <2>1. Len(prows) \in Nat /\ 1..N = 1..Len(prows) /\ Len(srows) \in Nat /\ 1..N = 1..Len(srows)
    BY <1>5, <1>6, ListIs
  <2> QED
    BY <1>2, <2>1, SameInterval
<1>8. Lengths(prows) = Counts(chapters)
  BY <1>5, <1>7 DEF Lengths, Counts, N
<1>9. /\ IsList(stored.paragraph)
      /\ \A c \in 1..N : \A i \in 1..Len(prows[c]) : stored.paragraph[sum[c - 1] + i] = prows[c][i]
      /\ \A j \in 1..Len(stored.paragraph) :
             \E c \in 1..N : \E i \in 1..Len(prows[c]) : j = sum[c - 1] + i
  <2>1. IsList(FlattenSeq(prows)) /\ PlacedUpTo(prows, N, FlattenSeq(prows))
    BY <1>5, <1>7, FlattenedIsList
  <2> QED
    BY <1>1, <1>8, <2>1 DEF PlacedUpTo, sum
<1>10. ASSUME NEW s \in ToSet(stored.section)
       PROVE  \E c \in 1..N : \E k \in DOMAIN chapters[c].sections : s = part(c, k)
  <2> DEFINE flat == FlattenSeq(srows)
             total == Sums(Lengths(srows))
  <2>1. IsList(flat) /\ PlacedUpTo(srows, N, flat)
    BY <1>6, <1>7, FlattenedIsList
  <2> HIDE DEF flat
  <2>2. DOMAIN flat = 1..Len(flat)
    BY <2>1, ListIs
  <2>3. PICK j \in 1..Len(flat) : s = flat[j]
    BY <1>1, <2>2 DEF ToSet, flat
  <2>4. PICK c \in 1..N : \E i \in 1..Len(srows[c]) : j = total[c - 1] + i
    BY <2>1 DEF PlacedUpTo
  <2>5. PICK i \in 1..Len(srows[c]) : j = total[c - 1] + i
    BY <2>4
  <2>6. flat[j] = srows[c][i]
    BY <2>1, <2>5 DEF PlacedUpTo
  <2>7. i \in DOMAIN srows[c]
    BY <1>6, ListIs
  <2>8. i \in DOMAIN chapters[c].sections /\ srows[c][i] = part(c, i)
    BY <1>6, <2>7
  <2> HIDE DEF part
  <2> QED
    BY <2>3, <2>6, <2>8
<1>11. ASSUME NEW j \in DOMAIN stored.paragraph
       PROVE  LET p == stored.paragraph[j]
                  chapter == stored.chapter[p.chapter]
              IN /\ p.spinePosition = j - 1 /\ j - 1 \in chapter.spineStart..chapter.spineEnd
                 /\ \A s \in ToSet(stored.section) :
                        (s.chapter = p.chapter /\ s.section = p.section)
                        => j - 1 \in s.spineStart..s.spineEnd
  <2>1. j \in 1..Len(stored.paragraph)
    BY <1>9, ListIs
  <2>2. PICK c \in 1..N : \E i \in 1..Len(prows[c]) : j = sum[c - 1] + i
    BY <1>9, <2>1
  <2>3. PICK i \in 1..Len(prows[c]) : j = sum[c - 1] + i
    BY <2>2
  <2> DEFINE old == chapters[c].paragraphs[i]
             p == stored.paragraph[j]
  <2>4. i \in DOMAIN chapters[c].paragraphs /\ p = rowOf(c, old)
    <3>1. i \in DOMAIN prows[c]
      BY <1>5, ListIs
    <3> HIDE DEF rowOf
    <3> QED
      BY <1>5, <1>9, <2>3, <3>1
  <2>5. p.chapter = c /\ p.section = old.section /\ p.spinePosition = old.spinePosition
    BY <2>4
  <2>6. /\ old.spinePosition = sum[c - 1] + i - 1
        /\ old.spinePosition \in chapters[c].spineStart..chapters[c].spineEnd
        /\ \A s \in DOMAIN chapters[c].sections : old.section = s =>
               old.spinePosition \in chapters[c].sections[s].spineStart..chapters[c].sections[s].spineEnd
    BY <1>2, <2>4 DEF NumberedFrom
  <2> HIDE DEF p, old
  <2>7. old.spinePosition = j - 1
    <3> DEFINE b == sum[c - 1]
    <3>1. c - 1 \in 0..N
      BY <1>2
    <3>2. b \in Nat /\ i \in Int
      BY <1>4, <3>1
    <3>3. j = b + i /\ old.spinePosition = b + i - 1
      BY <2>3, <2>6
    <3> HIDE DEF b
    <3> QED
      BY <3>2, <3>3
  <2>8. /\ stored.chapter[c].spineStart = chapters[c].spineStart
        /\ stored.chapter[c].spineEnd = chapters[c].spineEnd
    BY <1>1, <1>2
  <2>9. ASSUME NEW s \in ToSet(stored.section), s.chapter = c, s.section = old.section
        PROVE  j - 1 \in s.spineStart..s.spineEnd
    <3>1. PICK d \in 1..N : \E k \in DOMAIN chapters[d].sections : s = part(d, k)
      BY <1>10
    <3>2. PICK k \in DOMAIN chapters[d].sections : s = part(d, k)
      BY <3>1
    <3>3. /\ s.chapter = d /\ s.section = k /\ s.spineStart = chapters[d].sections[k].spineStart
          /\ s.spineEnd = chapters[d].sections[k].spineEnd
      BY <3>2
    <3>4. d = c /\ old.section = k
      BY <2>9, <3>3
    <3> QED
      BY <2>6, <2>7, <3>3, <3>4
  <2>10. p.spinePosition = j - 1 /\ p.chapter = c /\ p.section = old.section
         /\ j - 1 \in stored.chapter[c].spineStart..stored.chapter[c].spineEnd
    BY <2>5, <2>6, <2>7, <2>8
  <2> QED
    BY <2>9, <2>10 DEF p
<1>12. ASSUME result.status = "READY", NEW c \in DOMAIN stored.chapter, NEW d \in DOMAIN stored.chapter,
              c < d
       PROVE  stored.chapter[c].spineEnd < stored.chapter[d].spineStart
  <2>1. /\ c \in 1..N /\ d \in 1..N /\ c \in 0..N /\ c - 1 \in 0..N /\ d - 1 \in 0..N /\ c <= d - 1
    BY <1>1, <1>2, <1>12
  <2>2. /\ stored.chapter[c].spineEnd = chapters[c].spineEnd
        /\ stored.chapter[d].spineStart = chapters[d].spineStart
    BY <1>1, <1>2, <2>1
  <2>3. Len(chapters[c].paragraphs) # 0 /\ Len(chapters[d].paragraphs) # 0
    BY <1>2, <1>12, <2>1 DEF chapters
  <2>4. /\ chapters[c].spineEnd < sum[c - 1] + Len(chapters[c].paragraphs)
        /\ chapters[d].spineStart >= sum[d - 1]
    BY <1>2, <2>1, <2>3 DEF NumberedFrom
  <2>5. sum[c] = sum[c - 1] + Len(chapters[c].paragraphs) /\ sum[c] \in Nat /\ sum[d - 1] \in Nat
    BY <1>3, <1>4, <2>1
  <2>6. sum[c] <= sum[d - 1]
    <3> DEFINE e == d - 1
               l == Counts(chapters)
    <3>1. l \in Seq(Nat) /\ Len(l) = N /\ e \in 0..N /\ c <= e
      BY <1>3, <2>1
    <3> HIDE DEF e, l
    <3>2. Sums(l)[c] <= Sums(l)[e]
      BY <2>1, <3>1, SumsRise
    <3> QED
      BY <3>2 DEF e, l, sum
  <2>7. chapters[c].spineEnd \in Int /\ chapters[d].spineStart \in Int
    BY <1>2, <2>1, <2>3 DEF NumberedFrom
  <2> DEFINE x == chapters[c].spineEnd
             y == chapters[d].spineStart
             u == sum[c]
             v == sum[d - 1]
  <2>8. x < u /\ y >= v /\ u <= v /\ x \in Int /\ y \in Int /\ u \in Int /\ v \in Int
    BY <2>4, <2>5, <2>6, <2>7
  <2> HIDE DEF x, y, u, v
  <2>9. x < y
    BY <2>8
  <2> QED
    BY <2>2, <2>9 DEF x, y
<1>13. Numbered(result, stored)
  BY <1>11, <1>12, Zenon DEF Numbered
<1> QED
  BY <1>13 DEF stored

\* Chapters are lists of blocks.
LEMMA ChaptersAreLists ==
  ASSUME NEW blocks, IsList(blocks), NEW isEpub
  PROVE  LET raw == SplitIntoChapters(blocks, isEpub)
         IN IsList(raw) /\ \A c \in DOMAIN raw : IsList(raw[c].blocks)
<1> DEFINE starts(i) ==
               LET block == blocks[i] IN
               \/ i = 1
               \/ isEpub /\ block.spine # blocks[i - 1].spine
               \/ block.type = "HEADING" /\ ~isEpub /\ IsChapterHeading(Title(block))
               \/ block.type = "HEADING" /\ isEpub /\ block.level = 1
           D == {i \in DOMAIN blocks : starts(i)}
           runs == Cut(blocks, D)
           raw == SplitIntoChapters(blocks, isEpub)
<1>1. raw = [c \in DOMAIN runs |->
                IF runs[c][1].type = "HEADING"
                THEN [title |-> Title(runs[c][1]), blocks |-> Pick(runs[c], DOMAIN runs[c] \ {1})]
                ELSE [title |-> <<>>, blocks |-> runs[c]]]
  BY DEF SplitIntoChapters
<1>2. D \in SUBSET DOMAIN blocks
  OBVIOUS
<1> HIDE DEF D, raw
<1>3. IsList(runs) /\ \A c \in DOMAIN runs : IsList(runs[c])
  BY <1>2, CutIsLists
<1> HIDE DEF runs
<1>4. raw = [c \in DOMAIN runs |-> raw[c]] /\ DOMAIN raw = DOMAIN runs
  BY <1>1
<1>5. IsList(raw)
  BY <1>3, <1>4, MappedIsList
<1>6. ASSUME NEW c \in DOMAIN runs PROVE IsList(raw[c].blocks)
  <2> DEFINE run == runs[c]
             E == DOMAIN run \ {1}
  <2>1. raw[c].blocks = run \/ raw[c].blocks = Pick(run, E)
    BY <1>1
  <2>2. IsList(run) /\ E \in SUBSET DOMAIN run
    BY <1>3
  <2> HIDE DEF run, E
  <2>3. IsList(Pick(run, E))
    BY <2>2, PositionsAreFinite, PickedIsList
  <2> QED
    BY <2>1, <2>2, <2>3
<1> QED
  BY <1>4, <1>5, <1>6 DEF raw

\* Sections and paragraphs are lists.
LEMMA SectionsAreLists ==
  ASSUME NEW blocks, IsList(blocks)
  PROVE  LET split == SplitChapterIntoSections(blocks)
         IN IsList(split.paragraphs) /\ IsList(split.sections)
<1> DEFINE headings == {i \in DOMAIN blocks : blocks[i].type = "HEADING"}
           titles == Pick(blocks, headings)
           rows == [i \in DOMAIN blocks |->
                       [text |-> NormalizeText(blocks[i].lines), section |-> Upto(headings, i),
                        page |-> blocks[i].page]]
           D == {i \in DOMAIN blocks \ headings :
                    rows[i].text # <<>> /\ ~IsPageNumberLike(FlattenSeq(blocks[i].lines))}
           kept == Pick(rows, D)
           merges(i) == /\ kept[i].section = kept[i - 1].section
                        /\ EndsHyphenated(kept[i - 1].text) /\ StartsLowercase(kept[i].text)
           starts == {i \in DOMAIN kept : i = 1 \/ ~merges(i)}
           runs == Cut(kept, starts)
           split == SplitChapterIntoSections(blocks)
<1>1. /\ split.sections = [s \in DOMAIN titles |-> Title(titles[s])]
      /\ split.paragraphs = [n \in DOMAIN runs |->
            [text |-> NormalizeText([i \in DOMAIN runs[n] |-> runs[n][i].text]),
             section |-> runs[n][1].section,
             page |-> runs[n][1].page, pageEnd |-> Last(runs[n]).page]]
  BY DEF SplitChapterIntoSections
<1>2. headings \in SUBSET DOMAIN blocks /\ D \in SUBSET DOMAIN blocks
  OBVIOUS
<1> HIDE DEF split, headings, D, rows
<1>3. IsList(titles) /\ IsList(kept)
  BY <1>2, PositionsAreFinite, PickedIsList
<1>4. starts \in SUBSET DOMAIN kept
  OBVIOUS
<1> HIDE DEF starts, kept, titles
<1>5. IsList(runs)
  BY <1>3, <1>4, CutIsLists
<1> HIDE DEF runs
<1> DEFINE sections == split.sections
           paragraphs == split.paragraphs
<1>6. /\ sections = [s \in DOMAIN titles |-> sections[s]]
      /\ paragraphs = [n \in DOMAIN runs |-> paragraphs[n]]
  BY <1>1
<1> HIDE DEF sections, paragraphs
<1>7. IsList(sections) /\ IsList(paragraphs)
  BY <1>3, <1>5, <1>6, MappedIsList
<1> QED
  BY <1>7 DEF sections, paragraphs, split

\* What DetectStructure finds is well numbered.
LEMMA StructureIsNumbered ==
  ASSUME NEW document, IsList(document.blocks)
  PROVE  WellNumbered(DetectStructure(document))
<1> DEFINE blocks == document.blocks
           isEpub == document.sourceKind = "EPUB"
           raw == SplitIntoChapters(blocks, isEpub)
           split == [c \in DOMAIN raw |-> SplitChapterIntoSections(raw[c].blocks)]
<1>1. DetectStructure(document) = NumberChapters(raw, split)
  BY DEF DetectStructure, SplitChapters
<1>2. IsList(raw) /\ \A c \in DOMAIN raw : IsList(raw[c].blocks)
  BY ChaptersAreLists
<1> HIDE DEF raw
<1>3. ASSUME NEW c \in DOMAIN raw PROVE IsList(split[c].paragraphs) /\ IsList(split[c].sections)
  <2> DEFINE b == raw[c].blocks
  <2>1. IsList(b) /\ split[c] = SplitChapterIntoSections(b)
    BY <1>2
  <2> HIDE DEF b, split
  <2> QED
    BY <2>1, SectionsAreLists
<1>4. split = [c \in DOMAIN raw |-> split[c]]
  OBVIOUS
<1> HIDE DEF split
<1> QED
  BY <1>1, <1>2, <1>3, <1>4, ChaptersAreNumbered

\* A version with a chapter without paragraphs is not READY.
LEMMA ReadyHasParagraphs ==
  ASSUME NEW document, NEW chapters, Report(document, chapters).status = "READY",
         NEW c \in DOMAIN chapters
  PROVE  chapters[c].paragraphs # <<>>
<1> DEFINE loss == CheckContentLossRatio(SumBlockChars(document.blocks), CharCount(chapters))
           empty == CheckEmptyChapters(chapters)
           twice == CheckDuplicateParagraphs(chapters)
           cover == CheckPageCoverage(document.pages)
           checks == {loss, empty, twice, cover}
           V == {"PASS", "WARN", "NEEDS_REVIEW"}
           quality == BuildQualityReport(chapters, SumBlockChars(document.blocks),
                                         CharCount(chapters), document.pages)
<1>1. loss \in V
  BY DEF CheckContentLossRatio
<1>2. twice \in V
  BY DEF CheckDuplicateParagraphs
<1>3. cover \in V
  BY DEF CheckPageCoverage
<1>4. empty \in V
  BY DEF CheckEmptyChapters
<1>5. quality = CHOOSE worst \in checks : \A k \in checks : Rank[k] <= Rank[worst]
  BY DEF BuildQualityReport
<1>6. Report(document, chapters).status = DeriveBookVersionStatus(document.pages, quality)
  BY DEF Report, Assess
<1>7. quality # "NEEDS_REVIEW"
  BY <1>6 DEF DeriveBookVersionStatus
<1>8. Rank["PASS"] = 0 /\ Rank["WARN"] = 1 /\ Rank["NEEDS_REVIEW"] = 2
  BY DEF Rank
<1> HIDE DEF loss, empty, twice, cover, quality
<1>9. \E worst \in checks : \A k \in checks : Rank[k] <= Rank[worst]
  <2>1. CASE "NEEDS_REVIEW" \in checks
    BY <1>1, <1>2, <1>3, <1>4, <1>8, <2>1
  <2>2. CASE "NEEDS_REVIEW" \notin checks /\ "WARN" \in checks
    BY <1>1, <1>2, <1>3, <1>4, <1>8, <2>2
  <2>3. CASE "NEEDS_REVIEW" \notin checks /\ "WARN" \notin checks
    BY <1>1, <1>2, <1>3, <1>4, <1>8, <2>3
  <2> QED
    BY <2>1, <2>2, <2>3
<1>10. quality \in checks /\ \A k \in checks : Rank[k] <= Rank[quality]
  BY <1>5, <1>9
<1>11. empty # "NEEDS_REVIEW"
  BY <1>1, <1>2, <1>3, <1>4, <1>7, <1>8, <1>10
<1> QED
  BY <1>11 DEF empty, CheckEmptyChapters

\* The structure of a parsed document is stored as a numbering.
LEMMA FinishedIsNumbered ==
  ASSUME NEW document, document.error = "none" => IsList(document.blocks)
  PROVE  NumberedBy(Finish(document))
<1>1. CASE document.error # "none"
  BY <1>1 DEF Finish, NumberedBy
<1>2. CASE document.error = "none"
  <2> DEFINE chapters == DetectStructure(document)
             result == Report(document, chapters)
  <2>1. Finish(document) = result
    BY <1>2 DEF Finish
  <2>2. result.chapters = chapters
    BY DEF Report, Assess
  <2>3. WellNumbered(chapters)
    BY <1>2, StructureIsNumbered
  <2> HIDE DEF chapters
  <2>4. ASSUME result.status = "READY", NEW c \in DOMAIN chapters
        PROVE  Len(chapters[c].paragraphs) # 0
    <3> DEFINE p == chapters[c].paragraphs
    <3>1. p # <<>> /\ IsList(p)
      BY <2>3, <2>4, ReadyHasParagraphs DEF WellNumbered
    <3> HIDE DEF p
    <3>2. p \in Seq(ToSet(p))
      BY <3>1, ListIs
    <3>3. Len(p) # 0
      BY <3>1, <3>2
    <3> QED
      BY <3>3 DEF p
  <2> HIDE DEF result
  <2>5. Numbered(result, PersistStructure(result))
    BY <2>2, <2>3, <2>4, StoredIsNumbered
  <2> QED
    BY <2>1, <2>5 DEF NumberedBy
<1> QED
  BY <1>1, <1>2

\* A file whose parts are lists, whatever its kind.
FileShaped(file) ==
    /\ IsList(file.pages) /\ IsList(file.frames) /\ IsList(file.spine)
    /\ \A p \in DOMAIN file.pages :
           IsList(file.pages[p].items) /\ IsList(file.pages[p].scan.paragraphs)
    /\ \A n \in DOMAIN file.frames : IsList(file.frames[n].scan.paragraphs)
    /\ \A i \in DOMAIN file.spine : IsList(file.spine[i].events)

LEMMA EmptyIsList == IsList(<<>>)
<1>1. <<>> \in Seq({})
  OBVIOUS
<1> QED
  BY <1>1, SeqIsList

\* Items are grouped into a list of lines.
LEMMA LinesAreList ==
  ASSUME NEW items, IsList(items)
  PROVE  IsList(GroupItemsIntoLines(items))
<1> DEFINE starts == {i \in DOMAIN items : i = 1 \/ items[i - 1].eol}
           runs == Cut(items, starts)
           worded(run) == {i \in DOMAIN run : run[i].text # <<>>}
           D == {r \in DOMAIN runs : Last(runs[r]).eol \/ worded(runs[r]) # {}}
           kept == Pick(runs, D)
           line(run) == [text |-> FlattenSeq([i \in DOMAIN run |-> run[i].text]), y |-> run[1].y,
                         font |-> Highest({run[i].font : i \in worded(run)}, 0)]
           lines == GroupItemsIntoLines(items)
<1>1. lines = [n \in DOMAIN kept |-> line(kept[n])]
  BY DEF GroupItemsIntoLines
<1>2. starts \in SUBSET DOMAIN items /\ D \in SUBSET DOMAIN runs
  OBVIOUS
<1> HIDE DEF starts, D, lines
<1>3. IsList(runs)
  BY <1>2, CutIsLists
<1> HIDE DEF runs
<1>4. IsList(kept)
  BY <1>2, <1>3, PositionsAreFinite, PickedIsList
<1> HIDE DEF kept, line
<1>5. lines = [n \in DOMAIN kept |-> lines[n]]
  BY <1>1
<1>6. IsList(lines)
  BY <1>4, <1>5, MappedIsList
<1> QED
  BY <1>6 DEF lines

\* Without the noise they are a list still.
LEMMA StrippedAreLists ==
  ASSUME NEW linesByPage, \A p \in DOMAIN linesByPage : IsList(linesByPage[p])
  PROVE  LET stripped == StripHeaderFooterNoiseLines(linesByPage)
         IN \A p \in DOMAIN stripped : IsList(stripped[p])
<1>1. ASSUME NEW lines, IsList(lines), NEW noise PROVE IsList(WithoutNoise(lines, noise))
  <2> DEFINE keep(i) == /\ NormalizeForComparison(lines[i].text) \notin noise.removedTexts
                        /\ ~(noise.pageNumberPattern /\ IsPageNumberLike(lines[i].text)
                                /\ i \in {1, Len(lines)})
             D == {i \in DOMAIN lines : keep(i)}
  <2>1. WithoutNoise(lines, noise) = Pick(lines, D)
    BY DEF WithoutNoise
  <2>2. D \in SUBSET DOMAIN lines
    OBVIOUS
  <2> HIDE DEF D
  <2> QED
    BY <1>1, <2>1, <2>2, PositionsAreFinite, PickedIsList
<1> DEFINE stripped == StripHeaderFooterNoiseLines(linesByPage)
<1>2. \E noise : stripped = [p \in DOMAIN linesByPage |-> WithoutNoise(linesByPage[p], noise)]
  BY DEF StripHeaderFooterNoiseLines
<1> HIDE DEF stripped
<1>3. PICK noise : stripped = [p \in DOMAIN linesByPage |-> WithoutNoise(linesByPage[p], noise)]
  BY <1>2
<1>4. \A p \in DOMAIN stripped : IsList(stripped[p])
  BY <1>1, <1>3
<1> QED
  BY <1>4 DEF stripped

\* Lines are grouped into a list of paragraphs.
LEMMA ParagraphsAreList ==
  ASSUME NEW lines, IsList(lines), NEW bodyFont
  PROVE  IsList(GroupLinesIntoParagraphs(lines, bodyFont))
<1> DEFINE D == {i \in DOMAIN lines : lines[i].text # <<>>}
           nonEmpty == Pick(lines, D)
           typicalGap == MedianLineGap(nonEmpty)
           heading(line) == /\ 100 * line.font > 115 * bodyFont
                            /\ Len(line.text) < MaxKey
                            /\ Last(line.text).w \notin Commas
           broken(i) == /\ i > 1 /\ typicalGap > 0
                        /\ 10 * Distance(nonEmpty[i].y, nonEmpty[i - 1].y) > 16 * typicalGap
           starts == {i \in DOMAIN nonEmpty : \/ i = 1 \/ broken(i)
                                              \/ heading(nonEmpty[i]) \/ heading(nonEmpty[i - 1])}
           runs == Cut(nonEmpty, starts)
           result == GroupLinesIntoParagraphs(lines, bodyFont)
<1>1. result = [n \in DOMAIN runs |->
                   [heading |-> heading(runs[n][1]),
                    lines |-> [i \in DOMAIN runs[n] |-> runs[n][i].text]]]
  BY DEF GroupLinesIntoParagraphs, GroupNonEmpty
<1>2. D \in SUBSET DOMAIN lines /\ starts \in SUBSET DOMAIN nonEmpty
  OBVIOUS
<1> HIDE DEF D, starts, result
<1>3. IsList(nonEmpty)
  BY <1>2, PositionsAreFinite, PickedIsList
<1> HIDE DEF nonEmpty
<1>4. IsList(runs)
  BY <1>2, <1>3, CutIsLists
<1> HIDE DEF runs, heading
<1>5. result = [n \in DOMAIN runs |-> result[n]]
  BY <1>1
<1>6. IsList(result)
  BY <1>4, <1>5, MappedIsList
<1> QED
  BY <1>6 DEF result

\* What recognition gives is a list.
LEMMA RecognisedIsList ==
  ASSUME NEW scan, IsList(scan.paragraphs), NEW available
  PROVE  IsList(OcrPage(scan, available).paragraphs)
<1>1. OcrPage(scan, available).paragraphs \in {<<>>, scan.paragraphs}
  BY DEF OcrPage
<1> QED
  BY <1>1, EmptyIsList

\* A page gives a list of blocks.
LEMMA PageGivesBlocks ==
  ASSUME NEW page, IsList(page.scan.paragraphs), NEW number, NEW lines, IsList(lines), NEW bodyFont,
         NEW available
  PROVE  IsList(PageBlocks(page, number, lines, bodyFont, available))
<1> DEFINE paragraphs == GroupLinesIntoParagraphs(lines, bodyFont)
           read == OcrPage(page.scan, available).paragraphs
           text == [i \in DOMAIN paragraphs |->
                       IF paragraphs[i].heading
                       THEN Block("HEADING", paragraphs[i].lines, 1, 0, number)
                       ELSE Block("PARAGRAPH", paragraphs[i].lines, 0, 0, number)]
           scanned == [i \in DOMAIN read |-> Block("PARAGRAPH", <<read[i]>>, 0, 0, number)]
<1>1. PageBlocks(page, number, lines, bodyFont, available) \in {text, scanned, <<>>}
  BY DEF PageBlocks
<1>2. IsList(paragraphs) /\ IsList(read)
  BY ParagraphsAreList, RecognisedIsList
<1> HIDE DEF paragraphs, read
<1>3. text = [i \in DOMAIN paragraphs |-> text[i]] /\ scanned = [i \in DOMAIN read |-> scanned[i]]
  OBVIOUS
<1> HIDE DEF text, scanned
<1>4. IsList(text) /\ IsList(scanned)
  BY <1>2, <1>3, MappedIsList
<1> QED
  BY <1>1, <1>4, EmptyIsList

\* A PDF that is not refused gives a list of blocks.
LEMMA PdfGivesBlocks ==
  ASSUME NEW file, FileShaped(file), NEW available, PdfParse(file, available).error = "none"
  PROVE  IsList(PdfParse(file, available).blocks)
<1> DEFINE pages == file.pages
           withText == {n \in DOMAIN pages : HasText(pages[n])}
           grouped == [n \in withText |-> GroupItemsIntoLines(pages[n].items)]
           stripped == StripHeaderFooterNoiseLines(grouped)
           doc == PdfParse(file, available)
<1>1. doc.blocks = PdfBlocks(pages, stripped, available)
  <2>1. OpenError(file) # "none"
    BY DEF OpenError
  <2> HIDE DEF stripped
  <2> QED
    BY <2>1 DEF PdfParse, Refused, Document, stripped
<1> HIDE DEF doc
<1>2. \A p \in DOMAIN grouped : IsList(grouped[p])
  BY LinesAreList DEF FileShaped
<1> HIDE DEF grouped
<1>3. \A p \in DOMAIN stripped : IsList(stripped[p])
  BY <1>2, StrippedAreLists
<1>4. IsList(pages) /\ \A n \in DOMAIN pages : IsList(pages[n].scan.paragraphs)
  BY DEF FileShaped
<1> HIDE DEF stripped, pages
<1>5. \E bodyFont : PdfBlocks(pages, stripped, available) = FlattenSeq([n \in DOMAIN pages |->
           PageBlocks(pages[n], n, IF n \in DOMAIN stripped THEN stripped[n] ELSE <<>>,
                      bodyFont, available)])
  BY DEF PdfBlocks
<1>6. PICK bodyFont : PdfBlocks(pages, stripped, available) = FlattenSeq([n \in DOMAIN pages |->
           PageBlocks(pages[n], n, IF n \in DOMAIN stripped THEN stripped[n] ELSE <<>>,
                      bodyFont, available)])
  BY <1>5
<1> DEFINE seqs == [n \in DOMAIN pages |->
               PageBlocks(pages[n], n, IF n \in DOMAIN stripped THEN stripped[n] ELSE <<>>,
                          bodyFont, available)]
<1>7. ASSUME NEW n \in DOMAIN pages PROVE IsList(seqs[n])
  <2> DEFINE lines == IF n \in DOMAIN stripped THEN stripped[n] ELSE <<>>
  <2>1. IsList(lines)
    BY <1>3, EmptyIsList
  <2>2. seqs[n] = PageBlocks(pages[n], n, lines, bodyFont, available)
    OBVIOUS
  <2> HIDE DEF lines, seqs
  <2> QED
    BY <1>4, <2>1, <2>2, PageGivesBlocks
<1>8. seqs = [n \in DOMAIN pages |-> seqs[n]] /\ DOMAIN seqs = DOMAIN pages
  OBVIOUS
<1>9. PdfBlocks(pages, stripped, available) = FlattenSeq(seqs)
  BY <1>6
<1> HIDE DEF seqs
<1>10. IsList(seqs)
  BY <1>4, <1>8, MappedIsList
<1>11. IsList(FlattenSeq(seqs))
  BY <1>7, <1>8, <1>10, FlattenedIsList
<1> QED
  BY <1>1, <1>9, <1>11 DEF doc

\* A document of an EPUB gives a list of blocks.
LEMMA XhtmlGivesBlocks ==
  ASSUME NEW events, IsList(events), NEW spineIndex
  PROVE  IsList(ExtractBlocksFromXhtml(events, spineIndex))
<1> DEFINE hidden == {"script", "style"}
           level(tag) == IF tag = "h1" THEN 1 ELSE IF tag = "h2" THEN 2 ELSE 0
           closes(was, event) == /\ event.type = "close" /\ event.tag \notin hidden
                                 /\ was.skip = 0 /\ was.tag = event.tag
           next(was, event, n) ==
               CASE event.type = "open" /\ event.tag \in hidden -> [was EXCEPT !.skip = @ + 1]
                 [] event.type = "open" /\ event.tag \in BlockTags /\ was.skip = 0 ->
                        [was EXCEPT !.tag = event.tag, !.opened = n]
                 [] event.type = "close" /\ event.tag \in hidden ->
                        [was EXCEPT !.skip = IF @ > 0 THEN @ - 1 ELSE 0]
                 [] closes(was, event) -> [was EXCEPT !.tag = "none"]
                 [] OTHER -> was
           after == CHOOSE f : f = [n \in 0..Len(events) |->
                        IF n = 0 THEN [tag |-> "none", opened |-> 0, skip |-> 0]
                        ELSE next(f[n - 1], events[n], n)]
           words(n) == Pick(events, {m \in after[n].opened..n :
                                        events[m].type = "text" /\ after[m].skip = 0})
           text(n) == FlattenSeq([i \in DOMAIN words(n) |-> words(n)[i].text])
           closed == {n \in DOMAIN events : closes(after[n - 1], events[n]) /\ text(n) # <<>>}
           found == Pick([n \in DOMAIN events |-> n], closed)
           block(k) == Block(BlockType(events[found[k]].tag), <<text(found[k])>>,
                             level(events[found[k]].tag), spineIndex, 0)
           blocks == ExtractBlocksFromXhtml(events, spineIndex)
<1>1. blocks = [k \in DOMAIN found |-> block(k)]
  BY DEF ExtractBlocksFromXhtml
<1>2. closed \in SUBSET DOMAIN events
  OBVIOUS
<1> HIDE DEF closed, block, blocks
<1>3. IsList(found)
  BY <1>2, PositionsAreFinite, PickedIsList
<1> HIDE DEF found
<1>4. blocks = [k \in DOMAIN found |-> blocks[k]]
  BY <1>1
<1>5. IsList(blocks)
  BY <1>3, <1>4, MappedIsList
<1> QED
  BY <1>5 DEF blocks

\* An EPUB that is not refused gives a list of blocks.
LEMMA EpubGivesBlocks ==
  ASSUME NEW file, FileShaped(file), EpubParse(file).error = "none"
  PROVE  IsList(EpubParse(file).blocks)
<1> DEFINE spine == file.spine
           seqs == [i \in DOMAIN spine |->
                      IF spine[i].listed THEN ExtractBlocksFromXhtml(spine[i].events, i) ELSE <<>>]
           error(item) == CASE ~item.listed -> "none"
                            [] item.listed /\ ~item.inside -> ResolveManifestPath(item)
                            [] OTHER -> ReadEntry(item.entry)
           early == <<IF file.opens = "ok" THEN "none" ELSE "CORRUPTED_FILE", ListEntries(file.entries),
                      ParseContainerXml(file), ParseOpf(file),
                      IF spine = <<>> THEN "CORRUPTED_FILE" ELSE "none">>
           later == [i \in DOMAIN spine |-> error(spine[i])]
           errors == early \o later
           found == {i \in DOMAIN errors : errors[i] # "none"}
           doc == EpubParse(file)
<1>1. doc = IF found # {} THEN Refused(errors[Lowest(found, 0)])
            ELSE Document("EPUB", <<>>, FlattenSeq(seqs))
  BY DEF EpubParse
<1>2. IsList(spine) /\ \A i \in DOMAIN spine : IsList(spine[i].events)
  BY DEF FileShaped
<1> HIDE DEF spine, error
<1>3. IsList(errors)
  <2>1. later = [i \in DOMAIN spine |-> later[i]]
    OBVIOUS
  <2>2. DOMAIN early = 1..5 /\ early = [i \in 1..5 |-> early[i]] /\ 5 \in Nat
    OBVIOUS
  <2> HIDE DEF early, later
  <2>3. IsList(later) /\ IsList(early)
    BY <1>2, <2>1, <2>2, MappedIsList DEF IsList
  <2> DEFINE T == ToSet(early) \cup ToSet(later)
  <2>4. later \in Seq(ToSet(later)) /\ early \in Seq(ToSet(early))
    BY <2>3, ListIs
  <2>5. ToSet(later) \subseteq T /\ ToSet(early) \subseteq T
    OBVIOUS
  <2> HIDE DEF T
  <2>6. later \in Seq(T) /\ early \in Seq(T)
    BY <2>4, <2>5
  <2>7. errors \in Seq(T)
    BY <2>6
  <2> QED
    BY <2>7, SeqIsList
<1> HIDE DEF errors, doc
<1>4. found # {} => errors[Lowest(found, 0)] # "none"
  <2>1. found \in SUBSET Nat
    BY <1>3, ListIs
  <2>2. ASSUME found # {} PROVE Lowest(found, 0) \in found
    <3> HIDE DEF found
    <3>1. \E m \in found : \A k \in found : m <= k
      BY <2>1, <2>2, SmallestNumber
    <3> QED
      BY <2>2, <3>1 DEF Lowest
  <2> QED
    BY <2>2
<1> HIDE DEF found
<1>5. doc.blocks = FlattenSeq(seqs)
  BY <1>1, <1>4 DEF Refused, Document, doc
<1>6. seqs = [i \in DOMAIN spine |-> seqs[i]] /\ DOMAIN seqs = DOMAIN spine
  OBVIOUS
<1>7. ASSUME NEW i \in DOMAIN spine PROVE IsList(seqs[i])
  <2>1. seqs[i] \in {ExtractBlocksFromXhtml(spine[i].events, i), <<>>}
    OBVIOUS
  <2> HIDE DEF seqs
  <2> QED
    BY <1>2, <2>1, XhtmlGivesBlocks, EmptyIsList
<1> HIDE DEF seqs
<1>8. IsList(seqs)
  BY <1>2, <1>6, MappedIsList
<1>9. IsList(FlattenSeq(seqs))
  BY <1>6, <1>7, <1>8, FlattenedIsList
<1> QED
  BY <1>5, <1>9 DEF doc

\* An image set that is not refused gives a list of blocks.
LEMMA ImagesGiveBlocks ==
  ASSUME NEW file, FileShaped(file), NEW available, ImageParse(file, available).error = "none"
  PROVE  IsList(ImageParse(file, available).blocks)
<1> DEFINE frames == file.frames
           read == [n \in DOMAIN frames |-> OcrFrame(frames[n], available)]
           seqs == [n \in DOMAIN frames |->
                      [i \in DOMAIN read[n].paragraphs |->
                          Block("PARAGRAPH", <<read[n].paragraphs[i]>>, 0, 0, 0)]]
           doc == ImageParse(file, available)
<1>1. doc.blocks = FlattenSeq(seqs)
  <2> HIDE DEF seqs
  <2> QED
    BY DEF ImageParse, Refused, Document, seqs
<1> HIDE DEF doc
<1>2. IsList(frames) /\ \A n \in DOMAIN frames : IsList(frames[n].scan.paragraphs)
  BY DEF FileShaped
<1> HIDE DEF frames
<1>3. ASSUME NEW n \in DOMAIN frames PROVE IsList(read[n].paragraphs)
  <2>1. read[n] = OcrFrame(frames[n], available)
    OBVIOUS
  <2>2. read[n].paragraphs \in {<<>>, OcrPage(frames[n].scan, available).paragraphs}
    BY <2>1 DEF OcrFrame
  <2> HIDE DEF read
  <2> QED
    BY <1>2, <2>2, RecognisedIsList, EmptyIsList
<1> HIDE DEF read
<1>4. seqs = [n \in DOMAIN frames |-> seqs[n]] /\ DOMAIN seqs = DOMAIN frames
  OBVIOUS
<1>5. ASSUME NEW n \in DOMAIN frames PROVE IsList(seqs[n])
  <2> DEFINE old == read[n].paragraphs
             new == seqs[n]
  <2>1. new = [i \in DOMAIN old |-> Block("PARAGRAPH", <<old[i]>>, 0, 0, 0)]
    OBVIOUS
  <2> HIDE DEF new
  <2>2. new = [i \in DOMAIN old |-> new[i]]
    BY <2>1
  <2>3. IsList(new)
    BY <1>3, <2>2, MappedIsList
  <2> QED
    BY <2>3 DEF new
<1> HIDE DEF seqs
<1>6. IsList(seqs)
  BY <1>2, <1>4, MappedIsList
<1>7. IsList(FlattenSeq(seqs))
  BY <1>4, <1>5, <1>6, FlattenedIsList
<1> QED
  BY <1>1, <1>7 DEF doc

\* The pipeline numbers the spine of every file.
LEMMA PipelineNumbers ==
  ASSUME NEW file, FileShaped(file), NEW available
  PROVE  NumberedBy(RunIngestionPipeline(file, available))
<1> DEFINE doc == Parse(file, available)
           format == DetectFormat(file)
<1>1. CASE ~file.small
  BY <1>1 DEF RunIngestionPipeline, NumberedBy, Refused
<1>2. CASE file.small
  <2>1. RunIngestionPipeline(file, available) = Finish(doc)
    BY <1>2 DEF RunIngestionPipeline
  <2>2. ASSUME doc.error = "none" PROVE IsList(doc.blocks)
    <3>1. format # "none"
      BY DEF DetectFormat
    <3> HIDE DEF format
    <3>2. \/ doc = PdfParse(file, available) \/ doc = EpubParse(file)
          \/ doc = ImageParse(file, available) \/ doc = Refused(format)
      BY DEF Parse, format
    <3> HIDE DEF doc
    <3> QED
      BY <2>2, <3>1, <3>2, PdfGivesBlocks, EpubGivesBlocks, ImagesGiveBlocks DEF Refused
  <2> HIDE DEF doc
  <2>3. NumberedBy(Finish(doc))
    BY <2>2, FinishedIsNumbered
  <2> QED
    BY <2>1, <2>3
<1> QED
  BY <1>1, <1>2

-----------------------------------------------------------------------------
(* The order of what is picked *)

\* The positions of a list, counted in order.
LEMMA PositionsInOrder ==
  ASSUME NEW m \in Nat, NEW D \in SUBSET (1..m)
  PROVE  LET n == Cardinality(D)
         IN /\ n \in Nat /\ \A i \in 1..m : Upto(D, i) \in 0..n
            /\ \A i, j \in 1..m : i <= j => Upto(D, i) <= Upto(D, j)
            /\ \A j \in D : Upto(D, j) >= 1 /\ \A i \in 1..m : i < j => Upto(D, i) < Upto(D, j)
            /\ \A k \in 1..n : Nth(D, k) \in D /\ Upto(D, Nth(D, k)) = k
            /\ \A i \in D : Nth(D, Upto(D, i)) = i
<1> DEFINE n == Cardinality(D)
           B(i) == {j \in D : j <= i}
<1>1. IsFiniteSet(D) /\ n \in Nat
  <2>1. IsFiniteSet(1..m)
    BY FS_Interval
  <2>2. IsFiniteSet(D)
    BY <2>1, FS_Subset
  <2> QED
    BY <2>2, FS_CardinalityType
<1>0. \A j \in D : j \in Int /\ 0 < j
  OBVIOUS
<1>2. ASSUME NEW i \in Int PROVE IsFiniteSet(B(i)) /\ Upto(D, i) = Cardinality(B(i)) /\ Upto(D, i) \in 0..n
  <2>1. B(i) \in SUBSET D
    OBVIOUS
  <2>2. Upto(D, i) = Cardinality(B(i))
    BY DEF Upto
  <2> HIDE DEF B
  <2>3. IsFiniteSet(B(i)) /\ Cardinality(B(i)) \in Nat /\ Cardinality(B(i)) <= n
    BY <1>1, <2>1, FS_Subset, FS_CardinalityType
  <2> QED
    BY <1>1, <2>2, <2>3
<1>3. ASSUME NEW i \in Int, NEW j \in Int, i <= j PROVE Upto(D, i) <= Upto(D, j)
  <2>0. \A x \in D : x <= i => x <= j
    BY <1>0, <1>3
  <2>1. B(i) \in SUBSET B(j)
    BY <2>0
  <2> HIDE DEF B
  <2> QED
    BY <1>2, <2>1, FS_Subset
<1>4. ASSUME NEW j \in D, NEW i \in Int, i < j PROVE Upto(D, i) < Upto(D, j)
  <2>1. B(i) \in SUBSET B(j) /\ j \in B(j) /\ j \notin B(i) /\ j \in Int
    <3>1. \A x \in D : x <= i => x <= j
      BY <1>0, <1>4
    <3>2. j <= j /\ ~(j <= i) /\ j \in Int
      BY <1>0, <1>4
    <3> QED
      BY <3>1, <3>2
  <2> HIDE DEF B
  <2>2. Cardinality(B(i)) <= Cardinality(B(j)) /\ Cardinality(B(i)) # Cardinality(B(j))
    BY <1>2, <2>1, FS_Subset
  <2> QED
    BY <1>2, <2>1, <2>2
<1>5. ASSUME NEW j \in D PROVE Upto(D, j) \in 1..n
  <2>1. j \in Int /\ 0 \in Int /\ 0 < j
    BY <1>0
  <2> DEFINE a == Upto(D, 0)
             b == Upto(D, j)
  <2>2. a \in 0..n /\ b \in 0..n /\ a < b
    BY <1>2, <1>4, <2>1
  <2> HIDE DEF a, b, n
  <2>3. b \in 1..n
    BY <1>1, <2>2
  <2> QED
    BY <2>3 DEF b
<1> DEFINE f == [i \in D |-> Upto(D, i)]
<1>6. f \in [D -> 1..n] /\ \A i \in D : f[i] = Upto(D, i)
  BY <1>5
<1> HIDE DEF f
<1>7. f \in Injection(D, 1..n)
  <2>1. ASSUME NEW i \in D, NEW j \in D, f[i] = f[j] PROVE i = j
    <3>1. i \in Int /\ j \in Int /\ f[i] \in Int /\ f[j] \in Int
      BY <1>1, <1>6
    <3>2. ~(i < j) /\ ~(j < i)
      BY <1>4, <1>6, <2>1, <3>1
    <3> QED
      BY <3>1, <3>2
  <2> QED
    BY <1>6, <2>1 DEF Injection, IsInjective
<1>8. f \in Surjection(D, 1..n)
  <2>1. IsFiniteSet(1..n) /\ Cardinality(1..n) = n
    BY <1>1, FS_Interval
  <2> QED
    BY <1>7, <2>1, FS_Injection
<1>9. ASSUME NEW k \in 1..n PROVE Nth(D, k) \in D /\ Upto(D, Nth(D, k)) = k
  <2>1. \E i \in D : Upto(D, i) = k
    BY <1>6, <1>8 DEF Surjection
  <2> QED
    BY <2>1 DEF Nth
<1>10. ASSUME NEW i \in D PROVE Nth(D, Upto(D, i)) = i
  <2>1. Upto(D, i) \in 1..n
    BY <1>5
  <2>2. Nth(D, Upto(D, i)) \in D /\ Upto(D, Nth(D, Upto(D, i))) = Upto(D, i)
    BY <1>9, <2>1
  <2> QED
    BY <1>6, <1>7, <2>2 DEF Injection, IsInjective
<1>11. ASSUME NEW i \in 1..m PROVE Upto(D, i) \in 0..n
  <2>1. i \in Int
    OBVIOUS
  <2> QED
    BY <1>2, <2>1
<1> HIDE DEF n
<1>12. \A i, j \in 1..m : i <= j => Upto(D, i) <= Upto(D, j)
  BY <1>3
<1>13. \A j \in D : Upto(D, j) >= 1 /\ \A i \in 1..m : i < j => Upto(D, i) < Upto(D, j)
  BY <1>1, <1>4, <1>5
<1> QED
  BY <1>1, <1>9, <1>10, <1>11, <1>12, <1>13 DEF n

\* Where a list is picked from, and where a run of it was cut.
Picked(s, D, p) ==
    /\ IsList(p)
    /\ \A k \in DOMAIN p : Nth(D, k) \in D /\ p[k] = s[Nth(D, k)]
    /\ \A k, l \in DOMAIN p : k < l => Nth(D, k) < Nth(D, l)
    /\ \A i \in D : \E k \in DOMAIN p : Nth(D, k) = i

LEMMA PickIs ==
  ASSUME NEW s, IsList(s), NEW D \in SUBSET DOMAIN s
  PROVE  Picked(s, D, Pick(s, D))
<1> DEFINE p == Pick(s, D)
           n == Cardinality(D)
           m == Len(s)
<1>1. m \in Nat /\ DOMAIN s = 1..m
  BY ListIs
<1> HIDE DEF m
<1>2. /\ n \in Nat /\ \A i \in 1..m : Upto(D, i) \in 0..n
      /\ \A j \in D : Upto(D, j) >= 1
      /\ \A i, j \in 1..m : i <= j => Upto(D, i) <= Upto(D, j)
      /\ \A k \in 1..n : Nth(D, k) \in D /\ Upto(D, Nth(D, k)) = k
      /\ \A i \in D : Nth(D, Upto(D, i)) = i
  BY <1>1, PositionsInOrder
<1>3. DOMAIN p = 1..n /\ \A k \in 1..n : p[k] = s[Nth(D, k)]
  BY DEF Pick
<1>4. IsList(p)
  BY PositionsAreFinite, PickedIsList
<1> HIDE DEF n, p
<1>5. ASSUME NEW k \in 1..n, NEW l \in 1..n, k < l PROVE Nth(D, k) < Nth(D, l)
  <2> DEFINE i == Nth(D, k)
             j == Nth(D, l)
  <2>1. i \in 1..m /\ j \in 1..m /\ Upto(D, i) = k /\ Upto(D, j) = l
    BY <1>1, <1>2
  <2> HIDE DEF i, j
  <2>2. ~(j <= i)
    BY <1>2, <1>5, <2>1
  <2>3. i < j
    BY <1>1, <2>1, <2>2
  <2> QED
    BY <2>3 DEF i, j
<1>6. ASSUME NEW i \in D PROVE \E k \in 1..n : Nth(D, k) = i
  <2>1. Upto(D, i) \in 1..n
    BY <1>1, <1>2
  <2> QED
    BY <1>2, <2>1
<1>7. Picked(s, D, p)
  BY <1>2, <1>3, <1>4, <1>5, <1>6 DEF Picked
<1> QED
  BY <1>7 DEF p

Run(s, starts, g) == {i \in DOMAIN s : Upto(starts, i) = g}

CutWell(s, starts, c) ==
    /\ IsList(c)
    /\ \A g \in DOMAIN c : /\ Picked(s, Run(s, starts, g), c[g])
                           /\ \E k \in DOMAIN c[g] : TRUE
    /\ \A g, h \in DOMAIN c : \A i \in Run(s, starts, g), j \in Run(s, starts, h) :
           g < h => i < j
    /\ \A i \in DOMAIN s : \E g \in DOMAIN c : i \in Run(s, starts, g)

LEMMA CutIs ==
  ASSUME NEW s, IsList(s), NEW starts \in SUBSET DOMAIN s, DOMAIN s # {} => 1 \in starts
  PROVE  CutWell(s, starts, Cut(s, starts))
<1> DEFINE c == Cut(s, starts)
           n == Cardinality(starts)
           m == Len(s)
<1>1. m \in Nat /\ DOMAIN s = 1..m
  BY ListIs
<1> HIDE DEF m
<1>2. /\ n \in Nat /\ \A i \in 1..m : Upto(starts, i) \in 0..n
      /\ \A j \in starts : Upto(starts, j) >= 1
      /\ \A i, j \in 1..m : i <= j => Upto(starts, i) <= Upto(starts, j)
      /\ \A k \in 1..n : Nth(starts, k) \in starts /\ Upto(starts, Nth(starts, k)) = k
  BY <1>1, PositionsInOrder
<1>3. DOMAIN c = 1..n /\ \A g \in 1..n : c[g] = Pick(s, Run(s, starts, g))
  BY DEF Cut, Run
<1>4. IsList(c)
  BY CutIsLists
<1> HIDE DEF n, c
<1>5. ASSUME NEW g \in 1..n
      PROVE  Picked(s, Run(s, starts, g), c[g]) /\ \E k \in DOMAIN c[g] : TRUE
  <2>1. Run(s, starts, g) \in SUBSET DOMAIN s
    BY DEF Run
  <2>2. Picked(s, Run(s, starts, g), c[g])
    BY <1>3, <2>1, PickIs
  <2>3. Nth(starts, g) \in Run(s, starts, g)
    BY <1>1, <1>2 DEF Run
  <2> QED
    BY <2>2, <2>3 DEF Picked
<1>6. ASSUME NEW g \in 1..n, NEW h \in 1..n, NEW i \in Run(s, starts, g), NEW j \in Run(s, starts, h), g < h
      PROVE  i < j
  <2>1. i \in 1..m /\ j \in 1..m /\ Upto(starts, i) = g /\ Upto(starts, j) = h
    BY <1>1 DEF Run
  <2>2. ~(j <= i)
    BY <1>2, <1>6, <2>1
  <2> QED
    BY <1>1, <2>1, <2>2
<1>7. ASSUME NEW i \in DOMAIN s PROVE \E g \in 1..n : i \in Run(s, starts, g)
  <2>1. i \in 1..m /\ 1 \in 1..m /\ 1 <= i /\ 1 \in starts
    BY <1>1
  <2>2. Upto(starts, i) \in 1..n
    <3> DEFINE a == Upto(starts, 1)
               b == Upto(starts, i)
    <3>1. a >= 1 /\ a \in 0..n /\ b \in 0..n /\ a <= b
      BY <1>2, <2>1
    <3> HIDE DEF a, b
    <3>2. b \in 1..n
      BY <1>2, <3>1
    <3> QED
      BY <3>2 DEF b
  <2> QED
    BY <2>2 DEF Run
<1>8. CutWell(s, starts, c)
  BY <1>3, <1>4, <1>5, <1>6, <1>7 DEF CutWell
<1> QED
  BY <1>8 DEF c

\* What increases in each part and from part to part increases when flattened.
LEMMA FlatteningIncreases ==
  ASSUME NEW seqs \in Seq(Seq(Int)),
         \A g \in DOMAIN seqs : \A i, j \in DOMAIN seqs[g] : i < j => seqs[g][i] < seqs[g][j],
         \A g, h \in DOMAIN seqs : \A i \in DOMAIN seqs[g], j \in DOMAIN seqs[h] :
             g < h => seqs[g][i] < seqs[h][j]
  PROVE  /\ FlattenSeq(seqs) \in Seq(Int) /\ Increasing(FlattenSeq(seqs))
         /\ ToSet(FlattenSeq(seqs)) = UNION {ToSet(seqs[g]) : g \in DOMAIN seqs}
<1> DEFINE f == FlattenSeq(seqs)
           N == Len(seqs)
           l == Lengths(seqs)
           sum == Sums(l)
<1>1. f \in Seq(Int) /\ PlacedUpTo(seqs, N, f)
  BY FlatteningPlaces
<1>2. N \in Nat /\ DOMAIN seqs = 1..N /\ \A g \in 1..N : seqs[g] \in Seq(Int) /\ Len(seqs[g]) \in Nat
                                         /\ DOMAIN seqs[g] = 1..Len(seqs[g])
  OBVIOUS
<1> HIDE DEF f
<1>3. /\ Len(f) = sum[N]
      /\ \A c \in 1..N : \A i \in 1..Len(seqs[c]) : f[sum[c - 1] + i] = seqs[c][i]
      /\ \A j \in 1..Len(f) : \E c \in 1..N : \E i \in 1..Len(seqs[c]) : j = sum[c - 1] + i
  BY <1>1 DEF PlacedUpTo
<1> HIDE DEF N
<1>4. l \in Seq(Nat) /\ Len(l) = N /\ \A c \in 1..N : l[c] = Len(seqs[c])
  <2>1. l = [c \in 1..N |-> Len(seqs[c])]
    BY DEF Lengths, N
  <2> HIDE DEF l
  <2> QED
    BY <1>2, <2>1
<1> HIDE DEF l
<1>5. sum \in [0..N -> Int] /\ sum[0] = 0 /\ \A k \in 1..N : sum[k] = sum[k - 1] + Len(seqs[k])
  <2>1. l \in Seq(Int)
    BY <1>4
  <2> QED
    BY <1>4, <2>1, SumsAre
<1>6. \A a, b \in 0..N : a <= b => sum[a] <= sum[b]
  BY <1>4, SumsRise
<1> HIDE DEF sum
<1>7. ASSUME NEW k \in 2..Len(f) PROVE f[k - 1] < f[k]
  <2>1. k \in 1..Len(f) /\ k - 1 \in 1..Len(f) /\ k \in Int
    BY <1>1
  <2>2. PICK c \in 1..N : \E i \in 1..Len(seqs[c]) : k - 1 = sum[c - 1] + i
    BY <1>3, <2>1
  <2>3. PICK i \in 1..Len(seqs[c]) : k - 1 = sum[c - 1] + i
    BY <2>2
  <2>4. PICK d \in 1..N : \E j \in 1..Len(seqs[d]) : k = sum[d - 1] + j
    BY <1>3, <2>1
  <2>5. PICK j \in 1..Len(seqs[d]) : k = sum[d - 1] + j
    BY <2>4
  <2>6. f[k - 1] = seqs[c][i] /\ f[k] = seqs[d][j]
    BY <1>3, <2>3, <2>5
  <2>7. c \in Nat /\ d \in Nat /\ sum[c - 1] \in Int /\ sum[d - 1] \in Int /\ sum[d] \in Int /\ i \in Nat /\ j \in Nat
        /\ sum[d] = sum[d - 1] + Len(seqs[d]) /\ Len(seqs[d]) \in Nat /\ j <= Len(seqs[d]) /\ i >= 1
    BY <1>2, <1>5
  <2>8. ~(d < c)
    <3>1. SUFFICES ASSUME d < c PROVE FALSE
      OBVIOUS
    <3>2. d \in 0..N /\ c - 1 \in 0..N /\ d <= c - 1
      BY <1>2, <2>7, <3>1
    <3>3. sum[d] <= sum[c - 1]
      BY <1>6, <3>2
    <3> DEFINE a == sum[d]
               b == sum[c - 1]
               e == sum[d - 1]
               w == Len(seqs[d])
    <3>4. a <= b /\ a = e + w /\ k - 1 = b + i /\ k = e + j /\ j <= w /\ i >= 1
          /\ a \in Int /\ b \in Int /\ e \in Int /\ w \in Nat /\ i \in Nat /\ j \in Nat /\ k \in Int
      BY <2>1, <2>3, <2>5, <2>7, <3>3
    <3> HIDE DEF a, b, e, w
    <3> QED
      BY <3>4
  <2>9. CASE c = d
    <3> DEFINE b == sum[c - 1]
    <3>0. k - 1 = b + i /\ k = b + j /\ b \in Int /\ i \in Nat /\ j \in Nat /\ k \in Int
      BY <2>1, <2>3, <2>5, <2>7, <2>9
    <3> HIDE DEF b
    <3>1. i < j
      BY <3>0
    <3> QED
      BY <1>2, <2>6, <2>9, <3>1
  <2>10. CASE c < d
    BY <1>2, <2>6, <2>10
  <2> QED
    BY <2>7, <2>8, <2>9, <2>10
<1>8. ToSet(f) = UNION {ToSet(seqs[g]) : g \in DOMAIN seqs}
  <2>0. DOMAIN f = 1..Len(f) /\ Len(f) \in Nat
    BY <1>1
  <2>1. ASSUME NEW x \in ToSet(f) PROVE \E g \in 1..N : x \in ToSet(seqs[g])
    <3>1. PICK k \in 1..Len(f) : x = f[k]
      BY <2>0 DEF ToSet
    <3>2. PICK c \in 1..N : \E i \in 1..Len(seqs[c]) : k = sum[c - 1] + i
      BY <1>3
    <3>3. PICK i \in 1..Len(seqs[c]) : k = sum[c - 1] + i
      BY <3>2
    <3> QED
      BY <1>2, <1>3, <3>1, <3>3 DEF ToSet
  <2>2. ASSUME NEW g \in 1..N, NEW x \in ToSet(seqs[g]) PROVE x \in ToSet(f)
    <3>1. PICK i \in 1..Len(seqs[g]) : x = seqs[g][i]
      BY <1>2 DEF ToSet
    <3>2. x = f[sum[g - 1] + i]
      BY <1>3, <3>1
    <3>3. sum[g - 1] + i \in 1..Len(f)
      <4>1. g - 1 \in 0..N /\ g \in 0..N /\ N \in 0..N /\ g <= N /\ 0 \in 0..N /\ 0 <= g - 1 /\ i \in Nat
            /\ sum[g] = sum[g - 1] + Len(seqs[g]) /\ i <= Len(seqs[g]) /\ i >= 1 /\ Len(seqs[g]) \in Nat
        BY <1>2, <1>5
      <4>2. sum[g] <= sum[N] /\ sum[0] <= sum[g - 1]
        BY <1>6, <4>1
      <4>3. sum[g - 1] \in Int /\ sum[N] \in Int
        BY <1>5, <4>1
      <4> DEFINE a == sum[g - 1]
                 b == sum[g]
                 e == sum[N]
                 w == Len(seqs[g])
      <4>4. /\ a \in Int /\ e \in Int /\ w \in Nat /\ i \in Nat /\ i <= w /\ i >= 1
            /\ b = a + w /\ b <= e /\ 0 <= a /\ Len(f) = e
        BY <1>3, <1>5, <4>1, <4>2, <4>3
      <4> HIDE DEF a, b, e, w
      <4>5. a + i \in 1..Len(f)
        BY <4>4
      <4> QED
        BY <4>5 DEF a
    <3> QED
      BY <2>0, <3>2, <3>3 DEF ToSet
  <2> QED
    BY <1>2, <2>1, <2>2
<1> QED
  BY <1>1, <1>7, <1>8 DEF Increasing, f

-----------------------------------------------------------------------------
(* The evidence of a book *)

\* Paragraphs with rising ids.
IdsRise(paragraphs) ==
    /\ IsList(paragraphs)
    /\ \A i \in DOMAIN paragraphs : paragraphs[i].id \in Int
    /\ \A i, j \in DOMAIN paragraphs : i < j => paragraphs[i].id < paragraphs[j].id

\* Groups that hold some paragraphs in order.
GroupedInOrder(groups, some) ==
    /\ IsList(groups)
    /\ \A g \in DOMAIN groups : IdsRise(groups[g])
    /\ \A g, h \in DOMAIN groups : \A i \in DOMAIN groups[g], j \in DOMAIN groups[h] :
           g < h => groups[g][i].id < groups[h][j].id
    /\ \A g \in DOMAIN groups : \A i \in DOMAIN groups[g] : groups[g][i] \in some
    /\ \A p \in some : \E g \in DOMAIN groups : \E i \in DOMAIN groups[g] : groups[g][i] = p

\* The paragraphs that are shown in a scene.
Shown(paragraphs) ==
    LET prose == {p \in ToSet(paragraphs) : ~p.break}
    IN IF prose = {} THEN ToSet(paragraphs) ELSE prose

\* What is picked has rising ids, and so has what a run of it holds.
LEMMA PickedRise ==
  ASSUME NEW s, IdsRise(s), NEW D \in SUBSET DOMAIN s, NEW p, Picked(s, D, p)
  PROVE  IdsRise(p)
<1>1. \A k \in DOMAIN p : p[k].id \in Int
  BY DEF IdsRise, Picked
<1>2. \A k, l \in DOMAIN p : k < l => p[k].id < p[l].id
  BY DEF IdsRise, Picked
<1> QED
  BY <1>1, <1>2 DEF IdsRise, Picked

\* The groups of a chapter's scenes.
LEMMA GroupsAreInOrder ==
  ASSUME NEW paragraphs, IdsRise(paragraphs)
  PROVE  GroupedInOrder(SceneGroups(paragraphs), Shown(paragraphs))
<1> DEFINE prose == {i \in DOMAIN paragraphs : ~paragraphs[i].break}
           starts == {k \in 1..Cardinality(prose) : k = 1 \/ paragraphs[Nth(prose, k) - 1].break}
           p == Pick(paragraphs, prose)
           c == Cut(p, starts)
<1>1. IsList(paragraphs) /\ DOMAIN paragraphs = 1..Len(paragraphs) /\ Len(paragraphs) \in Nat
  BY ListIs DEF IdsRise
<1>2. prose \in SUBSET DOMAIN paragraphs
  OBVIOUS
<1>3. SceneGroups(paragraphs) = IF prose = {} /\ paragraphs # <<>> THEN <<paragraphs>> ELSE c
  BY DEF SceneGroups
<1>4. Shown(paragraphs) = IF prose = {} THEN ToSet(paragraphs) ELSE {paragraphs[i] : i \in prose}
  <2>1. {q \in ToSet(paragraphs) : ~q.break} = {paragraphs[i] : i \in prose}
    BY DEF ToSet
  <2>2. ({paragraphs[i] : i \in prose} = {}) <=> (prose = {})
    OBVIOUS
  <2> QED
    BY <2>1, <2>2 DEF Shown
<1>5. starts \in SUBSET (1..Cardinality(prose)) /\ DOMAIN p = 1..Cardinality(prose)
      /\ (DOMAIN p # {} => 1 \in starts)
  <2>1. Cardinality(prose) \in Nat
    BY <1>1, <1>2, PositionsAreFinite, FS_CardinalityType
  <2>2. DOMAIN p = 1..Cardinality(prose)
    BY DEF Pick
  <2> HIDE DEF p, prose
  <2> QED
    BY <2>1, <2>2
<1> HIDE DEF prose, starts
<1>6. Picked(paragraphs, prose, p)
  BY <1>1, <1>2, PickIs
<1>7. IdsRise(p)
  BY <1>2, <1>6, PickedRise
<1> HIDE DEF p
<1>8. CutWell(p, starts, c)
  BY <1>5, <1>7, CutIs DEF IdsRise
<1> HIDE DEF c
<1>9. ASSUME NEW g \in DOMAIN c
      PROVE  /\ Picked(p, Run(p, starts, g), c[g]) /\ Run(p, starts, g) \in SUBSET DOMAIN p
             /\ IdsRise(c[g])
  <2>1. Picked(p, Run(p, starts, g), c[g])
    BY <1>8 DEF CutWell
  <2>2. Run(p, starts, g) \in SUBSET DOMAIN p
    BY DEF Run
  <2>3. IdsRise(c[g])
    BY <1>7, <2>1, <2>2, PickedRise
  <2> QED
    BY <2>1, <2>2, <2>3
<1>10. ASSUME NEW g \in DOMAIN c, NEW h \in DOMAIN c, NEW i \in DOMAIN c[g], NEW j \in DOMAIN c[h], g < h
       PROVE  c[g][i].id < c[h][j].id
  <2> DEFINE a == Nth(Run(p, starts, g), i)
             b == Nth(Run(p, starts, h), j)
  <2>1. a \in Run(p, starts, g) /\ b \in Run(p, starts, h) /\ c[g][i] = p[a] /\ c[h][j] = p[b]
    BY <1>9 DEF Picked
  <2> HIDE DEF a, b
  <2>2. a < b /\ a \in DOMAIN p /\ b \in DOMAIN p
    BY <1>8, <1>9, <1>10, <2>1 DEF CutWell
  <2> QED
    BY <1>7, <2>1, <2>2 DEF IdsRise
<1>11. ASSUME prose # {} \/ paragraphs = <<>>
       PROVE  GroupedInOrder(c, {paragraphs[i] : i \in prose})
  <2>1. ASSUME NEW g \in DOMAIN c, NEW i \in DOMAIN c[g] PROVE \E k \in prose : c[g][i] = paragraphs[k]
    <3>1. PICK a \in DOMAIN p : c[g][i] = p[a]
      BY <1>9 DEF Picked
    <3> QED
      BY <1>6, <3>1 DEF Picked
  <2>2. ASSUME NEW k \in prose
        PROVE  \E g \in DOMAIN c : \E i \in DOMAIN c[g] : c[g][i] = paragraphs[k]
    <3>1. PICK a \in DOMAIN p : p[a] = paragraphs[k]
      BY <1>6 DEF Picked
    <3>2. PICK g \in DOMAIN c : a \in Run(p, starts, g)
      BY <1>8 DEF CutWell
    <3>3. PICK i \in DOMAIN c[g] : c[g][i] = p[a]
      BY <1>9, <3>2 DEF Picked
    <3> QED
      BY <3>1, <3>3
  <2>3. IsList(c)
    BY <1>8 DEF CutWell
  <2> QED
    BY <1>9, <1>10, <2>1, <2>2, <2>3 DEF GroupedInOrder
<1>12. GroupedInOrder(<<paragraphs>>, ToSet(paragraphs))
  <2> DEFINE one == <<paragraphs>>
  <2>1. DOMAIN one = {1} /\ one[1] = paragraphs /\ one = [i \in 1..1 |-> one[i]] /\ 1 \in Nat
    OBVIOUS
  <2> HIDE DEF one
  <2>2. IsList(one)
    BY <2>1 DEF IsList
  <2>3. GroupedInOrder(one, ToSet(paragraphs))
    BY <2>1, <2>2 DEF GroupedInOrder, ToSet
  <2> QED
    BY <2>3 DEF one
<1>13. ASSUME paragraphs = <<>> PROVE ToSet(paragraphs) = {paragraphs[i] : i \in prose}
  BY <1>2, <1>13 DEF ToSet
<1> QED
  BY <1>3, <1>4, <1>11, <1>12, <1>13

\* The scenes of a chapter hold its paragraphs in order.
LEMMA ScenesAreKept ==
  ASSUME NEW paragraphs, IdsRise(paragraphs), NEW candidates, NEW ids
  PROVE  ScenesKept(StoreScenes(DetectScenes(paragraphs, candidates), ids), paragraphs)
<1> DEFINE groups == SceneGroups(paragraphs)
           scenes == StoreScenes(DetectScenes(paragraphs, candidates), ids)
           parts == [i \in DOMAIN scenes |-> scenes[i].paragraphs]
           some == Shown(paragraphs)
<1>1. GroupedInOrder(groups, some)
  BY GroupsAreInOrder
<1>2. DOMAIN scenes = DOMAIN groups
      /\ \A g \in DOMAIN groups : scenes[g].paragraphs = [i \in DOMAIN groups[g] |-> groups[g][i].id]
  BY DEF StoreScenes, StoreScene, DetectScenes, DetectScene
<1> HIDE DEF groups, scenes
<1>3. parts = [g \in DOMAIN groups |-> [i \in DOMAIN groups[g] |-> groups[g][i].id]]
  BY <1>2
<1> HIDE DEF parts
<1>4. \A g \in DOMAIN groups : DOMAIN parts[g] = DOMAIN groups[g]
                               /\ \A i \in DOMAIN groups[g] : parts[g][i] = groups[g][i].id
  BY <1>3
<1>5. DOMAIN parts = DOMAIN groups
  BY <1>3
<1>6. parts \in Seq(Seq(Int))
  <2>1. ASSUME NEW g \in DOMAIN groups PROVE parts[g] \in Seq(Int)
    <3>1. IsList(groups[g]) /\ \A i \in DOMAIN groups[g] : groups[g][i].id \in Int
      BY <1>1 DEF GroupedInOrder, IdsRise
    <3>2. Len(groups[g]) \in Nat /\ DOMAIN groups[g] = 1..Len(groups[g])
      BY <3>1, ListIs
    <3>3. parts[g] = [i \in 1..Len(groups[g]) |-> groups[g][i].id]
      BY <1>3, <3>2
    <3> QED
      BY <3>1, <3>2, <3>3
  <2>2. Len(groups) \in Nat /\ DOMAIN groups = 1..Len(groups)
    BY <1>1, ListIs DEF GroupedInOrder
  <2>3. parts = [g \in 1..Len(groups) |-> parts[g]]
    BY <1>3, <2>2
  <2> QED
    BY <2>1, <2>2, <2>3
<1>7. /\ \A g \in DOMAIN parts : \A i, j \in DOMAIN parts[g] : i < j => parts[g][i] < parts[g][j]
      /\ \A g, h \in DOMAIN parts : \A i \in DOMAIN parts[g], j \in DOMAIN parts[h] :
             g < h => parts[g][i] < parts[h][j]
  BY <1>1, <1>4, <1>5 DEF GroupedInOrder, IdsRise
<1>8. /\ Increasing(FlattenSeq(parts))
      /\ ToSet(FlattenSeq(parts)) = UNION {ToSet(parts[g]) : g \in DOMAIN parts}
  BY <1>6, <1>7, FlatteningIncreases
<1>9. UNION {ToSet(parts[g]) : g \in DOMAIN parts} = {p.id : p \in some}
  <2>1. ASSUME NEW g \in DOMAIN parts, NEW x \in ToSet(parts[g]) PROVE x \in {p.id : p \in some}
    <3>1. PICK i \in DOMAIN groups[g] : x = groups[g][i].id
      BY <1>4, <1>5 DEF ToSet
    <3> QED
      BY <1>1, <1>5, <3>1 DEF GroupedInOrder
  <2>2. ASSUME NEW p \in some PROVE \E g \in DOMAIN parts : p.id \in ToSet(parts[g])
    <3>0. PICK g \in DOMAIN groups : \E i \in DOMAIN groups[g] : groups[g][i] = p
      BY <1>1 DEF GroupedInOrder
    <3>1. PICK i \in DOMAIN groups[g] : groups[g][i] = p
      BY <3>0
    <3> QED
      BY <1>4, <1>5, <3>1 DEF ToSet
  <2> HIDE DEF some
  <2> QED
    BY <2>1, <2>2
<1>10. ScenesKept(scenes, paragraphs)
  BY <1>8, <1>9 DEF ScenesKept, Shown, parts
<1> QED
  BY <1>10 DEF scenes

\* What claims, and rows of the story bible, look like.
IsClaim(c) == c = [source |-> c.source, target |-> c.target, type |-> c.type,
                   evidence |-> c.evidence, confidence |-> c.confidence]
IsRelation(r) == r = [source |-> r.source, target |-> r.target, type |-> r.type,
                      evidence |-> r.evidence, confidence |-> r.confidence, from |-> r.from]

\* A claim of some paragraphs is one that one of them makes.
ClaimOf(c, paragraphs) ==
    /\ IsClaim(c) /\ c.confidence \in Int
    /\ \E p \in ToSet(paragraphs) : c.evidence = {p.id} /\ c.type \in ToSet(p.claims)

ClaimsOf(claims, paragraphs) ==
    IsList(claims) /\ \A n \in DOMAIN claims : ClaimOf(claims[n], paragraphs)

LEMMA ClaimsAreMade ==
  ASSUME NEW paragraphs, IsList(paragraphs), \A i \in DOMAIN paragraphs : IsList(paragraphs[i].claims),
         NEW candidates
  PROVE  ClaimsOf(DetectRelationships(paragraphs, candidates), paragraphs)
<1> DEFINE present(p) == SelectSeq(candidates, LAMBDA c : p.id \in c.evidence)
           claim(p, type) ==
               [source |-> present(p)[1].key, target |-> present(p)[2].key, type |-> type,
                evidence |-> {p.id}, confidence |-> 55]
           same(c, d) == c.source = d.source /\ c.target = d.target /\ c.type = d.type
           parts == [i \in DOMAIN paragraphs |->
                       IF Len(present(paragraphs[i])) < 2 THEN <<>>
                       ELSE [k \in DOMAIN paragraphs[i].claims |->
                                claim(paragraphs[i], paragraphs[i].claims[k])]]
           made == FlattenSeq(parts)
           again(n) == \E m \in 1..(n - 1) : same(made[m], made[n])
           D == {n \in DOMAIN made : ~again(n)}
           none == <<>>
<1>1. DetectRelationships(paragraphs, candidates) = IF Len(candidates) < 2 THEN none ELSE Pick(made, D)
  BY DEF DetectRelationships
<1>2. IsList(none) /\ DOMAIN none = {}
  <2>1. none = [i \in 1..0 |-> none[i]] /\ 0 \in Nat /\ DOMAIN none = {}
    OBVIOUS
  <2> HIDE DEF none
  <2> QED
    BY <2>1 DEF IsList
<1> HIDE DEF none
<1>3. ASSUME NEW i \in DOMAIN paragraphs
      PROVE  IsList(parts[i]) /\ \A k \in DOMAIN parts[i] : ClaimOf(parts[i][k], paragraphs)
  <2> DEFINE p == paragraphs[i]
             list == [k \in DOMAIN p.claims |-> claim(p, p.claims[k])]
  <2>1. parts[i] = list \/ parts[i] = none
    BY DEF none
  <2> HIDE DEF parts
  <2>2. p \in ToSet(paragraphs)
    BY DEF ToSet
  <2>3. ASSUME NEW k \in DOMAIN list PROVE ClaimOf(list[k], paragraphs)
    <3> DEFINE a == present(p)[1].key
               b == present(p)[2].key
               t == p.claims[k]
    <3>1. list[k] = [source |-> a, target |-> b, type |-> t, evidence |-> {p.id}, confidence |-> 55]
      OBVIOUS
    <3>2. t \in ToSet(p.claims)
      BY DEF ToSet
    <3> HIDE DEF a, b, t, list, p
    <3> QED
      BY <2>2, <3>1, <3>2 DEF ClaimOf, IsClaim
  <2>4. IsList(list)
    <3>1. list = [k \in DOMAIN p.claims |-> list[k]] /\ IsList(p.claims)
      OBVIOUS
    <3> HIDE DEF list, p
    <3> QED
      BY <3>1, MappedIsList
  <2> HIDE DEF list
  <2> QED
    BY <1>2, <2>1, <2>3, <2>4
<1>4. parts = [i \in DOMAIN paragraphs |-> parts[i]] /\ DOMAIN parts = DOMAIN paragraphs
  OBVIOUS
<1> HIDE DEF parts
<1>5. IsList(parts) /\ \A i \in DOMAIN parts : IsList(parts[i])
  BY <1>3, <1>4, MappedIsList
<1>6. IsList(made) /\ PlacedUpTo(parts, Len(parts), made)
  BY <1>5, FlattenedIsList
<1>7. ASSUME NEW n \in DOMAIN made PROVE ClaimOf(made[n], paragraphs)
  <2>1. n \in 1..Len(made)
    BY <1>6, ListIs
  <2>2. PICK c \in 1..Len(parts) : \E i \in 1..Len(parts[c]) : n = Sums(Lengths(parts))[c - 1] + i
    BY <1>6, <2>1 DEF PlacedUpTo
  <2>3. PICK i \in 1..Len(parts[c]) : n = Sums(Lengths(parts))[c - 1] + i
    BY <2>2
  <2>4. made[n] = parts[c][i]
    BY <1>6, <2>3 DEF PlacedUpTo
  <2>5. c \in DOMAIN parts /\ i \in DOMAIN parts[c]
    BY <1>5, ListIs
  <2> QED
    BY <1>3, <1>4, <2>4, <2>5
<1>8. D \in SUBSET DOMAIN made
  OBVIOUS
<1> HIDE DEF made, D
<1>9. Picked(made, D, Pick(made, D))
  BY <1>6, <1>8, PickIs
<1>10. ClaimsOf(Pick(made, D), paragraphs)
  <2> DEFINE p == Pick(made, D)
  <2>1. Picked(made, D, p)
    BY <1>9
  <2> HIDE DEF p
  <2>2. \A k \in DOMAIN p : ClaimOf(p[k], paragraphs)
    BY <1>7, <1>8, <2>1 DEF Picked
  <2>3. ClaimsOf(p, paragraphs)
    BY <2>1, <2>2 DEF ClaimsOf, Picked
  <2> QED
    BY <2>3 DEF p
<1>11. ClaimsOf(none, paragraphs)
  BY <1>2 DEF ClaimsOf
<1> QED
  BY <1>1, <1>10, <1>11

\* Staging gives a claim the ids of its characters.
LEMMA ClaimsAreStaged ==
  ASSUME NEW paragraphs, NEW claims, ClaimsOf(claims, paragraphs), NEW ids
  PROVE  ClaimsOf(StageClaims(claims, ids), paragraphs)
<1> DEFINE staged == StageClaims(claims, ids)
<1>1. staged = [i \in DOMAIN claims |-> staged[i]] /\ DOMAIN staged = DOMAIN claims
      /\ \A i \in DOMAIN claims : staged[i] = [claims[i] EXCEPT !.source = ids[@], !.target = ids[@]]
  BY DEF StageClaims
<1> HIDE DEF staged
<1>2. ASSUME NEW i \in DOMAIN claims PROVE ClaimOf(staged[i], paragraphs)
  <2> DEFINE c == claims[i]
             a == ids[c.source]
             b == ids[c.target]
  <2>1. ClaimOf(c, paragraphs)
    BY DEF ClaimsOf
  <2>2. staged[i] = [c EXCEPT !.source = ids[@], !.target = ids[@]]
    BY <1>1
  <2> HIDE DEF c
  <2>3. c = [source |-> c.source, target |-> c.target, type |-> c.type,
             evidence |-> c.evidence, confidence |-> c.confidence]
    BY <2>1 DEF ClaimOf, IsClaim
  <2>4. staged[i] = [source |-> a, target |-> b, type |-> c.type,
                     evidence |-> c.evidence, confidence |-> c.confidence]
    BY <2>2, <2>3
  <2> HIDE DEF a, b
  <2> QED
    BY <2>1, <2>4 DEF ClaimOf, IsClaim
<1>3. IsList(staged)
  BY <1>1, MappedIsList DEF ClaimsOf
<1> QED
  BY <1>1, <1>2, <1>3 DEF ClaimsOf, staged

-----------------------------------------------------------------------------
(* Integrating claims *)

\* What the chapters up to n support of a set of rows.
Supported(rows, chapters, n) ==
    \A r \in rows :
        /\ IsRelation(r) /\ r.confidence \in Int /\ r.from \in 1..n
        /\ \A e \in r.evidence : \E c \in 1..n : \E p \in ToSet(chapters[c]) :
               p.id = e /\ r.type \in ToSet(p.claims) /\ r.from <= c

OneRowPerPair(rows) == \A r, s \in rows : SamePair(r, s) /\ r.type = s.type => r = s

\* Every row is found again, with all its evidence and no more confidence than allowed.
Extends(rows, more) ==
    \A r \in rows : \E s \in more :
        /\ SamePair(r, s) /\ r.type = s.type /\ r.evidence \subseteq s.evidence
        /\ r.confidence <= Ceiling => s.confidence <= Ceiling

LEMMA KeptWhenExtended ==
  ASSUME NEW rows, NEW more, Extends(rows, more), NEW claim, NEW contradicted,
         ClaimKept(rows, claim, contradicted)
  PROVE  ClaimKept(more, claim, contradicted)
<1>1. PICK r \in rows : /\ SamePair(r, claim) /\ r.type = claim.type /\ claim.evidence \subseteq r.evidence
                        /\ contradicted => r.confidence <= Ceiling
  BY DEF ClaimKept
<1>2. PICK s \in more : /\ SamePair(r, s) /\ r.type = s.type /\ r.evidence \subseteq s.evidence
                        /\ r.confidence <= Ceiling => s.confidence <= Ceiling
  BY DEF Extends
<1>3. SamePair(s, claim) /\ s.type = claim.type /\ claim.evidence \subseteq s.evidence
  BY <1>1, <1>2 DEF SamePair
<1> QED
  BY <1>1, <1>2, <1>3 DEF ClaimKept

LEMMA ExtendsOnce ==
  ASSUME NEW a, NEW b, NEW c, Extends(a, b), Extends(b, c)
  PROVE  Extends(a, c)
<1> SUFFICES ASSUME NEW r \in a
             PROVE  \E s \in c : /\ SamePair(r, s) /\ r.type = s.type /\ r.evidence \subseteq s.evidence
                                 /\ r.confidence <= Ceiling => s.confidence <= Ceiling
  BY DEF Extends
<1>1. PICK q \in b : /\ SamePair(r, q) /\ r.type = q.type /\ r.evidence \subseteq q.evidence
                     /\ r.confidence <= Ceiling => q.confidence <= Ceiling
  BY DEF Extends
<1>2. PICK s \in c : /\ SamePair(q, s) /\ q.type = s.type /\ q.evidence \subseteq s.evidence
                     /\ q.confidence <= Ceiling => s.confidence <= Ceiling
  BY DEF Extends
<1>3. SamePair(r, s) /\ r.type = s.type /\ r.evidence \subseteq s.evidence
  BY <1>1, <1>2 DEF SamePair
<1> QED
  BY <1>1, <1>2, <1>3

\* One claim of chapter n is integrated.
LEMMA ClaimIsIntegrated ==
  ASSUME NEW chapters, NEW n \in Nat \ {0}, NEW rows, Supported(rows, chapters, n), OneRowPerPair(rows),
         NEW claim, ClaimOf(claim, chapters[n]), NEW contradiction \in BOOLEAN
  PROVE  LET more == IntegrateRelationship(rows, claim, contradiction, n)
         IN /\ Supported(more, chapters, n) /\ OneRowPerPair(more) /\ Extends(rows, more)
            /\ ClaimKept(more, claim, contradiction)
<1> DEFINE more == IntegrateRelationship(rows, claim, contradiction, n)
           same == {r \in rows : SamePair(r, claim) /\ r.type = claim.type}
           confidence == IF contradiction /\ claim.confidence > Ceiling THEN Ceiling ELSE claim.confidence
           met == CHOOSE r \in same : TRUE
           evidence == met.evidence \cup claim.evidence
           rising == IF contradiction THEN confidence ELSE met.confidence
           new == [source |-> claim.source, target |-> claim.target, type |-> claim.type,
                   evidence |-> claim.evidence, confidence |-> confidence, from |-> n]
           changed == [source |-> met.source, target |-> met.target, type |-> met.type,
                       evidence |-> evidence, confidence |-> rising, from |-> met.from]
<1>1. same = {r \in FindExistingRelationships(rows, claim.source, claim.target) : r.type = claim.type}
  BY DEF FindExistingRelationships, SamePair
<1>2. confidence \in Int /\ (contradiction => confidence <= Ceiling)
  BY DEF ClaimOf, Ceiling
<1>3. PICK p \in ToSet(chapters[n]) : claim.evidence = {p.id} /\ claim.type \in ToSet(p.claims)
  BY DEF ClaimOf
<1>4. ASSUME same # {} PROVE met \in rows /\ SamePair(met, claim) /\ met.type = claim.type
  BY <1>4
<1>5. CASE same = {}
  <2>1. more = rows \cup {new}
    BY <1>1, <1>5 DEF IntegrateRelationship, CreateRelationship
  <2> HIDE DEF more, confidence
  <2>2. SamePair(new, claim) /\ new.type = claim.type
    BY DEF SamePair
  <2>3. ASSUME NEW r \in rows PROVE ~(SamePair(r, new) /\ r.type = new.type)
    BY <1>5 DEF SamePair
  <2>4. IsRelation(new) /\ new.confidence \in Int /\ new.from = n /\ new.evidence = {p.id}
        /\ new.confidence = confidence
    BY <1>2, <1>3 DEF IsRelation
  <2> HIDE DEF new, same
  <2>5. Supported(more, chapters, n)
    <3>1. \A r \in rows : IsRelation(r) /\ r.confidence \in Int /\ r.from \in 1..n
                          /\ \A e \in r.evidence : \E c \in 1..n : \E q \in ToSet(chapters[c]) :
                                 q.id = e /\ r.type \in ToSet(q.claims) /\ r.from <= c
      BY DEF Supported
    <3>2. n \in 1..n /\ n <= n
      OBVIOUS
    <3>3. \A e \in new.evidence : \E c \in 1..n : \E q \in ToSet(chapters[c]) :
              q.id = e /\ new.type \in ToSet(q.claims) /\ new.from <= c
      BY <1>3, <2>2, <2>4, <3>2
    <3> QED
      BY <2>1, <2>4, <3>1, <3>2, <3>3 DEF Supported
  <2>6. OneRowPerPair(more)
    <3>1. \A r, s \in rows : SamePair(r, s) /\ r.type = s.type => r = s
      BY DEF OneRowPerPair
    <3>2. \A r \in rows : ~(SamePair(new, r) /\ new.type = r.type)
      BY <2>3 DEF SamePair
    <3> QED
      BY <2>1, <2>3, <3>1, <3>2 DEF OneRowPerPair
  <2>7. Extends(rows, more)
    BY <2>1 DEF Extends, SamePair
  <2>8. ClaimKept(more, claim, contradiction)
    BY <1>2, <1>3, <2>1, <2>2, <2>4 DEF ClaimKept
  <2> QED
    BY <2>5, <2>6, <2>7, <2>8 DEF more
<1>6. CASE same # {}
  <2>1. /\ met \in rows /\ SamePair(met, claim) /\ met.type = claim.type
        /\ IsRelation(met) /\ met.confidence \in Int /\ met.from \in 1..n
        /\ \A e \in met.evidence : \E c \in 1..n : \E q \in ToSet(chapters[c]) :
               q.id = e /\ met.type \in ToSet(q.claims) /\ met.from <= c
    BY <1>4, <1>6 DEF Supported
  <2>2. more = (rows \ {met}) \cup {changed}
    <3>1. more = (rows \ {met}) \cup {IF contradiction
              THEN [[met EXCEPT !.evidence = @ \cup claim.evidence] EXCEPT !.confidence = confidence]
              ELSE [met EXCEPT !.evidence = @ \cup claim.evidence]}
      BY <1>1, <1>6 DEF IntegrateRelationship, ExtendRelationshipEvidence, LowerRelationshipConfidence
    <3>2. met = [source |-> met.source, target |-> met.target, type |-> met.type,
                 evidence |-> met.evidence, confidence |-> met.confidence, from |-> met.from]
      BY <2>1 DEF IsRelation
    <3> HIDE DEF more, confidence, met
    <3> DEFINE extended == [source |-> met.source, target |-> met.target, type |-> met.type,
                            evidence |-> evidence, confidence |-> met.confidence, from |-> met.from]
    <3> HIDE DEF evidence
    <3>3. [met EXCEPT !.evidence = evidence] = extended
      BY <3>2
    <3>4. [extended EXCEPT !.confidence = confidence] =
              [source |-> met.source, target |-> met.target, type |-> met.type,
               evidence |-> evidence, confidence |-> confidence, from |-> met.from]
      OBVIOUS
    <3>5. [met EXCEPT !.evidence = @ \cup claim.evidence] = [met EXCEPT !.evidence = evidence]
      BY DEF evidence
    <3>6. changed = IF contradiction THEN [extended EXCEPT !.confidence = confidence] ELSE extended
      BY <3>4
    <3> HIDE DEF changed, extended
    <3> QED
      BY <3>1, <3>3, <3>5, <3>6
  <2> HIDE DEF more, confidence, met, same
  <2>3. rising \in Int /\ (contradiction => rising <= Ceiling) /\ (met.confidence <= Ceiling => rising <= Ceiling)
    BY <1>2, <2>1
  <2> HIDE DEF rising
  <2>4. /\ IsRelation(changed) /\ changed.confidence = rising /\ changed.from = met.from
        /\ changed.type = met.type /\ changed.evidence = met.evidence \cup claim.evidence
        /\ changed.source = met.source /\ changed.target = met.target
    BY DEF IsRelation
  <2> HIDE DEF changed
  <2>5. \A r : SamePair(r, changed) <=> SamePair(r, met)
    BY <2>4 DEF SamePair
  <2>6. Supported(more, chapters, n)
    <3>1. \A r \in rows : IsRelation(r) /\ r.confidence \in Int /\ r.from \in 1..n
                          /\ \A e \in r.evidence : \E c \in 1..n : \E q \in ToSet(chapters[c]) :
                                 q.id = e /\ r.type \in ToSet(q.claims) /\ r.from <= c
      BY DEF Supported
    <3>2. n \in 1..n /\ met.from <= n
      BY <2>1
    <3>3. \A e \in changed.evidence : \E c \in 1..n : \E q \in ToSet(chapters[c]) :
              q.id = e /\ changed.type \in ToSet(q.claims) /\ changed.from <= c
      BY <1>3, <2>1, <2>4, <3>2
    <3>4. IsRelation(changed) /\ changed.confidence \in Int /\ changed.from \in 1..n
      BY <2>1, <2>3, <2>4
    <3> QED
      BY <2>2, <3>1, <3>3, <3>4 DEF Supported
  <2>7. OneRowPerPair(more)
    <3>1. \A r, s \in rows : SamePair(r, s) /\ r.type = s.type => r = s
      BY DEF OneRowPerPair
    <3>2. \A r \in rows \ {met} : ~(SamePair(r, changed) /\ r.type = changed.type)
      BY <2>1, <2>4, <2>5, <3>1
    <3>3. \A r, s : SamePair(r, s) => SamePair(s, r)
      BY DEF SamePair
    <3> QED
      BY <2>2, <3>1, <3>2, <3>3 DEF OneRowPerPair
  <2>8. Extends(rows, more)
    <3>1. ASSUME NEW r \in rows
          PROVE  \E s \in more : /\ SamePair(r, s) /\ r.type = s.type /\ r.evidence \subseteq s.evidence
                                 /\ r.confidence <= Ceiling => s.confidence <= Ceiling
      <4>1. CASE r = met
        BY <2>2, <2>3, <2>4, <4>1 DEF SamePair
      <4>2. CASE r # met
        BY <2>2, <4>2 DEF SamePair
      <4> QED
        BY <4>1, <4>2
    <3> QED
      BY <3>1 DEF Extends
  <2>9. ClaimKept(more, claim, contradiction)
    <3>1. SamePair(changed, claim)
      BY <2>1, <2>4 DEF SamePair
    <3> QED
      BY <2>1, <2>2, <2>3, <2>4, <3>1 DEF ClaimKept
  <2> QED
    BY <2>6, <2>7, <2>8, <2>9 DEF more
<1> QED
  BY <1>5, <1>6 DEF more

\* Integrating claims one by one has a result.
LEMMA IntegrationRuns ==
  ASSUME NEW rows, NEW claims, Len(claims) \in Nat, NEW spine
  PROVE  \E f : /\ f[0] = rows /\ IntegrateRelationships(rows, claims, spine) = f[Len(claims)]
               /\ \A n \in 1..Len(claims) : f[n] = IntegrateRelationship(f[n - 1], claims[n], Contradicted(claims, claims[n]), spine)
<1> DEFINE N == Len(claims)
           step(old, n) == IntegrateRelationship(old, claims[n], Contradicted(claims, claims[n]), spine)
           Fits(f, m) == f = [n \in 0..m |-> IF n = 0 THEN rows ELSE step(f[n - 1], n)]
           after == CHOOSE f : Fits(f, N)
           wrong == {m \in 0..N : ~\E f : Fits(f, m)}
<1>1. IntegrateRelationships(rows, claims, spine) = after[N]
  BY DEF IntegrateRelationships
<1> HIDE DEF N, step
<1>2. ASSUME NEW m \in wrong, \A t \in wrong : m <= t PROVE FALSE
  <2>1. m \in 0..N /\ ~\E f : Fits(f, m)
    OBVIOUS
  <2>2. CASE m = 0
    <3> DEFINE f == [n \in 0..m |-> rows]
    <3>1. f = [n \in 0..m |-> IF n = 0 THEN rows ELSE step(f[n - 1], n)]
      BY <2>2
    <3> HIDE DEF f
    <3> QED
      BY <2>1, <3>1
  <2>3. CASE m # 0
    <3>1. m \in Nat /\ m - 1 \in 0..N /\ ~(m <= m - 1)
      BY <2>1, <2>3 DEF N
    <3>2. m - 1 \notin wrong
      <4> HIDE DEF wrong
      <4> QED
        BY <1>2, <3>1
    <3>3. PICK h : Fits(h, m - 1)
      <4> HIDE DEF Fits
      <4> QED
        BY <3>1, <3>2
    <3> DEFINE last == step(h[m - 1], m)
               f == [n \in 0..m |-> IF n = m THEN last ELSE h[n]]
    <3>4. f[m] = last /\ \A n \in 0..(m - 1) : f[n] = h[n]
      BY <3>1
    <3>5. ASSUME NEW n \in 0..m PROVE f[n] = IF n = 0 THEN rows ELSE step(f[n - 1], n)
      <4> HIDE DEF f
      <4>1. CASE n = m
        <5>1. n # 0 /\ m - 1 \in 0..(m - 1)
          BY <2>3, <3>1, <4>1
        <5>2. f[n] = last /\ f[n - 1] = h[m - 1]
          BY <3>4, <4>1, <5>1
        <5> QED
          BY <4>1, <5>1, <5>2
      <4>2. CASE n # m
        <5>1. n \in 0..(m - 1) /\ (n # 0 => n - 1 \in 0..(m - 1))
          BY <3>1, <4>2
        <5>2. h[n] = IF n = 0 THEN rows ELSE step(h[n - 1], n)
          BY <3>3, <5>1
        <5> QED
          BY <3>4, <5>1, <5>2
      <4> QED
        BY <4>1, <4>2
    <3>6. f = [n \in 0..m |-> f[n]]
      OBVIOUS
    <3> HIDE DEF f
    <3>7. Fits(f, m)
      BY <3>5, <3>6
    <3> QED
      BY <2>1, <3>7
  <2> QED
    BY <2>2, <2>3
<1>3. N \in Nat
  BY DEF N
<1>4. wrong = {}
  <2>1. wrong \in SUBSET Nat
    BY <1>3
  <2> HIDE DEF wrong
  <2> QED
    BY <1>2, <2>1, SmallestNumber
<1>5. Fits(after, N)
  <2>1. N \in 0..N
    BY <1>3
  <2>2. \E f : Fits(f, N)
    BY <1>4, <2>1
  <2> HIDE DEF Fits
  <2> QED
    BY <2>2, Zenon
<1> HIDE DEF after
<1>6. after[0] = rows
  BY <1>3, <1>5
<1>7. ASSUME NEW n \in 1..N PROVE after[n] = step(after[n - 1], n)
  <2>1. n \in 0..N /\ n # 0
    BY <1>3
  <2> QED
    BY <1>5, <2>1
<1> HIDE DEF Fits, wrong
<1> QED
  BY <1>1, <1>6, <1>7 DEF N, step

\* So has analysing chapters one by one.
LEMMA AnalysisRuns ==
  ASSUME NEW chapters, Len(chapters) \in Nat, NEW newest
  PROVE  \E f : /\ f[0] = EmptyBook /\ AnalyzeBook(chapters, newest) = f[Len(chapters)]
               /\ \A n \in 1..Len(chapters) : f[n] = AnalyzeChapter(f[n - 1], chapters[n], n, newest)
<1> DEFINE N == Len(chapters)
           step(old, n) == AnalyzeChapter(old, chapters[n], n, newest)
           Fits(f, m) == f = [n \in 0..m |-> IF n = 0 THEN EmptyBook ELSE step(f[n - 1], n)]
           after == CHOOSE f : Fits(f, N)
           wrong == {m \in 0..N : ~\E f : Fits(f, m)}
<1>1. AnalyzeBook(chapters, newest) = after[N]
  BY DEF AnalyzeBook
<1> HIDE DEF N, step
<1>2. ASSUME NEW m \in wrong, \A t \in wrong : m <= t PROVE FALSE
  <2>1. m \in 0..N /\ ~\E f : Fits(f, m)
    OBVIOUS
  <2>2. CASE m = 0
    <3> DEFINE f == [n \in 0..m |-> EmptyBook]
    <3>1. f = [n \in 0..m |-> IF n = 0 THEN EmptyBook ELSE step(f[n - 1], n)]
      BY <2>2
    <3> HIDE DEF f
    <3> QED
      BY <2>1, <3>1
  <2>3. CASE m # 0
    <3>1. m \in Nat /\ m - 1 \in 0..N /\ ~(m <= m - 1)
      BY <2>1, <2>3 DEF N
    <3>2. m - 1 \notin wrong
      <4> HIDE DEF wrong
      <4> QED
        BY <1>2, <3>1
    <3>3. PICK h : Fits(h, m - 1)
      <4> HIDE DEF Fits
      <4> QED
        BY <3>1, <3>2
    <3> DEFINE last == step(h[m - 1], m)
               f == [n \in 0..m |-> IF n = m THEN last ELSE h[n]]
    <3>4. f[m] = last /\ \A n \in 0..(m - 1) : f[n] = h[n]
      BY <3>1
    <3>5. ASSUME NEW n \in 0..m PROVE f[n] = IF n = 0 THEN EmptyBook ELSE step(f[n - 1], n)
      <4> HIDE DEF f
      <4>1. CASE n = m
        <5>1. n # 0 /\ m - 1 \in 0..(m - 1)
          BY <2>3, <3>1, <4>1
        <5>2. f[n] = last /\ f[n - 1] = h[m - 1]
          BY <3>4, <4>1, <5>1
        <5> QED
          BY <4>1, <5>1, <5>2
      <4>2. CASE n # m
        <5>1. n \in 0..(m - 1) /\ (n # 0 => n - 1 \in 0..(m - 1))
          BY <3>1, <4>2
        <5>2. h[n] = IF n = 0 THEN EmptyBook ELSE step(h[n - 1], n)
          BY <3>3, <5>1
        <5> QED
          BY <3>4, <5>1, <5>2
      <4> QED
        BY <4>1, <4>2
    <3>6. f = [n \in 0..m |-> f[n]]
      OBVIOUS
    <3> HIDE DEF f
    <3>7. Fits(f, m)
      BY <3>5, <3>6
    <3> QED
      BY <2>1, <3>7
  <2> QED
    BY <2>2, <2>3
<1>3. N \in Nat
  BY DEF N
<1>4. wrong = {}
  <2>1. wrong \in SUBSET Nat
    BY <1>3
  <2> HIDE DEF wrong
  <2> QED
    BY <1>2, <2>1, SmallestNumber
<1>5. Fits(after, N)
  <2>1. N \in 0..N
    BY <1>3
  <2>2. \E f : Fits(f, N)
    BY <1>4, <2>1
  <2> HIDE DEF Fits
  <2> QED
    BY <2>2, Zenon
<1> HIDE DEF after
<1>6. after[0] = EmptyBook
  BY <1>3, <1>5
<1>7. ASSUME NEW n \in 1..N PROVE after[n] = step(after[n - 1], n)
  <2>1. n \in 0..N /\ n # 0
    BY <1>3
  <2> QED
    BY <1>5, <2>1
<1> HIDE DEF Fits, wrong
<1> QED
  BY <1>1, <1>6, <1>7 DEF N, step

\* All claims of a chapter are integrated.
LEMMA ClaimsAreIntegrated ==
  ASSUME NEW chapters, NEW n \in Nat \ {0}, NEW rows, Supported(rows, chapters, n), OneRowPerPair(rows),
         NEW claims, ClaimsOf(claims, chapters[n])
  PROVE  LET more == IntegrateRelationships(rows, claims, n)
         IN /\ Supported(more, chapters, n) /\ OneRowPerPair(more) /\ Extends(rows, more)
            /\ \A claim \in ToSet(claims) : ClaimKept(more, claim, Contradicted(claims, claim))
<1> DEFINE N == Len(claims)
<1>1. N \in Nat /\ DOMAIN claims = 1..N
  BY ListIs DEF ClaimsOf
<1>2. PICK f : /\ f[0] = rows /\ IntegrateRelationships(rows, claims, n) = f[N]
               /\ \A k \in 1..N : f[k] =
                      IntegrateRelationship(f[k - 1], claims[k], Contradicted(claims, claims[k]), n)
  BY <1>1, IntegrationRuns
<1> HIDE DEF N
<1> DEFINE Good(k) == /\ Supported(f[k], chapters, n) /\ OneRowPerPair(f[k]) /\ Extends(rows, f[k])
                      /\ \A j \in 1..k : ClaimKept(f[k], claims[j], Contradicted(claims, claims[j]))
           wrong == {k \in 0..N : ~Good(k)}
<1>3. Good(0)
  <2>1. Extends(rows, rows)
    BY DEF Extends, SamePair
  <2> QED
    BY <1>2, <2>1
<1>4. ASSUME NEW k \in 1..N, Good(k - 1) PROVE Good(k)
  <2> DEFINE old == f[k - 1]
             more == f[k]
             claim == claims[k]
             against == Contradicted(claims, claim)
  <2>1. ClaimOf(claim, chapters[n])
    BY <1>1 DEF ClaimsOf
  <2>2. against \in BOOLEAN
    BY DEF Contradicted
  <2>3. more = IntegrateRelationship(old, claim, against, n)
    BY <1>2
  <2>4. Supported(old, chapters, n) /\ OneRowPerPair(old) /\ Extends(rows, old)
        /\ \A j \in 1..(k - 1) : ClaimKept(old, claims[j], Contradicted(claims, claims[j]))
    BY <1>4
  <2> HIDE DEF old, more, claim, against, Good
  <2>5. Supported(more, chapters, n) /\ OneRowPerPair(more) /\ Extends(old, more)
        /\ ClaimKept(more, claim, against)
    BY <2>1, <2>2, <2>3, <2>4, ClaimIsIntegrated
  <2>6. Extends(rows, more)
    BY <2>4, <2>5, ExtendsOnce
  <2>7. ASSUME NEW j \in 1..k PROVE ClaimKept(more, claims[j], Contradicted(claims, claims[j]))
    <3>1. CASE j = k
      BY <2>5, <3>1 DEF claim, against
    <3>2. CASE j # k
      <4>1. j \in 1..(k - 1)
        BY <1>1, <3>2
      <4> QED
        BY <2>4, <2>5, <4>1, KeptWhenExtended
    <3> QED
      BY <3>1, <3>2
  <2> QED
    BY <2>5, <2>6, <2>7 DEF Good, more
<1> HIDE DEF Good
<1>5. ASSUME NEW k \in wrong, \A t \in wrong : k <= t PROVE FALSE
  <2>1. k \in 1..N /\ k - 1 \in 0..N /\ ~(k <= k - 1) /\ ~Good(k)
    BY <1>1, <1>3
  <2>2. k - 1 \notin wrong
    <3> HIDE DEF wrong
    <3> QED
      BY <1>5, <2>1
  <2> QED
    BY <1>4, <2>1, <2>2
<1>6. wrong = {}
  <2>1. wrong \in SUBSET Nat
    BY <1>1
  <2> HIDE DEF wrong
  <2> QED
    BY <1>5, <2>1, SmallestNumber
<1>7. Good(N)
  <2>1. N \in 0..N
    BY <1>1
  <2> QED
    BY <1>6, <2>1
<1>8. ASSUME NEW claim \in ToSet(claims) PROVE \E j \in 1..N : claim = claims[j]
  BY <1>1 DEF ToSet
<1> QED
  BY <1>2, <1>7, <1>8 DEF Good

-----------------------------------------------------------------------------
(* The book *)

\* What Append does to a list.
LEMMA AppendedIs ==
  ASSUME NEW s, IsList(s), NEW x
  PROVE  /\ IsList(Append(s, x)) /\ Len(Append(s, x)) = Len(s) + 1 /\ Append(s, x)[Len(s) + 1] = x
         /\ \A i \in 1..Len(s) : Append(s, x)[i] = s[i]
<1> DEFINE T == {s[i] : i \in DOMAIN s} \cup {x}
           m == Len(s)
           a == Append(s, x)
<1>1. m \in Nat /\ DOMAIN s = 1..m /\ s = [i \in 1..m |-> s[i]]
  BY ListIs DEF IsList
<1>2. s \in Seq(T) /\ x \in T
  <2>1. \A i \in 1..m : s[i] \in T
    BY <1>1
  <2> HIDE DEF T, m
  <2>2. s \in [1..m -> T]
    BY <1>1, <2>1
  <2>3. s \in Seq(T)
    BY <1>1, <2>2
  <2> QED
    BY <2>3 DEF T
<1> HIDE DEF T, m
<1>3. /\ a \in Seq(T) /\ Len(a) = Len(s) + 1 /\ a[Len(s) + 1] = x
      /\ \A i \in 1..Len(s) : a[i] = s[i]
  BY <1>2
<1>4. IsList(a)
  BY <1>3, SeqIsList
<1> QED
  BY <1>3, <1>4

\* A chapter has one place of a name, and so has the book.
LEMMA PlacesDiffer ==
  ASSUME NEW paragraphs, NEW candidates, NEW known, \A k, l \in known : k.name = l.name => k = l
  PROVE  LET more == IntegrateLocations(known, DetectLocations(paragraphs, candidates))
         IN \A k, l \in more : k.name = l.name => k = l
<1> DEFINE people == {c.key : c \in ToSet(candidates)}
           places(p) == {n \in ToSet(p.names) : n \notin people /\ Last(n) \in LocationNouns}
           found(n) == {p.id : p \in {q \in ToSet(paragraphs) : n \in places(q)}}
           names == UNION {places(p) : p \in ToSet(paragraphs)}
           new == DetectLocations(paragraphs, candidates)
           more == IntegrateLocations(known, new)
<1>1. new = {[name |-> n, evidence |-> found(n)] : n \in names}
  BY DEF DetectLocations
<1> HIDE DEF new, found, names
<1>2. \A k, l \in new : k.name = l.name => k = l
  BY <1>1
<1>3. more = known \cup {l \in new : \A k \in known : k.name # l.name}
  BY DEF IntegrateLocations, FindLocationByName
<1> HIDE DEF more
<1>4. \A k, l \in more : k.name = l.name => k = l
  BY <1>2, <1>3
<1> QED
  BY <1>4 DEF more, new

\* The book after n chapters.
BookUpTo(book, chapters, n) ==
    /\ Supported(book.relationships, chapters, n) /\ OneRowPerPair(book.relationships)
    /\ IsList(book.staged) /\ Len(book.staged) = n
    /\ IsList(book.scenes) /\ Len(book.scenes) = n
    /\ \A c \in 1..n : ChapterKept(book, c, chapters[c])
    /\ \A k, l \in book.locations : k.name = l.name => k = l

\* A chapter is added to the book.
LEMMA ChapterIsIntegrated ==
  ASSUME NEW chapters, NEW n \in Nat \ {0}, IdsRise(chapters[n]),
         \A i \in DOMAIN chapters[n] : IsList(chapters[n][i].claims),
         NEW book, BookUpTo(book, chapters, n - 1), NEW candidates, NEW characters, NEW ids
  PROVE  LET paragraphs == chapters[n]
             more == IntegrateChapter(book, characters,
                         StoreScenes(DetectScenes(paragraphs, candidates), ids),
                         StageClaims(DetectRelationships(paragraphs, candidates), ids),
                         DetectLocations(paragraphs, candidates), n)
         IN BookUpTo(more, chapters, n)
<1> DEFINE paragraphs == chapters[n]
           scenes == StoreScenes(DetectScenes(paragraphs, candidates), ids)
           staged == StageClaims(DetectRelationships(paragraphs, candidates), ids)
           places == DetectLocations(paragraphs, candidates)
           rows == IntegrateRelationships(book.relationships, staged, n)
           more == IntegrateChapter(book, characters, scenes, staged, places, n)
<1>1. ClaimsOf(staged, paragraphs)
  <2>1. ClaimsOf(DetectRelationships(paragraphs, candidates), paragraphs)
    BY ClaimsAreMade DEF IdsRise
  <2> QED
    BY <2>1, ClaimsAreStaged
<1>2. ScenesKept(scenes, paragraphs)
  BY ScenesAreKept
<1>3. /\ more.relationships = rows /\ more.staged = Append(book.staged, staged)
      /\ more.scenes = Append(book.scenes, scenes)
      /\ more.locations = IntegrateLocations(book.locations, places)
  BY DEF IntegrateChapter
<1>4. Supported(book.relationships, chapters, n) /\ OneRowPerPair(book.relationships)
  <2>1. Supported(book.relationships, chapters, n - 1) /\ OneRowPerPair(book.relationships)
    BY DEF BookUpTo
  <2>2. 1..(n - 1) \subseteq 1..n
    OBVIOUS
  <2> QED
    BY <2>1, <2>2 DEF Supported
<1> HIDE DEF staged, scenes
<1>5. /\ Supported(rows, chapters, n) /\ OneRowPerPair(rows) /\ Extends(book.relationships, rows)
      /\ \A claim \in ToSet(staged) : ClaimKept(rows, claim, Contradicted(staged, claim))
  BY <1>1, <1>4, ClaimsAreIntegrated
<1> HIDE DEF rows
<1>6. \A k, l \in more.locations : k.name = l.name => k = l
  <2>1. \A k, l \in book.locations : k.name = l.name => k = l
    BY DEF BookUpTo
  <2> HIDE DEF more, paragraphs
  <2> QED
    BY <1>3, <2>1, PlacesDiffer
<1> HIDE DEF places, more
<1>7. /\ IsList(book.staged) /\ Len(book.staged) = n - 1
      /\ IsList(book.scenes) /\ Len(book.scenes) = n - 1
  BY DEF BookUpTo
<1>8. /\ IsList(more.staged) /\ Len(more.staged) = n /\ more.staged[n] = staged
      /\ \A c \in 1..(n - 1) : more.staged[c] = book.staged[c]
  BY <1>3, <1>7, AppendedIs
<1>9. /\ IsList(more.scenes) /\ Len(more.scenes) = n /\ more.scenes[n] = scenes
      /\ \A c \in 1..(n - 1) : more.scenes[c] = book.scenes[c]
  BY <1>3, <1>7, AppendedIs
<1>10. ASSUME NEW c \in 1..n PROVE ChapterKept(more, c, chapters[c])
  <2>1. CASE c = n
    BY <1>2, <1>3, <1>5, <1>8, <1>9, <2>1 DEF ChapterKept
  <2>2. CASE c # n
    <3>1. c \in 1..(n - 1)
      BY <2>2
    <3>2. ChapterKept(book, c, chapters[c])
      BY <3>1 DEF BookUpTo
    <3>3. more.staged[c] = book.staged[c] /\ more.scenes[c] = book.scenes[c]
      BY <1>8, <1>9, <3>1
    <3>4. ASSUME NEW claim \in ToSet(book.staged[c])
          PROVE  ClaimKept(rows, claim, Contradicted(book.staged[c], claim))
      <4>1. ClaimKept(book.relationships, claim, Contradicted(book.staged[c], claim))
        BY <3>2 DEF ChapterKept
      <4> QED
        BY <1>5, <4>1, KeptWhenExtended
    <3> QED
      BY <1>3, <3>2, <3>3, <3>4 DEF ChapterKept
  <2> QED
    BY <2>1, <2>2
<1>11. BookUpTo(more, chapters, n)
  BY <1>3, <1>5, <1>6, <1>8, <1>9, <1>10 DEF BookUpTo
<1> QED
  BY <1>11 DEF more, places, scenes, staged, paragraphs

\* Chapters that can be analysed: ids rise through the book.
ChaptersRise(chapters) ==
    /\ Len(chapters) \in Nat /\ DOMAIN chapters = 1..Len(chapters)
    /\ \A c \in DOMAIN chapters :
           /\ IdsRise(chapters[c])
           /\ \A i \in DOMAIN chapters[c] : IsList(chapters[c][i].claims)
    /\ \A c, d \in DOMAIN chapters : \A i \in DOMAIN chapters[c], j \in DOMAIN chapters[d] :
           c < d => chapters[c][i].id < chapters[d][j].id

\* The analysed book.
LEMMA BookIsUpTo ==
  ASSUME NEW chapters, ChaptersRise(chapters), NEW newest
  PROVE  BookUpTo(AnalyzeBook(chapters, newest), chapters, Len(chapters))
<1> DEFINE N == Len(chapters)
<1>1. N \in Nat /\ DOMAIN chapters = 1..N
  BY DEF ChaptersRise
<1>2. PICK f : /\ f[0] = EmptyBook /\ AnalyzeBook(chapters, newest) = f[N]
               /\ \A n \in 1..N : f[n] = AnalyzeChapter(f[n - 1], chapters[n], n, newest)
  BY <1>1, AnalysisRuns
<1> HIDE DEF N
<1> DEFINE Good(n) == BookUpTo(f[n], chapters, n)
           wrong == {n \in 0..N : ~Good(n)}
<1>3. Good(0)
  <2> DEFINE none == <<>>
  <2>1. none = [i \in 1..0 |-> none[i]] /\ 0 \in Nat /\ Len(none) = 0
    OBVIOUS
  <2>2. EmptyBook.staged = none /\ EmptyBook.scenes = none /\ EmptyBook.relationships = {}
        /\ EmptyBook.locations = {}
    BY DEF EmptyBook
  <2> HIDE DEF none
  <2>3. IsList(none)
    BY <2>1 DEF IsList
  <2>4. BookUpTo(EmptyBook, chapters, 0)
    BY <2>1, <2>2, <2>3 DEF BookUpTo, Supported, OneRowPerPair
  <2> QED
    BY <1>2, <2>4
<1>4. ASSUME NEW n \in 1..N, Good(n - 1) PROVE Good(n)
  <2>1. n \in Nat \ {0} /\ IdsRise(chapters[n])
        /\ \A i \in DOMAIN chapters[n] : IsList(chapters[n][i].claims)
    BY <1>1 DEF ChaptersRise
  <2> DEFINE book == f[n - 1]
             known == LoadKnownCharacters(book.characters, newest)
             candidates == DetectCharacters(chapters[n], known)
             registered == RegisterCharacters(book.characters, candidates)
             characters == registered.characters
             ids == registered.ids
  <2>2. f[n] = IntegrateChapter(book, characters,
                   StoreScenes(DetectScenes(chapters[n], candidates), ids),
                   StageClaims(DetectRelationships(chapters[n], candidates), ids),
                   DetectLocations(chapters[n], candidates), n)
    BY <1>2 DEF AnalyzeChapter, AnalyzeMentions, StoreChapter
  <2>3. BookUpTo(book, chapters, n - 1)
    BY <1>4
  <2> HIDE DEF book, known, candidates, registered, characters, ids
  <2>4. BookUpTo(f[n], chapters, n)
    BY <2>1, <2>2, <2>3, ChapterIsIntegrated
  <2> QED
    BY <2>4
<1> HIDE DEF Good
<1>5. ASSUME NEW n \in wrong, \A t \in wrong : n <= t PROVE FALSE
  <2>1. n \in 1..N /\ n - 1 \in 0..N /\ ~(n <= n - 1) /\ ~Good(n)
    BY <1>1, <1>3
  <2>2. n - 1 \notin wrong
    <3> HIDE DEF wrong
    <3> QED
      BY <1>5, <2>1
  <2> QED
    BY <1>4, <2>1, <2>2
<1>6. wrong = {}
  <2>1. wrong \in SUBSET Nat
    BY <1>1
  <2> HIDE DEF wrong
  <2> QED
    BY <1>5, <2>1, SmallestNumber
<1>7. Good(N)
  <2>1. N \in 0..N
    BY <1>1
  <2> QED
    BY <1>6, <2>1
<1> QED
  BY <1>2, <1>7 DEF Good, N

\* The book keeps the evidence of its chapters.
LEMMA BookIsKept ==
  ASSUME NEW chapters, ChaptersRise(chapters), NEW newest
  PROVE  BookKept(AnalyzeBook(chapters, newest), chapters)
<1> DEFINE book == AnalyzeBook(chapters, newest)
           N == Len(chapters)
<1>1. BookUpTo(book, chapters, N)
  BY BookIsUpTo
<1>2. N \in Nat /\ DOMAIN chapters = 1..N
  BY DEF ChaptersRise
<1> HIDE DEF book, N
<1>3. ASSUME NEW r \in book.relationships, NEW c \in 1..N, NEW p \in ToSet(chapters[c]), p.id \in r.evidence
      PROVE  r.type \in ToSet(p.claims) /\ r.from <= c
  <2>1. PICK d \in 1..N : \E q \in ToSet(chapters[d]) :
            q.id = p.id /\ r.type \in ToSet(q.claims) /\ r.from <= d
    BY <1>1, <1>3 DEF BookUpTo, Supported
  <2>2. PICK q \in ToSet(chapters[d]) : q.id = p.id /\ r.type \in ToSet(q.claims) /\ r.from <= d
    BY <2>1
  <2>3. PICK i \in DOMAIN chapters[c] : p = chapters[c][i]
    BY DEF ToSet
  <2>4. PICK j \in DOMAIN chapters[d] : q = chapters[d][j]
    BY DEF ToSet
  <2> DEFINE a == chapters[c][i].id
             b == chapters[d][j].id
  <2>5. a \in Int /\ b \in Int /\ a = b
    BY <1>2, <2>2, <2>3, <2>4 DEF ChaptersRise, IdsRise
  <2>6. (c < d => a < b) /\ (d < c => b < a)
    BY <1>2 DEF ChaptersRise
  <2> HIDE DEF a, b
  <2>7. c = d
    BY <1>2, <2>5, <2>6
  <2>8. IsList(chapters[c]) /\ DOMAIN chapters[c] = 1..Len(chapters[c]) /\ Len(chapters[c]) \in Nat
        /\ \A x, y \in DOMAIN chapters[c] : x < y => chapters[c][x].id < chapters[c][y].id
    BY <1>2, ListIs DEF ChaptersRise, IdsRise
  <2>9. (i < j => a < b) /\ (j < i => b < a) /\ j \in DOMAIN chapters[c]
    BY <2>7, <2>8 DEF a, b
  <2>10. i = j
    BY <2>5, <2>8, <2>9
  <2> QED
    BY <2>2, <2>3, <2>4, <2>7, <2>10
<1>4. /\ \A r, s \in book.relationships : SamePair(r, s) /\ r.type = s.type => r = s
      /\ \A c \in 1..N : ChapterKept(book, c, chapters[c])
      /\ \A k, l \in book.locations : k.name = l.name => k = l
  BY <1>1 DEF BookUpTo, OneRowPerPair
<1>5. BookKept(book, chapters)
  BY <1>2, <1>3, <1>4 DEF BookKept
<1> QED
  BY <1>5 DEF book

-----------------------------------------------------------------------------
(* The inputs that grow *)

\* The words of the inputs.
NameWords == {"Ann", "Bob", "Cid", "Sis", "nobody"}
CharClasses == {"quote", "open", "close", "stop", "space", "letter"}
CueWords == {"SHOUT", "WHISPER", "ANGRY", "GRIEF", "SAD", "HAPPY", "fast", "slow", "capitals", "SIGH"}

DirectedSpans ==
    [start : Nat, end : Nat, paragraph : Nat, scene : {"s"}, words : SUBSET NameWords,
     dialogue : BOOLEAN, participants : SUBSET {"ann", "bob"}, cues : SUBSET CueWords, tension : Int]

SnapshotInputs == [kind : {"snapshot"}, facts : Snapshots({"ann"}), used : Nat]
NameRows == [name : NameWords, form : {"none", "named", "after", "before"}, paragraph : Nat,
             start : Int, end : Int]
SceneInputs == [kind : {"scene"}, spans : Seq(DirectedSpans), text : Seq(NameRows), voices : SUBSET {"ann", Narrator}]
RequestInputs == [kind : {"request"}, cues : SUBSET CueWords, engine : Engines,
                  declared : {"none", "NATIVE", "APPROXIMATED", "UNSUPPORTED"},
                  hints : SUBSET {"name"}]
ParagraphInputs == [kind : {"paragraph"}, text : Seq(CharClasses)]
CoverInputs == [kind : {"cover"}, length : Nat, spans : Seq(SpanRows)]
TakeInputs == [kind : {"take"}, levels : Seq(Nat), flushed : BOOLEAN]
BookInputs == [kind : {"book"}, book : Seq(ChapterRows)]
SoundInputs == [kind : {"sound"}, samples : Seq(Nat \cup {NotANumber}), chars : Nat,
                format : [rate : Nat, channels : Nat]]

\* The files.
FileWords == {"dog", "12", "chapter", "Tales", "extra-"}
FileKinds == {"PDF", "EPUB", "IMAGE_SET"}
Formats == FileKinds \cup {"empty", "zip", "text"}
Openings == {"ok", "late", "corrupt"}
Fragments == [w : FileWords, at : Nat, glued : BOOLEAN]
Texts == Seq(Fragments)
ItemRows == [text : Texts, font : Nat, y : Int, eol : BOOLEAN]
ScanRows == [outcome : {"raster_failed", "ocr_failed", "read"}, confident : BOOLEAN, paragraphs : Seq(Texts)]
PdfPages == [items : Seq(ItemRows), images : {"none", "painted"}, scan : ScanRows]
ImageFrames == [image : {"fine", "corrupt", "huge"}, scan : ScanRows]
FileTags == {"p", "h1", "h2", "li", "blockquote", "script"}
TagEvents == [type : {"open", "close"}, tag : FileTags]
TextEvents == [type : {"text"}, text : Texts]
XhtmlEvents == Seq(TagEvents \cup TextEvents)
SpineItems == [listed : BOOLEAN, inside : BOOLEAN, events : XhtmlEvents,
               entry : [present : BOOLEAN, size : Nat]]
EntryRows == [size : Nat, safe : BOOLEAN]
FileInputs == [kind : FileKinds, small : BOOLEAN, opens : Openings, sniffed : Formats,
               declared : FileKinds, available : BOOLEAN, used : Nat, pages : Seq(PdfPages),
               frames : Seq(ImageFrames), spine : Seq(SpineItems), entries : Seq(EntryRows),
               rootfile : BOOLEAN, package : BOOLEAN]

\* The chapters to analyse.
ProseWords == {"ann", "carter", "bob", "he", "manor"}
ProseNames == Seq(Seq(ProseWords))
ProseRows == [id : Nat, names : ProseNames, tags : ProseNames, claims : Seq({"FAMILY", "RIVALRY"}),
              nouns : SUBSET {"manor"}, break : BOOLEAN, first : Nat, third : Nat]

\* Paragraphs are numbered as they are added, up to the number used so far.
NumberedTo(chapters, used) ==
    /\ \A c \in DOMAIN chapters : \A i \in DOMAIN chapters[c] : chapters[c][i].id <= used
    /\ \A c \in DOMAIN chapters : \A i, j \in DOMAIN chapters[c] :
           i < j => chapters[c][i].id < chapters[c][j].id
    /\ \A c, d \in DOMAIN chapters : \A i \in DOMAIN chapters[c], j \in DOMAIN chapters[d] :
           c < d => chapters[c][i].id < chapters[d][j].id

ChapterInputs ==
    {r \in [kind : {"chapters"}, chapters : Seq(Seq(ProseRows)), newest : BOOLEAN, used : Nat] :
        NumberedTo(r.chapters, r.used)}

\* Every input has the type of its kind.
InputTyped ==
    /\ "kind" \in DOMAIN input
    /\ input.kind = "snapshot" => input \in SnapshotInputs
    /\ input.kind = "scene" => input \in SceneInputs
    /\ input.kind = "request" => input \in RequestInputs
    /\ input.kind = "sound" => input \in SoundInputs
    /\ input.kind = "paragraph" => input \in ParagraphInputs
    /\ input.kind = "cover" => input \in CoverInputs
    /\ input.kind = "take" => input \in TakeInputs
    /\ input.kind = "book" => input \in BookInputs
    /\ input.kind \in {"PDF", "EPUB", "IMAGE_SET"} => input \in FileInputs
    /\ input.kind = "chapters" => input \in ChapterInputs

\* Typed files are of the shape the parsers expect.
LEMMA FilesAreShaped ==
  ASSUME NEW file \in FileInputs
  PROVE  FileShaped(file)
<1>1. file.pages \in Seq(PdfPages) /\ file.frames \in Seq(ImageFrames) /\ file.spine \in Seq(SpineItems)
  BY DEF FileInputs
<1>2. IsList(file.pages) /\ IsList(file.frames) /\ IsList(file.spine)
  BY <1>1, SeqIsList
<1>3. ASSUME NEW scan \in ScanRows PROVE IsList(scan.paragraphs)
  BY SeqIsList DEF ScanRows
<1>4. ASSUME NEW p \in DOMAIN file.pages
      PROVE  IsList(file.pages[p].items) /\ IsList(file.pages[p].scan.paragraphs)
  <2> DEFINE page == file.pages[p]
  <2>1. page \in PdfPages
    BY <1>1
  <2> HIDE DEF page
  <2>2. page.items \in Seq(ItemRows) /\ page.scan \in ScanRows
    BY <2>1 DEF PdfPages
  <2>3. IsList(page.items) /\ IsList(page.scan.paragraphs)
    BY <1>3, <2>2, SeqIsList
  <2> QED
    BY <2>3 DEF page
<1>5. ASSUME NEW n \in DOMAIN file.frames PROVE IsList(file.frames[n].scan.paragraphs)
  <2> DEFINE frame == file.frames[n]
  <2>1. frame \in ImageFrames
    BY <1>1
  <2> HIDE DEF frame
  <2>2. frame.scan \in ScanRows
    BY <2>1 DEF ImageFrames
  <2>3. IsList(frame.scan.paragraphs)
    BY <1>3, <2>2
  <2> QED
    BY <2>3 DEF frame
<1>6. ASSUME NEW i \in DOMAIN file.spine PROVE IsList(file.spine[i].events)
  <2> DEFINE item == file.spine[i]
  <2>1. item \in SpineItems
    BY <1>1
  <2> HIDE DEF item
  <2>2. item.events \in XhtmlEvents
    BY <2>1 DEF SpineItems
  <2>3. IsList(item.events)
    BY <2>2, SeqIsList DEF XhtmlEvents
  <2> QED
    BY <2>3 DEF item
<1> QED
  BY <1>2, <1>4, <1>5, <1>6 DEF FileShaped

\* One field of a file changes.
LEMMA FileChanges ==
  ASSUME NEW file \in FileInputs
  PROVE  /\ \A v \in Nat : [file EXCEPT !.used = v] \in FileInputs
         /\ \A v \in Seq(PdfPages) : [file EXCEPT !.pages = v] \in FileInputs
         /\ \A v \in Seq(ImageFrames) : [file EXCEPT !.frames = v] \in FileInputs
         /\ \A v \in Seq(SpineItems) : [file EXCEPT !.spine = v] \in FileInputs
         /\ \A v \in Seq(EntryRows) : [file EXCEPT !.entries = v] \in FileInputs
         /\ \A v \in Openings : [file EXCEPT !.opens = v] \in FileInputs
         /\ \A v \in Formats : [file EXCEPT !.sniffed = v] \in FileInputs
         /\ \A v \in BOOLEAN : [file EXCEPT !.available = v] \in FileInputs
         /\ \A v \in BOOLEAN : [file EXCEPT !.small = v] \in FileInputs
         /\ \A v \in BOOLEAN : [file EXCEPT !.rootfile = v] \in FileInputs
         /\ \A v \in BOOLEAN : [file EXCEPT !.package = v] \in FileInputs
<1> DEFINE P == Seq(PdfPages)
           F == Seq(ImageFrames)
           S == Seq(SpineItems)
           E == Seq(EntryRows)
<1> HIDE DEF P, F, S, E
<1>1. FileInputs = [kind : FileKinds, small : BOOLEAN, opens : Openings,
                    sniffed : Formats, declared : FileKinds, available : BOOLEAN, used : Nat,
                    pages : P, frames : F, spine : S, entries : E,
                    rootfile : BOOLEAN, package : BOOLEAN]
  BY DEF FileInputs, P, F, S, E
<1>2. /\ \A v \in Nat : [file EXCEPT !.used = v] \in FileInputs
      /\ \A v \in P : [file EXCEPT !.pages = v] \in FileInputs
      /\ \A v \in F : [file EXCEPT !.frames = v] \in FileInputs
      /\ \A v \in S : [file EXCEPT !.spine = v] \in FileInputs
      /\ \A v \in E : [file EXCEPT !.entries = v] \in FileInputs
  BY <1>1
<1>3. /\ \A v \in Openings : [file EXCEPT !.opens = v] \in FileInputs
      /\ \A v \in Formats : [file EXCEPT !.sniffed = v] \in FileInputs
      /\ \A v \in BOOLEAN : [file EXCEPT !.available = v] \in FileInputs
      /\ \A v \in BOOLEAN : [file EXCEPT !.small = v] \in FileInputs
      /\ \A v \in BOOLEAN : [file EXCEPT !.rootfile = v] \in FileInputs
      /\ \A v \in BOOLEAN : [file EXCEPT !.package = v] \in FileInputs
  BY <1>1
<1> QED
  BY <1>2, <1>3 DEF P, F, S, E

\* What reading a picture may give is typed.
LEMMA ScansTyped ==
  ASSUME NEW at \in Nat, NEW scan \in Scans(at)
  PROVE  scan \in ScanRows
<1> DEFINE one == Fragment("dog", at)
           text == <<one>>
           some == <<text>>
           none == <<>>
<1>1. one \in Fragments
  BY DEF Fragment, Fragments, FileWords
<1> HIDE DEF one
<1>2. text \in Texts
  BY <1>1 DEF Texts
<1> HIDE DEF text
<1>3. some \in Seq(Texts) /\ none \in Seq(Texts)
  BY <1>2
<1> HIDE DEF some, none
<1>4. \/ \E o \in {"raster_failed", "ocr_failed", "read"} :
             scan = [outcome |-> o, confident |-> TRUE, paragraphs |-> none]
      \/ \E c \in BOOLEAN : scan = [outcome |-> "read", confident |-> c, paragraphs |-> some]
  BY DEF Scans, some, none, text, one
<1>5. ASSUME NEW o \in {"raster_failed", "ocr_failed", "read"}, NEW c \in BOOLEAN, NEW list \in Seq(Texts),
             scan = [outcome |-> o, confident |-> c, paragraphs |-> list]
      PROVE  scan \in ScanRows
  BY <1>5 DEF ScanRows
<1> QED
  BY <1>3, <1>4, <1>5

\* A larger PDF is typed.
LEMMA PdfGrows ==
  ASSUME input \in FileInputs, GrowPdf
  PROVE  input' \in FileInputs
<1> DEFINE pages == input.pages
           n == Len(pages)
           none == <<>>
           scan0 == [outcome |-> "read", confident |-> TRUE, paragraphs |-> none]
<1>1. pages \in Seq(PdfPages) /\ input.used \in Nat /\ n \in Nat
  BY DEF FileInputs
<1>2. Blank \in PdfPages
  <2>1. none \in Seq(Texts) /\ none \in Seq(ItemRows)
    OBVIOUS
  <2>2. Blank = [items |-> none, images |-> "none", scan |-> scan0]
    BY DEF Blank
  <2> HIDE DEF none
  <2>3. scan0 \in ScanRows
    BY <2>1 DEF ScanRows
  <2> HIDE DEF scan0
  <2> QED
    BY <2>1, <2>2, <2>3 DEF PdfPages
<1> HIDE DEF none, scan0
<1>3. ASSUME NEW page \in PdfPages PROVE Append(pages, page) \in Seq(PdfPages)
  BY <1>1
<1>4. ASSUME NEW used \in Nat, NEW new \in Seq(PdfPages)
      PROVE  [input EXCEPT !.used = used, !.pages = new] \in FileInputs
  <2> DEFINE file == [input EXCEPT !.used = used]
  <2>1. file \in FileInputs
    BY FileChanges
  <2>2. [input EXCEPT !.used = used, !.pages = new] = [file EXCEPT !.pages = new]
    OBVIOUS
  <2> HIDE DEF file
  <2> QED
    BY <2>1, <2>2, FileChanges
<1>5. ASSUME input' = [input EXCEPT !.pages = Append(@, Blank)] PROVE input' \in FileInputs
  <2> DEFINE new == Append(pages, Blank)
  <2>1. new \in Seq(PdfPages) /\ input' = [input EXCEPT !.pages = new]
    BY <1>2, <1>3, <1>5
  <2> HIDE DEF new
  <2> QED
    BY <2>1, FileChanges
<1>6. ASSUME NEW scan \in Scans(input.used + 1),
             input' = [input EXCEPT !.used = @ + 1,
                 !.pages = Append(@, [Blank EXCEPT !.images = "painted", !.scan = scan])]
      PROVE  input' \in FileInputs
  <2> DEFINE page == [Blank EXCEPT !.images = "painted", !.scan = scan]
             used == input.used + 1
             new == Append(pages, page)
  <2>1. used \in Nat
    BY <1>1
  <2>2. scan \in ScanRows
    <3> HIDE DEF used
    <3>1. scan \in Scans(used)
      BY DEF used
    <3> QED
      BY <2>1, <3>1, ScansTyped
  <2>3. page \in PdfPages
    BY <1>2, <2>2 DEF PdfPages
  <2>4. input' = [input EXCEPT !.used = used, !.pages = new]
    BY <1>6
  <2> HIDE DEF page
  <2>5. new \in Seq(PdfPages)
    BY <1>3, <2>3
  <2> HIDE DEF new, used
  <2> QED
    BY <1>4, <2>1, <2>4, <2>5
<1>7. ASSUME n \in 1..MaxPages, NEW shape \in ItemShapes \cup CommonShapes,
             LET last == input.pages[n].items
                 y == IF last = <<>> THEN 0 ELSE Last(last).y
                 item == [text |-> [i \in DOMAIN shape.w |-> Fragment(shape.w[i], input.used + 1)],
                          font |-> shape.font, y |-> y + shape.gap, eol |-> shape.eol]
             IN input' = [input EXCEPT !.used = @ + 1, !.pages[n].items = Append(@, item)]
      PROVE  input' \in FileInputs
  <2> DEFINE used == input.used + 1
             page == pages[n]
             last == page.items
             y == IF last = <<>> THEN 0 ELSE Last(last).y
             text == [i \in DOMAIN shape.w |-> Fragment(shape.w[i], used)]
             item == [text |-> text, font |-> shape.font, y |-> y + shape.gap, eol |-> shape.eol]
             items == Append(last, item)
             larger == [page EXCEPT !.items = items]
             new == [pages EXCEPT ![n] = larger]
  <2>1. page \in PdfPages /\ n \in DOMAIN pages
    BY <1>1, <1>7
  <2>2. last \in Seq(ItemRows)
    <3> HIDE DEF page
    <3> QED
      BY <2>1 DEF PdfPages
  <2>3. y \in Int
    <3> HIDE DEF last
    <3>1. ASSUME last # <<>> PROVE Last(last) \in ItemRows
      BY <2>2, <3>1 DEF Last
    <3> QED
      BY <3>1 DEF ItemRows
  <2>4. /\ shape.w \in Seq(FileWords) /\ shape.font \in Nat /\ shape.gap \in Nat /\ shape.eol \in BOOLEAN
    <3>1. shape \in ItemShapes
      BY DEF CommonShapes
    <3>2. /\ <<"dog">> \in Seq(FileWords) /\ <<"12">> \in Seq(FileWords) /\ <<"chapter">> \in Seq(FileWords)
          /\ <<"Tales">> \in Seq(FileWords) /\ <<"extra-">> \in Seq(FileWords) /\ <<>> \in Seq(FileWords)
      BY DEF FileWords
    <3> DEFINE Ws == {<<"dog">>, <<"12">>, <<"chapter">>, <<"Tales">>, <<"extra-">>, <<>>}
    <3>3. \E w \in Ws, font \in {10, 14}, gap \in {1, 3}, eol \in BOOLEAN :
              shape = [w |-> w, font |-> font, gap |-> gap, eol |-> eol]
      BY <3>1 DEF ItemShapes
    <3>4. Ws \subseteq Seq(FileWords)
      BY <3>2
    <3> HIDE DEF Ws
    <3> QED
      BY <3>3, <3>4
  <2>5. used \in Nat
    BY <1>1
  <2> HIDE DEF used, y, last, page
  <2>6. text \in Texts
    <3>1. \A i \in DOMAIN shape.w : shape.w[i] \in FileWords
      BY <2>4
    <3>2. \A w \in FileWords : Fragment(w, used) \in Fragments
      BY <2>5 DEF Fragment, Fragments
    <3>3. \A i \in DOMAIN shape.w : Fragment(shape.w[i], used) \in Fragments
      BY <3>1, <3>2
    <3>4. Len(shape.w) \in Nat /\ DOMAIN shape.w = 1..Len(shape.w)
      BY <2>4
    <3> DEFINE m == Len(shape.w)
    <3> HIDE DEF m
    <3>5. text = [i \in 1..m |-> Fragment(shape.w[i], used)] /\ m \in Nat
      BY <3>4 DEF m
    <3>6. \A i \in 1..m : text[i] \in Fragments
      BY <3>3, <3>4, <3>5 DEF m
    <3>7. text = [i \in 1..m |-> text[i]]
      BY <3>5
    <3> HIDE DEF text
    <3>8. text \in Seq(Fragments)
      BY <3>5, <3>6, <3>7
    <3> QED
      BY <3>8 DEF Texts
  <2> HIDE DEF text
  <2>7. item \in ItemRows
    <3> DEFINE z == y + shape.gap
    <3>1. z \in Int
      BY <2>3, <2>4
    <3>2. item = [text |-> text, font |-> shape.font, y |-> z, eol |-> shape.eol]
      OBVIOUS
    <3> HIDE DEF z
    <3> QED
      BY <2>4, <2>6, <3>1, <3>2 DEF ItemRows
  <2>8. input' = [input EXCEPT !.used = used, !.pages = new]
    BY <1>7 DEF used, y, last, page, text
  <2> HIDE DEF item
  <2>9. items \in Seq(ItemRows)
    BY <2>2, <2>7
  <2> HIDE DEF items
  <2>10. larger \in PdfPages
    BY <2>1, <2>9 DEF PdfPages
  <2> HIDE DEF larger
  <2>11. new \in Seq(PdfPages)
    BY <1>1, <2>1, <2>10
  <2> HIDE DEF new
  <2> QED
    BY <1>4, <2>5, <2>8, <2>11
<1>8. ASSUME NEW o \in {"late", "corrupt"}, input' = [input EXCEPT !.opens = o]
      PROVE  input' \in FileInputs
  BY <1>8, FileChanges DEF Openings
<1>9. ASSUME NEW f \in {"empty", "zip", "text"}, input' = [input EXCEPT !.sniffed = f]
      PROVE  input' \in FileInputs
  BY <1>9, FileChanges DEF Formats
<1>10. ASSUME input' = [input EXCEPT !.available = FALSE] \/ input' = [input EXCEPT !.small = FALSE]
       PROVE  input' \in FileInputs
  BY <1>10, FileChanges
<1> HIDE DEF pages, n
<1>11. ASSUME Len(input.pages) \in 1..MaxPages,
              \E shape \in IF Items(input) < 3 THEN ItemShapes ELSE CommonShapes :
                 LET m == Len(input.pages)
                     last == input.pages[m].items
                     y == IF last = <<>> THEN 0 ELSE Last(last).y
                     item == [text |-> [i \in DOMAIN shape.w |-> Fragment(shape.w[i], input.used + 1)],
                              font |-> shape.font, y |-> y + shape.gap, eol |-> shape.eol]
                 IN input' = [input EXCEPT !.used = @ + 1, !.pages[m].items = Append(@, item)]
       PROVE  input' \in FileInputs
  <2>1. PICK shape \in IF Items(input) < 3 THEN ItemShapes ELSE CommonShapes :
                 LET m == Len(input.pages)
                     last == input.pages[m].items
                     y == IF last = <<>> THEN 0 ELSE Last(last).y
                     item == [text |-> [i \in DOMAIN shape.w |-> Fragment(shape.w[i], input.used + 1)],
                              font |-> shape.font, y |-> y + shape.gap, eol |-> shape.eol]
                 IN input' = [input EXCEPT !.used = @ + 1, !.pages[m].items = Append(@, item)]
    BY <1>11
  <2>2. shape \in ItemShapes \cup CommonShapes
    <3> HIDE DEF ItemShapes, CommonShapes
    <3> QED
      BY <2>1
  <2> QED
    BY <1>7, <1>11, <2>1, <2>2 DEF n, pages
<1> QED
  BY <1>5, <1>6, <1>8, <1>9, <1>10, <1>11, Zenon DEF GrowPdf

\* The elements an EPUB grows by are typed.
LEMMA ElementsTyped ==
  ASSUME NEW at \in Nat, NEW element \in Elements(at)
  PROVE  element \in XhtmlEvents
<1> DEFINE E == TagEvents \cup TextEvents
           two == at + 1
           three == at + 2
<1>1. ASSUME NEW tag \in FileTags PROVE OpenTag(tag) \in E /\ CloseTag(tag) \in E
  BY DEF OpenTag, CloseTag, TagEvents
<1>2. ASSUME NEW w \in FileWords, NEW place \in Nat PROVE Words(w, place) \in E
  <2> DEFINE one == Fragment(w, place)
             text == <<one>>
  <2>1. one \in Fragments
    BY DEF Fragment, Fragments
  <2> HIDE DEF one
  <2>2. text \in Texts
    BY <2>1 DEF Texts
  <2>3. Words(w, place) = [type |-> "text", text |-> text]
    BY DEF Words, one
  <2> HIDE DEF text
  <2> QED
    BY <2>2, <2>3 DEF TextEvents
<1>3. two \in Nat /\ three \in Nat
  OBVIOUS
<1> HIDE DEF E, two, three
<1>4. ASSUME NEW a \in E, NEW b \in E, NEW c \in E PROVE <<a, b, c>> \in Seq(E)
  OBVIOUS
<1>5. ASSUME NEW a \in E, NEW b \in E PROVE <<a, b>> \in Seq(E)
  OBVIOUS
<1>6. ASSUME NEW a \in E, NEW b \in E, NEW c \in E, NEW d \in E, NEW e \in E, NEW f \in E, NEW g \in E
      PROVE  <<a, b, c, d, e, f, g>> \in Seq(E)
  OBVIOUS
<1>7. /\ {"p", "h1", "h2", "li"} \subseteq FileTags /\ {"dog", "12"} \subseteq FileWords
      /\ "p" \in FileTags /\ "blockquote" \in FileTags /\ "script" \in FileTags
      /\ "dog" \in FileWords /\ "extra-" \in FileWords
  BY DEF FileTags, FileWords
<1>8. ASSUME NEW tag \in {"p", "h1", "h2", "li"}, NEW w \in {"dog", "12"},
             element = <<OpenTag(tag), Words(w, at), CloseTag(tag)>>
      PROVE  element \in Seq(E)
  BY <1>1, <1>2, <1>4, <1>7, <1>8
<1>9. ASSUME element = <<OpenTag("p"), Words("extra-", at), CloseTag("p")>>
      PROVE  element \in Seq(E)
  BY <1>1, <1>2, <1>4, <1>7, <1>9
<1>10. ASSUME element = <<OpenTag("blockquote"), Words("dog", at), OpenTag("p"), Words("dog", two),
                          CloseTag("p"), Words("dog", three), CloseTag("blockquote")>>
       PROVE  element \in Seq(E)
  BY <1>1, <1>2, <1>3, <1>6, <1>7, <1>10
<1>11. ASSUME element = <<OpenTag("p"), Words("dog", at), OpenTag("script"), Words("dog", two),
                          CloseTag("script"), Words("dog", three), CloseTag("p")>>
       PROVE  element \in Seq(E)
  BY <1>1, <1>2, <1>3, <1>6, <1>7, <1>11
<1>12. ASSUME element = <<OpenTag("p"), CloseTag("p")>> PROVE element \in Seq(E)
  BY <1>1, <1>5, <1>7, <1>12
<1>13. element \in Seq(E)
  BY <1>8, <1>9, <1>10, <1>11, <1>12 DEF Elements, two, three
<1> QED
  BY <1>13 DEF XhtmlEvents, E

\* A larger EPUB is typed.
LEMMA EpubGrows ==
  ASSUME input \in FileInputs, GrowEpub
  PROVE  input' \in FileInputs
<1> DEFINE spine == input.spine
           m == Len(spine)
<1>1. spine \in Seq(SpineItems) /\ input.used \in Nat /\ m \in Nat /\ input.entries \in Seq(EntryRows)
  BY DEF FileInputs
<1>2. ASSUME NEW listed \in BOOLEAN, NEW inside \in BOOLEAN, NEW present \in BOOLEAN, NEW size \in Nat
      PROVE  SpineItem(listed, inside, present, size) \in SpineItems
  <2> DEFINE none == <<>>
             entry == [present |-> present, size |-> size]
  <2>1. none \in XhtmlEvents
    BY DEF XhtmlEvents
  <2>2. entry \in [present : BOOLEAN, size : Nat]
    OBVIOUS
  <2>3. SpineItem(listed, inside, present, size) =
            [listed |-> listed, inside |-> inside, events |-> none, entry |-> entry]
    BY DEF SpineItem
  <2> HIDE DEF none, entry
  <2> QED
    BY <2>1, <2>2, <2>3 DEF SpineItems
<1>3. ASSUME NEW item \in {SpineItem(TRUE, TRUE, TRUE, 1), SpineItem(FALSE, TRUE, TRUE, 1),
                           SpineItem(TRUE, FALSE, TRUE, 1), SpineItem(TRUE, TRUE, FALSE, 1),
                           SpineItem(TRUE, TRUE, TRUE, 3)},
             input' = [input EXCEPT !.spine = Append(@, item)]
      PROVE  input' \in FileInputs
  <2> DEFINE new == Append(spine, item)
  <2>1. item \in SpineItems
    BY <1>2
  <2>2. new \in Seq(SpineItems)
    BY <1>1, <2>1
  <2>3. input' = [input EXCEPT !.spine = new]
    BY <1>3
  <2> HIDE DEF new
  <2> QED
    BY <2>2, <2>3, FileChanges
<1>4. ASSUME spine # <<>>, NEW element \in Elements(input.used + 1),
             input' = [input EXCEPT !.used = @ + 3, !.spine[Len(input.spine)].events = @ \o element]
      PROVE  input' \in FileInputs
  <2> DEFINE at == input.used + 1
             used == input.used + 3
             item == spine[m]
             events == item.events \o element
             larger == [item EXCEPT !.events = events]
             new == [spine EXCEPT ![m] = larger]
  <2>1. at \in Nat /\ used \in Nat
    BY <1>1
  <2>2. element \in XhtmlEvents
    <3> HIDE DEF at
    <3>1. element \in Elements(at)
      BY <1>4 DEF at
    <3> QED
      BY <2>1, <3>1, ElementsTyped
  <2>3. item \in SpineItems /\ m \in DOMAIN spine
    BY <1>1, <1>4
  <2>4. input' = [input EXCEPT !.used = used, !.spine = new]
    BY <1>4
  <2> HIDE DEF item
  <2>5. item.events \in XhtmlEvents
    BY <2>3 DEF SpineItems
  <2>6. events \in XhtmlEvents
    BY <2>2, <2>5 DEF XhtmlEvents
  <2> HIDE DEF events
  <2>7. larger \in SpineItems
    BY <2>3, <2>6 DEF SpineItems
  <2> HIDE DEF larger
  <2>8. new \in Seq(SpineItems)
    BY <1>1, <2>3, <2>7
  <2> HIDE DEF new, used
  <2> DEFINE file == [input EXCEPT !.used = used]
  <2>9. file \in FileInputs
    BY <2>1, FileChanges
  <2>10. input' = [file EXCEPT !.spine = new]
    BY <2>4
  <2> HIDE DEF file
  <2> QED
    BY <2>8, <2>9, <2>10, FileChanges
<1>5. ASSUME NEW size \in {1, 3}, NEW safe \in BOOLEAN,
             input' = [input EXCEPT !.entries = Append(@, [size |-> size, safe |-> safe])]
      PROVE  input' \in FileInputs
  <2> DEFINE entry == [size |-> size, safe |-> safe]
             new == Append(input.entries, entry)
  <2>1. entry \in EntryRows
    BY DEF EntryRows
  <2>2. input' = [input EXCEPT !.entries = new]
    BY <1>5
  <2> HIDE DEF entry
  <2>3. new \in Seq(EntryRows)
    BY <1>1, <2>1
  <2> HIDE DEF new
  <2> QED
    BY <2>2, <2>3, FileChanges
<1>6. ASSUME \/ input' = [input EXCEPT !.rootfile = FALSE]
             \/ input' = [input EXCEPT !.package = FALSE]
             \/ input' = [input EXCEPT !.sniffed = "zip"]
      PROVE  input' \in FileInputs
  BY <1>6, FileChanges DEF Formats
<1> QED
  BY <1>3, <1>4, <1>5, <1>6, Zenon DEF GrowEpub

\* A larger image set is typed.
LEMMA ImagesGrow ==
  ASSUME input \in FileInputs, GrowImageSet
  PROVE  input' \in FileInputs
<1>1. input.frames \in Seq(ImageFrames) /\ input.used \in Nat
  BY DEF FileInputs
<1>2. ASSUME NEW scan \in Scans(input.used + 1), NEW image \in {"fine", "corrupt", "huge"},
             input' = [input EXCEPT !.used = @ + 1,
                          !.frames = Append(@, [image |-> image, scan |-> scan])]
      PROVE  input' \in FileInputs
  <2> DEFINE used == input.used + 1
             frame == [image |-> image, scan |-> scan]
             new == Append(input.frames, frame)
  <2>1. used \in Nat
    BY <1>1
  <2>2. scan \in ScanRows
    <3> HIDE DEF used
    <3>1. scan \in Scans(used)
      BY <1>2 DEF used
    <3> QED
      BY <2>1, <3>1, ScansTyped
  <2>3. frame \in ImageFrames
    BY <2>2 DEF ImageFrames
  <2>4. input' = [input EXCEPT !.used = used, !.frames = new]
    BY <1>2
  <2> HIDE DEF frame
  <2>5. new \in Seq(ImageFrames)
    BY <1>1, <2>3
  <2> HIDE DEF new, used
  <2> DEFINE file == [input EXCEPT !.used = used]
  <2>6. file \in FileInputs
    BY <2>1, FileChanges
  <2>7. input' = [file EXCEPT !.frames = new]
    BY <2>4
  <2> HIDE DEF file
  <2> QED
    BY <2>5, <2>6, <2>7, FileChanges
<1>3. ASSUME input' = [input EXCEPT !.available = FALSE] PROVE input' \in FileInputs
  BY <1>3, FileChanges
<1> QED
  BY <1>2, <1>3, Zenon DEF GrowImageSet

\* An empty file is typed.
LEMMA EmptyFileTyped ==
  ASSUME NEW kind \in FileKinds
  PROVE  File(kind) \in FileInputs
<1> DEFINE none == <<>>
<1>1. none \in Seq(PdfPages) /\ none \in Seq(ImageFrames) /\ none \in Seq(SpineItems) /\ none \in Seq(EntryRows)
  OBVIOUS
<1>2. File(kind) = [kind |-> kind, small |-> TRUE, opens |-> "ok", sniffed |-> kind,
               declared |-> kind, available |-> TRUE, used |-> 0,
               pages |-> none, frames |-> none, spine |-> none, entries |-> none,
               rootfile |-> TRUE, package |-> TRUE]
  BY DEF File
<1> HIDE DEF none
<1> QED
  BY <1>1, <1>2 DEF FileInputs, Formats, Openings

\* The shapes of the paragraphs are typed.
LEMMA ProseTyped ==
  ASSUME NEW shape \in ParagraphShapes, NEW n \in Nat
  PROVE  [shape EXCEPT !.id = n] \in ProseRows /\ [shape EXCEPT !.id = n].id = n
<1> DEFINE none == <<>>
           ann == <<"ann">>
           carter == <<"ann", "carter">>
           bob == <<"bob">>
           he == <<"he">>
           manor == <<"manor">>
           W == Seq(ProseWords)
           K == Seq({"FAMILY", "RIVALRY"})
           family == <<"FAMILY">>
           rivalry == <<"RIVALRY">>
           both == <<"FAMILY", "RIVALRY">>
<1>1. ann \in W /\ carter \in W /\ bob \in W /\ he \in W /\ manor \in W
  BY DEF ProseWords
<1>2. none \in K /\ family \in K /\ rivalry \in K /\ both \in K /\ none \in Seq(W)
  OBVIOUS
<1> HIDE DEF ann, carter, bob, he, manor, none, family, rivalry, both, W, K
<1>3. ProseRows = [id : Nat, names : Seq(W), tags : Seq(W), claims : K,
                   nouns : SUBSET {"manor"}, break : BOOLEAN, first : Nat, third : Nat]
  BY DEF ProseRows, ProseNames, W, K
<1>4. ASSUME NEW names \in Seq(W), NEW tags \in Seq(W), NEW claims \in K
      PROVE  Tells(names, tags, claims) \in ProseRows
  <2> DEFINE all == names \o tags
             S == Seq(W)
  <2>1. all \in S /\ tags \in S
    OBVIOUS
  <2>2. Tells(names, tags, claims) =
            [id |-> 0, names |-> all, tags |-> tags, claims |-> claims, nouns |-> {},
             break |-> FALSE, first |-> 0, third |-> 1]
    BY DEF Tells
  <2>3. ProseRows = [id : Nat, names : S, tags : S, claims : K,
                     nouns : SUBSET {"manor"}, break : BOOLEAN, first : Nat, third : Nat]
    BY <1>3
  <2> HIDE DEF all, S
  <2> QED
    BY <2>1, <2>2, <2>3
<1>5. <<ann>> \in Seq(W) /\ <<carter>> \in Seq(W) /\ <<bob>> \in Seq(W) /\ <<he>> \in Seq(W)
      /\ <<manor>> \in Seq(W)
  BY <1>1
<1> DEFINE R == ProseRows
<1>6. \A r \in R : /\ \A v \in Nat : [r EXCEPT !.first = v] \in R
                   /\ [r EXCEPT !.nouns = {"manor"}] \in R
                   /\ [r EXCEPT !.break = TRUE, !.third = 0] \in R
                   /\ [r EXCEPT !.id = n] \in R /\ [r EXCEPT !.id = n].id = n
  <2> DEFINE S == Seq(W)
  <2>1. R = [id : Nat, names : S, tags : S, claims : K,
             nouns : SUBSET {"manor"}, break : BOOLEAN, first : Nat, third : Nat]
    BY <1>3
  <2> HIDE DEF S, R
  <2> QED
    BY <2>1
<1> HIDE DEF R
<1>7. /\ Tells(<<ann>>, <<bob>>, family) \in R /\ Tells(<<carter>>, <<bob>>, both) \in R
      /\ Tells(<<bob>>, <<ann>>, rivalry) \in R /\ Tells(<<ann>>, <<he>>, family) \in R
      /\ Tells(<<carter>>, <<ann>>, family) \in R /\ Tells(<<manor>>, none, none) \in R
      /\ Tells(<<ann>>, none, none) \in R /\ Tells(none, none, none) \in R
  BY <1>2, <1>4, <1>5 DEF R
<1>8. shape \in R
  <2>1. shape \in { Tells(<<ann>>, <<bob>>, family), Tells(<<carter>>, <<bob>>, both),
                    Tells(<<bob>>, <<ann>>, rivalry), Tells(<<ann>>, <<he>>, family),
                    Tells(<<carter>>, <<ann>>, family),
                    [Tells(<<manor>>, none, none) EXCEPT !.first = 2],
                    [Tells(<<ann>>, none, none) EXCEPT !.nouns = {"manor"}],
                    [Tells(none, none, none) EXCEPT !.break = TRUE, !.third = 0] }
    BY Zenon DEF ParagraphShapes, ann, carter, bob, he, manor, none, family, rivalry, both
  <2>2. 2 \in Nat
    OBVIOUS
  <2>3. /\ [Tells(<<manor>>, none, none) EXCEPT !.first = 2] \in R
        /\ [Tells(<<ann>>, none, none) EXCEPT !.nouns = {"manor"}] \in R
        /\ [Tells(none, none, none) EXCEPT !.break = TRUE, !.third = 0] \in R
    BY <1>6, <1>7, <2>2, Zenon
  <2> QED
    BY <1>7, <2>1, <2>3, Zenon
<1> QED
  BY <1>6, <1>8 DEF R

\* Chapters grow by paragraphs.
LEMMA ChaptersGrow ==
  ASSUME input \in ChapterInputs, GrowChapters
  PROVE  input' \in ChapterInputs
<1> DEFINE old == input.chapters
           n == Len(old)
           used == input.used + 1
           T == Seq(Seq(ProseRows))
<1>1. /\ old \in T /\ input.used \in Nat /\ input.newest \in BOOLEAN /\ input.kind = "chapters"
      /\ NumberedTo(old, input.used)
      /\ input = [kind |-> "chapters", chapters |-> old, newest |-> input.newest, used |-> input.used]
  BY DEF ChapterInputs
<1>2. used \in Nat /\ n \in Nat /\ DOMAIN old = 1..n /\ \A c \in 1..n : old[c] \in Seq(ProseRows)
  BY <1>1
<1>3. PICK shape \in ParagraphShapes :
          LET paragraph == [shape EXCEPT !.id = used]
          IN \/ input' = [input EXCEPT !.used = @ + 1, !.chapters = Append(@, <<paragraph>>)]
             \/ /\ n > 0
                /\ input' = [input EXCEPT !.used = @ + 1, !.chapters[n] = Append(@, paragraph)]
  BY DEF GrowChapters
<1> DEFINE paragraph == [shape EXCEPT !.id = used]
<1>4. paragraph \in ProseRows /\ paragraph.id = used
  <2> HIDE DEF used
  <2> QED
    BY <1>2, ProseTyped
<1>5. \/ input' = [input EXCEPT !.used = used, !.chapters = Append(old, <<paragraph>>)]
      \/ n > 0 /\ input' = [input EXCEPT !.used = used,
                                !.chapters = [old EXCEPT ![n] = Append(old[n], paragraph)]]
  BY <1>3
<1> HIDE DEF paragraph
<1>6. /\ \A c \in 1..n : \A i \in DOMAIN old[c] : old[c][i].id <= input.used /\ old[c][i].id \in Nat
      /\ \A c \in 1..n : \A i, j \in DOMAIN old[c] : i < j => old[c][i].id < old[c][j].id
      /\ \A c, d \in 1..n : \A i \in DOMAIN old[c], j \in DOMAIN old[d] :
             c < d => old[c][i].id < old[d][j].id
  <2>1. ASSUME NEW c \in 1..n, NEW i \in DOMAIN old[c] PROVE old[c][i].id \in Nat
    <3> DEFINE p == old[c][i]
    <3>1. p \in ProseRows
      BY <1>2
    <3> HIDE DEF p
    <3>2. p.id \in Nat
      BY <3>1 DEF ProseRows
    <3> QED
      BY <3>2 DEF p
  <2> QED
    BY <1>1, <1>2, <2>1 DEF NumberedTo
<1>7. \A c \in 1..n : \A i \in DOMAIN old[c] : old[c][i].id < used /\ old[c][i].id <= used
  BY <1>1, <1>6
<1>8. ASSUME NEW new \in T, NumberedTo(new, used), input' = [input EXCEPT !.used = used, !.chapters = new]
      PROVE  input' \in ChapterInputs
  <2> HIDE DEF T, old, used
  <2>1. input' = [kind |-> "chapters", chapters |-> new, newest |-> input.newest, used |-> used]
    BY <1>1, <1>8
  <2>2. input' \in [kind : {"chapters"}, chapters : T, newest : BOOLEAN, used : Nat]
    BY <1>1, <1>2, <2>1
  <2>3. input'.chapters = new /\ input'.used = used
    BY <2>1
  <2> QED
    BY <1>8, <2>2, <2>3 DEF ChapterInputs, T
<1> HIDE DEF used
<1>9. CASE input' = [input EXCEPT !.used = used, !.chapters = Append(old, <<paragraph>>)]
  <2> DEFINE one == <<paragraph>>
             new == Append(old, one)
  <2>1. one \in Seq(ProseRows) /\ DOMAIN one = {1} /\ one[1] = paragraph
    BY <1>4
  <2> HIDE DEF one
  <2>2. new \in T /\ DOMAIN new = 1..(n + 1) /\ new[n + 1] = one /\ \A c \in 1..n : new[c] = old[c]
    BY <1>1, <1>2, <2>1
  <2> HIDE DEF new, old, n, T
  <2>3. \A c \in 1..(n + 1) : c \in 1..n \/ c = n + 1
    BY <1>2
  <2>4. NumberedTo(new, used)
    <3>1. ASSUME NEW c \in 1..(n + 1), NEW i \in DOMAIN new[c]
          PROVE  new[c][i].id <= used
      BY <1>2, <1>4, <1>7, <2>1, <2>2, <2>3
    <3>2. ASSUME NEW c \in 1..(n + 1), NEW i \in DOMAIN new[c], NEW j \in DOMAIN new[c], i < j
          PROVE  new[c][i].id < new[c][j].id
      BY <1>6, <2>1, <2>2, <2>3, <3>2
    <3>3. ASSUME NEW c \in 1..(n + 1), NEW d \in 1..(n + 1), NEW i \in DOMAIN new[c], NEW j \in DOMAIN new[d], c < d
          PROVE  new[c][i].id < new[d][j].id
      <4>1. c \in 1..n
        BY <1>2, <3>3
      <4>2. CASE d \in 1..n
        BY <1>6, <2>2, <3>3, <4>1, <4>2
      <4>3. CASE d = n + 1
        BY <1>4, <1>7, <2>1, <2>2, <4>1, <4>3
      <4> QED
        BY <2>3, <4>2, <4>3
    <3> QED
      BY <2>2, <3>1, <3>2, <3>3 DEF NumberedTo
  <2> QED
    BY <1>8, <1>9, <2>2, <2>4 DEF new, one
<1>10. CASE n > 0 /\ input' = [input EXCEPT !.used = used,
                                  !.chapters = [old EXCEPT ![n] = Append(old[n], paragraph)]]
  <2> DEFINE m == Len(old[n])
             more == Append(old[n], paragraph)
             new == [old EXCEPT ![n] = more]
  <2>1. n \in 1..n /\ old[n] \in Seq(ProseRows)
    BY <1>2, <1>10
  <2>2. /\ more \in Seq(ProseRows) /\ m \in Nat /\ DOMAIN old[n] = 1..m /\ DOMAIN more = 1..(m + 1)
        /\ more[m + 1] = paragraph /\ \A i \in 1..m : more[i] = old[n][i]
    BY <1>4, <2>1
  <2> HIDE DEF more, m
  <2>3. new \in T /\ DOMAIN new = 1..n /\ new[n] = more /\ \A c \in 1..n : c # n => new[c] = old[c]
    BY <1>1, <1>2, <2>1, <2>2
  <2> HIDE DEF new, old, n, T
  <2>4. \A i \in 1..(m + 1) : i \in 1..m \/ i = m + 1
    BY <2>2
  <2>5. NumberedTo(new, used)
    <3>1. ASSUME NEW i \in 1..(m + 1)
          PROVE  more[i].id <= used /\ (i \in 1..m => more[i].id < used)
      BY <1>2, <1>4, <1>7, <2>1, <2>2, <2>4
    <3>2. ASSUME NEW c \in 1..n, NEW i \in DOMAIN new[c] PROVE new[c][i].id <= used
      BY <1>7, <2>2, <2>3, <3>1
    <3>3. ASSUME NEW i \in 1..(m + 1), NEW j \in 1..(m + 1), i < j
          PROVE  more[i].id < more[j].id
      <4>1. i \in 1..m
        BY <2>2, <3>3
      <4>2. CASE j = m + 1
        BY <1>4, <2>2, <3>1, <4>1, <4>2
      <4>3. CASE j \in 1..m
        BY <1>6, <2>1, <2>2, <3>3, <4>1, <4>3
      <4> QED
        BY <2>4, <4>2, <4>3
    <3>4. ASSUME NEW c \in 1..n, NEW i \in DOMAIN new[c], NEW j \in DOMAIN new[c], i < j
          PROVE  new[c][i].id < new[c][j].id
      BY <1>6, <2>2, <2>3, <3>3, <3>4
    <3>5. ASSUME NEW c \in 1..n, NEW d \in 1..n, NEW i \in DOMAIN new[c], NEW j \in DOMAIN new[d], c < d
          PROVE  new[c][i].id < new[d][j].id
      <4>1. c # n /\ new[c] = old[c] /\ i \in DOMAIN old[c]
        BY <1>2, <2>3, <3>5
      <4>2. CASE d # n
        BY <1>6, <2>3, <3>5, <4>1, <4>2
      <4>3. CASE d = n
        <5>1. j \in 1..(m + 1) /\ new[d][j] = more[j]
          BY <2>2, <2>3, <4>3
        <5>2. CASE j = m + 1
          BY <1>4, <1>7, <2>2, <4>1, <5>1, <5>2
        <5>3. CASE j \in 1..m
          <6>1. more[j] = old[n][j] /\ j \in DOMAIN old[n]
            BY <2>2, <5>3
          <6> QED
            BY <1>6, <2>1, <3>5, <4>1, <4>3, <5>1, <6>1
        <5> QED
          BY <2>4, <5>1, <5>2, <5>3
      <4> QED
        BY <4>2, <4>3
    <3> QED
      BY <2>3, <3>2, <3>4, <3>5 DEF NumberedTo
  <2> QED
    BY <1>8, <1>10, <2>3, <2>5 DEF new, more
<1> QED
  BY <1>5, <1>9, <1>10

\* Typed chapters can be analysed.
LEMMA ChaptersCanBeAnalysed ==
  ASSUME NEW r \in ChapterInputs
  PROVE  ChaptersRise(r.chapters)
<1> DEFINE chapters == r.chapters
<1>1. chapters \in Seq(Seq(ProseRows)) /\ NumberedTo(chapters, r.used)
  BY DEF ChapterInputs
<1> HIDE DEF chapters
<1>2. Len(chapters) \in Nat /\ DOMAIN chapters = 1..Len(chapters)
      /\ \A c \in DOMAIN chapters : chapters[c] \in Seq(ProseRows)
  BY <1>1
<1>3. ASSUME NEW c \in DOMAIN chapters
      PROVE  IdsRise(chapters[c]) /\ \A i \in DOMAIN chapters[c] : IsList(chapters[c][i].claims)
  <2>1. ASSUME NEW i \in DOMAIN chapters[c]
        PROVE  chapters[c][i].id \in Int /\ IsList(chapters[c][i].claims)
    <3> DEFINE p == chapters[c][i]
    <3>1. p \in ProseRows
      BY <1>2
    <3> HIDE DEF p
    <3>2. p.id \in Nat /\ p.claims \in Seq({"FAMILY", "RIVALRY"})
      BY <3>1 DEF ProseRows
    <3>3. p.id \in Int /\ IsList(p.claims)
      BY <3>2, SeqIsList
    <3> QED
      BY <3>3 DEF p
  <2>2. IsList(chapters[c])
    BY <1>2, SeqIsList
  <2> QED
    BY <1>1, <2>1, <2>2 DEF IdsRise, NumberedTo
<1>4. ChaptersRise(chapters)
  BY <1>1, <1>2, <1>3 DEF ChaptersRise, NumberedTo
<1> QED
  BY <1>4 DEF chapters

\* The smallest inputs are typed.
LEMMA InitTyped == InputInit => InputTyped
<1> SUFFICES ASSUME InputInit PROVE InputTyped
  OBVIOUS
<1>1. ASSUME NEW kind \in FileKinds, input = File(kind)
      PROVE  InputTyped
  <2>1. input \in FileInputs /\ input.kind = kind
    BY <1>1, EmptyFileTyped DEF File
  <2>2. "kind" \in DOMAIN input
    BY <1>1 DEF File
  <2> QED
    BY <2>1, <2>2 DEF InputTyped, FileKinds
<1>2. NoFacts \in Snapshots({"ann"})
  <2> DEFINE J == [n \in ToSet(Stages) |-> {}]
             V == [c \in {"ann"} |-> "none"]
  <2>3. J \in [ToSet(Stages) -> SUBSET JobStatuses] /\ V \in [{"ann"} -> Approvals \cup {"none"}]
    OBVIOUS
  <2>4. NoFacts = [jobs |-> J, encodes |-> {}, version |-> "none", pagesOk |-> 0, pagesReview |-> 0,
     pagesTotal |-> -1, scenes |-> 0, semantics |-> 0, script |-> "none", chunks |-> 0,
     audioDone |-> 0, chapters |-> 0, assembled |-> 0, elapsed |-> 5, book |-> "CREATED",
     lastParse |-> "none", voices |-> V, audiobook |-> "none", outdated |-> FALSE]
    BY DEF NoFacts
  <2> HIDE DEF J, V
  <2> QED
    BY <2>3, <2>4 DEF Snapshots, BookStatuses
<1>3. ASSUME input = [kind |-> "snapshot", facts |-> NoFacts, used |-> 0]
      PROVE  InputTyped
  BY <1>2, <1>3 DEF InputTyped, SnapshotInputs
<1>4. ASSUME NEW voices \in SUBSET {"ann", Narrator},
             input = [kind |-> "scene", spans |-> <<>>, text |-> <<>>, voices |-> voices]
      PROVE  InputTyped
  BY <1>4 DEF InputTyped, SceneInputs
<1>5. ASSUME input = [kind |-> "request", cues |-> {}, engine |-> Engine, declared |-> "none",
                      hints |-> {}]
      PROVE  InputTyped
  <2>1. Engine \in Engines
    BY DEF Engine, Engines
  <2> QED
    BY <1>5, <2>1 DEF InputTyped, RequestInputs
<1>6. ASSUME NEW rate \in 1..2, NEW channels \in 1..2, NEW chars \in {0, 1, 3},
             input = [kind |-> "sound", samples |-> <<>>, chars |-> chars,
                      format |-> [rate |-> rate, channels |-> channels]]
      PROVE  InputTyped
  <2>1. [rate |-> rate, channels |-> channels] \in [rate : Nat, channels : Nat]
    OBVIOUS
  <2> QED
    BY <1>6, <2>1 DEF InputTyped, SoundInputs
<1>7. ASSUME NEW newest \in BOOLEAN,
             input = [kind |-> "chapters", chapters |-> <<>>, newest |-> newest, used |-> 0]
      PROVE  InputTyped
  <2>1. NumberedTo(<<>>, 0) /\ <<>> \in Seq(Seq(ProseRows))
    BY DEF NumberedTo
  <2>2. input \in ChapterInputs
    BY <1>7, <2>1 DEF ChapterInputs
  <2> QED
    BY <1>7, <2>2 DEF InputTyped
<1>8. ASSUME input = [kind |-> "paragraph", text |-> <<>>] PROVE InputTyped
  BY <1>8 DEF InputTyped, ParagraphInputs
<1>9. ASSUME input = [kind |-> "cover", length |-> 3, spans |-> <<>>] PROVE InputTyped
  BY <1>9 DEF InputTyped, CoverInputs
<1>10. ASSUME NEW flushed \in BOOLEAN, input = [kind |-> "take", levels |-> <<>>, flushed |-> flushed]
       PROVE  InputTyped
  BY <1>10 DEF InputTyped, TakeInputs
<1>11. ASSUME input = [kind |-> "book", book |-> <<>>] PROVE InputTyped
  BY <1>11 DEF InputTyped, BookInputs
<1> QED
  BY <1>1, <1>3, <1>4, <1>5, <1>6, <1>7, <1>8, <1>9, <1>10, <1>11 DEF InputInit, FileKinds

\* Whatever is learnt of a book, the result is a snapshot of it.
LEMMA GrownTyped ==
  ASSUME input.facts \in Snapshots({"ann"}), GrowSnapshot
  PROVE  \E g \in Snapshots({"ann"}) : Learns(g)
<1> DEFINE f == input.facts
<1> HIDE DEF f
<1>0. f \in Snapshots({"ann"})
  BY DEF f
<1> USE <1>0
<1>1. ASSUME NEW n \in ToSet(Stages), NEW status \in JobStatuses
      PROVE  [f EXCEPT !.jobs[n] = @ \cup {status}] \in Snapshots({"ann"})
  <2> DEFINE jobs == [f.jobs EXCEPT ![n] = @ \cup {status}]
  <2>1. jobs \in [ToSet(Stages) -> SUBSET JobStatuses]
    BY DEF Snapshots
  <2>2. [f EXCEPT !.jobs[n] = @ \cup {status}] = [f EXCEPT !.jobs = jobs]
    OBVIOUS
  <2> HIDE DEF jobs
  <2> QED
    BY <2>1, <2>2 DEF Snapshots
<1>11. ASSUME NEW status \in JobStatuses
       PROVE  [f EXCEPT !.encodes = @ \cup {status}] \in Snapshots({"ann"})
  BY DEF Snapshots
<1>2. ASSUME NEW v \in {"READY", "PARTIAL_OCR", "NEEDS_REVIEW", "FAILED"}
      PROVE  [f EXCEPT !.version = v, !.pagesTotal = 2] \in Snapshots({"ann"})
  BY DEF Snapshots
<1>3. [f EXCEPT !.script = "VALIDATED"] \in Snapshots({"ann"})
  BY DEF Snapshots
<1>4. ASSUME NEW c \in Counters, NEW k \in {1, Almost} PROVE [f EXCEPT ![c] = @ + k] \in Snapshots({"ann"})
  <2>1. f[c] \in Nat /\ k \in Nat
    BY DEF Snapshots, Counters, Almost, Full
  <2>2. ASSUME NEW m \in Nat PROVE [f EXCEPT ![c] = m] \in Snapshots({"ann"})
    BY DEF Snapshots, Counters
  <2> QED
    BY <2>1, <2>2
<1>5. ASSUME NEW b \in BookStatuses PROVE [f EXCEPT !.book = b] \in Snapshots({"ann"})
  BY DEF Snapshots
<1>6. ASSUME NEW v \in Approvals PROVE [f EXCEPT !.voices["ann"] = v] \in Snapshots({"ann"})
  <2> DEFINE voices == [f.voices EXCEPT !["ann"] = v]
  <2>1. voices \in [{"ann"} -> Approvals \cup {"none"}]
    BY DEF Snapshots
  <2>2. [f EXCEPT !.voices["ann"] = v] = [f EXCEPT !.voices = voices]
    OBVIOUS
  <2> HIDE DEF voices
  <2> QED
    BY <2>1, <2>2 DEF Snapshots
<1>7. ASSUME NEW a \in {"DRAFT_METADATA", "ASSEMBLING", "READY", "FAILED"}, NEW o \in BOOLEAN
      PROVE  [f EXCEPT !.audiobook = a, !.outdated = o] \in Snapshots({"ann"})
  <2> DEFINE g == [f EXCEPT !.audiobook = a]
  <2>1. g \in Snapshots({"ann"})
    BY DEF Snapshots
  <2>2. [f EXCEPT !.audiobook = a, !.outdated = o] = [g EXCEPT !.outdated = o]
    OBVIOUS
  <2> HIDE DEF g
  <2>3. [g EXCEPT !.outdated = o] \in Snapshots({"ann"})
    BY <2>1 DEF Snapshots
  <2> QED
    BY <2>2, <2>3
<1>8. {"PARSING", "NEEDS_REVIEW", "GENERATING", "FAILED"} \subseteq BookStatuses
  BY DEF BookStatuses
<1>9. {"APPROVED", "LOCKED", "RETIRED"} \subseteq Approvals
  BY DEF Approvals
<1>10. \E g \in Snapshots({"ann"}) : Learns(g)
  BY <1>1, <1>2, <1>3, <1>4, <1>5, <1>6, <1>7, <1>8, <1>9, <1>11, Zenon DEF GrowSnapshot, f
<1> QED
  BY <1>10

\* A book grows by chapters and by chunks.
LEMMA BookGrows ==
  ASSUME input.book \in Seq(ChapterRows), GrowBook
  PROVE  \E book \in Seq(ChapterRows) : input' = [input EXCEPT !.book = book]
<1>1. ChunkShapes \subseteq ChunkRows
  <2> DEFINE short == <<4, 4>>
             long == <<0, 0, 4, 4, 4, 4, 0, 0>>
             lead == Pause("LEADING", 1)
             inner == Pause("OFFSET", 2)
             trail == Pause("TRAILING", 1)
             pauses == <<lead, inner, trail>>
  <2>1. short \in Seq(Nat) /\ long \in Seq(Nat)
    OBVIOUS
  <2>2. lead \in PauseRows /\ inner \in PauseRows /\ trail \in PauseRows
    BY DEF Pause, PauseRows
  <2> HIDE DEF short, long, lead, inner, trail
  <2>3. pauses \in Seq(PauseRows) /\ <<>> \in Seq(PauseRows)
    BY <2>2
  <2> HIDE DEF pauses
  <2>4. ChunkShapes = {[levels |-> l, pauses |-> p] : l \in {short, long}, p \in {<<>>, pauses}}
    BY DEF ChunkShapes, short, long, pauses, lead, inner, trail
  <2>5. ASSUME NEW l \in {short, long}, NEW p \in {<<>>, pauses}
        PROVE  [levels |-> l, pauses |-> p] \in ChunkRows
    <3>1. l \in Seq(Nat) /\ p \in Seq(PauseRows)
      BY <2>1, <2>3
    <3> QED
      BY <3>1 DEF ChunkRows
  <2> QED
    BY <2>4, <2>5
<1>2. PICK chunk \in ChunkShapes :
         \/ \E loudness \in {18, 20, 23} :
                input' = [input EXCEPT !.book =
                    Append(@, [chunks |-> <<chunk>>, loudness |-> loudness])]
         \/ /\ input.book # <<>>
            /\ input' = [input EXCEPT !.book[Len(input.book)].chunks = Append(@, chunk)]
  BY DEF GrowBook
<1>3. chunk \in ChunkRows
  BY <1>1
<1> HIDE DEF ChunkShapes
<1> DEFINE old == input.book
           n == Len(old)
<1>4. ASSUME NEW loudness \in {18, 20, 23},
             input' = [input EXCEPT !.book = Append(@, [chunks |-> <<chunk>>, loudness |-> loudness])]
      PROVE  \E book \in Seq(ChapterRows) : input' = [input EXCEPT !.book = book]
  <2> DEFINE chapter == [chunks |-> <<chunk>>, loudness |-> loudness]
             book == Append(old, chapter)
  <2>1. <<chunk>> \in Seq(ChunkRows)
    BY <1>3
  <2>2. chapter \in ChapterRows
    BY <2>1 DEF ChapterRows
  <2>3. input' = [input EXCEPT !.book = book]
    BY <1>4
  <2> HIDE DEF chapter
  <2>4. book \in Seq(ChapterRows)
    BY <2>2
  <2> HIDE DEF book
  <2> QED
    BY <2>3, <2>4
<1>5. ASSUME old # <<>>,
             input' = [input EXCEPT !.book[Len(input.book)].chunks = Append(@, chunk)]
      PROVE  \E book \in Seq(ChapterRows) : input' = [input EXCEPT !.book = book]
  <2> DEFINE chunks == Append(old[n].chunks, chunk)
             chapter == [old[n] EXCEPT !.chunks = chunks]
             book == [old EXCEPT ![n] = chapter]
  <2>1. n \in DOMAIN old /\ old[n] \in ChapterRows
    BY <1>5
  <2>2. chunks \in Seq(ChunkRows)
    <3>1. old[n].chunks \in Seq(ChunkRows)
      BY <2>1 DEF ChapterRows
    <3> QED
      BY <1>3, <3>1
  <2>3. chapter \in ChapterRows
    <3> HIDE DEF chunks
    <3> QED
      BY <2>1, <2>2 DEF ChapterRows
  <2>4. input' = [input EXCEPT !.book = book]
    BY <1>5
  <2> HIDE DEF chapter
  <2>5. book \in Seq(ChapterRows)
    BY <2>1, <2>3
  <2> HIDE DEF book
  <2> QED
    BY <2>4, <2>5
<1> QED
  BY <1>2, <1>4, <1>5

\* A growing input keeps its type.
LEMMA GrowthTyped == InputTyped /\ [GrowInput]_input => InputTyped'
<1> SUFFICES ASSUME InputTyped, GrowInput PROVE InputTyped'
  BY DEF InputTyped
<1>14. ASSUME input.kind \in FileKinds, input' \in FileInputs PROVE InputTyped'
  <2>1. input'.kind \in FileKinds /\ "kind" \in DOMAIN input'
    BY <1>14 DEF FileInputs
  <2> QED
    BY <1>14, <2>1 DEF InputTyped, FileKinds
<1>2. CASE GrowPdf
  <2>1. input.kind \in FileKinds
    BY <1>2 DEF GrowPdf, FileKinds
  <2> QED
    BY <1>2, <1>14, <2>1, PdfGrows DEF InputTyped, FileKinds
<1>3. CASE GrowEpub
  <2>1. input.kind \in FileKinds
    BY <1>3 DEF GrowEpub, FileKinds
  <2> QED
    BY <1>3, <1>14, <2>1, EpubGrows DEF InputTyped, FileKinds
<1>4. CASE GrowImageSet
  <2>1. input.kind \in FileKinds
    BY <1>4 DEF GrowImageSet, FileKinds
  <2> QED
    BY <1>4, <1>14, <2>1, ImagesGrow DEF InputTyped, FileKinds
<1>5. CASE GrowChapters
  <2>1. input \in ChapterInputs
    BY <1>5 DEF InputTyped, GrowChapters
  <2>2. input' \in ChapterInputs
    BY <1>5, <2>1, ChaptersGrow
  <2>3. "kind" \in DOMAIN input' /\ input'.kind = "chapters"
    BY <2>2 DEF ChapterInputs
  <2> QED
    BY <2>2, <2>3 DEF InputTyped
<1>6. CASE GrowParagraph
  <2>1. input \in ParagraphInputs
    BY <1>6 DEF InputTyped, GrowParagraph
  <2>2. PICK c \in CharClasses : input' = [input EXCEPT !.text = Append(@, c)]
    BY <1>6 DEF GrowParagraph, CharClasses
  <2>3. Append(input.text, c) \in Seq(CharClasses)
    BY <2>1, <2>2 DEF ParagraphInputs
  <2>4. input' = [kind |-> "paragraph", text |-> Append(input.text, c)]
    BY <2>1, <2>2 DEF ParagraphInputs
  <2>5. input' \in ParagraphInputs
    BY <2>3, <2>4 DEF ParagraphInputs
  <2> QED
    BY <2>4, <2>5 DEF InputTyped
<1>7. CASE GrowCover
  <2>1. input \in CoverInputs
    BY <1>7 DEF InputTyped, GrowCover
  <2>2. PICK span \in SpanRows : input' = [input EXCEPT !.spans = Append(@, span)]
    <3>1. PICK s \in 0..input.length, e \in 0..input.length :
             input' = [input EXCEPT !.spans = Append(@, Piece(s, e, FALSE))]
      <4>1. input.length \in Nat
        BY <2>1 DEF CoverInputs
      <4>2. PICK s \in 0..input.length : \E e \in s..input.length :
               input' = [input EXCEPT !.spans = Append(@, Piece(s, e, FALSE))]
        BY <1>7 DEF GrowCover
      <4>3. s..input.length \subseteq 0..input.length
        BY <4>1
      <4> QED
        BY <4>2, <4>3
    <3>2. s \in Nat /\ e \in Nat
      BY <2>1 DEF CoverInputs
    <3>3. Piece(s, e, FALSE) \in SpanRows
      BY <3>2 DEF Piece, SpanRows
    <3> DEFINE span == Piece(s, e, FALSE)
    <3>4. span \in SpanRows /\ input' = [input EXCEPT !.spans = Append(@, span)]
      BY <3>1, <3>3
    <3> HIDE DEF span
    <3> QED
      BY <3>4
  <2>3. Append(input.spans, span) \in Seq(SpanRows)
    BY <2>1, <2>2 DEF CoverInputs
  <2>4. input' = [kind |-> "cover", length |-> input.length, spans |-> Append(input.spans, span)]
    BY <2>1, <2>2 DEF CoverInputs
  <2>5. input' \in CoverInputs
    BY <2>1, <2>3, <2>4 DEF CoverInputs
  <2> QED
    BY <2>4, <2>5 DEF InputTyped
<1>12. CASE GrowTake
  <2>1. input \in TakeInputs
    BY <1>12 DEF InputTyped, GrowTake
  <2>2. PICK s \in {0, 4} : input' = [input EXCEPT !.levels = Append(@, s)]
    BY <1>12 DEF GrowTake
  <2>3. Append(input.levels, s) \in Seq(Nat)
    BY <2>1, <2>2 DEF TakeInputs
  <2>4. input' = [kind |-> "take", levels |-> Append(input.levels, s), flushed |-> input.flushed]
    BY <2>1, <2>2 DEF TakeInputs
  <2>5. input' \in TakeInputs
    BY <2>1, <2>3, <2>4 DEF TakeInputs
  <2> QED
    BY <2>4, <2>5 DEF InputTyped
<1>13. CASE GrowBook
  <2>1. input \in BookInputs /\ input.book \in Seq(ChapterRows)
    BY <1>13 DEF InputTyped, GrowBook, BookInputs
  <2>2. \E book \in Seq(ChapterRows) : input' = [input EXCEPT !.book = book]
    BY <1>13, <2>1, BookGrows
  <2>3. PICK book \in Seq(ChapterRows) : input' = [input EXCEPT !.book = book]
    BY <2>2
  <2>4. input' = [kind |-> "book", book |-> book]
    BY <2>1, <2>3 DEF BookInputs
  <2>5. [kind |-> "book", book |-> book] \in BookInputs
    <3> DEFINE S == Seq(ChapterRows)
    <3>1. book \in S
      BY <2>3
    <3> HIDE DEF S
    <3>2. [kind |-> "book", book |-> book] \in [kind : {"book"}, book : S]
      BY <3>1
    <3> QED
      BY <3>2 DEF BookInputs, S
  <2>6. input' \in BookInputs /\ "kind" \in DOMAIN input' /\ input'.kind = "book"
    BY <2>4, <2>5
  <2> QED
    BY <2>6 DEF InputTyped
<1>8. CASE GrowScene
  <2>1. input \in SceneInputs
    BY <1>8 DEF InputTyped, GrowScene
  <2>2. PICK span \in DirectedSpans, text \in Seq(NameRows) :
            input' = [input EXCEPT !.spans = Append(@, span), !.text = text]
    <3>1. PICK shape \in SpanShapes, participants \in {{}, {"ann"}, {"ann", "bob"}}, fresh \in BOOLEAN :
             LET start == NextStart(input.spans, fresh)
                 paragraph == NextParagraph(input.spans, fresh)
             IN /\ fresh \/ input.spans # <<>>
                /\ input' = [input EXCEPT
                       !.spans = Append(@, SpanOf(shape, start, paragraph, participants)),
                       !.text = IF shape.form = "none" THEN @
                                ELSE Append(@, NameOf(shape, start, paragraph))]
      BY <1>8, Zenon DEF GrowScene
    <3> DEFINE start == NextStart(input.spans, fresh)
               paragraph == NextParagraph(input.spans, fresh)
               last == Last(input.spans)
               span == SpanOf(shape, start, paragraph, participants)
               name == NameOf(shape, start, paragraph)
    <3>2. /\ shape.dialogue \in BOOLEAN /\ shape.length \in Nat /\ shape.name \in NameWords
          /\ shape.form \in {"none", "named", "after", "before"} /\ shape.cues \in SUBSET CueWords
      <4>1. {} \in SUBSET CueWords /\ {"HAPPY", "GRIEF"} \in SUBSET CueWords /\ {"SAD"} \in SUBSET CueWords
        BY DEF CueWords
      <4> QED
        BY <4>1 DEF SpanShapes, NameWords
    <3>3. input.spans # <<>> => last.end \in Nat /\ last.paragraph \in Nat
      <4> SUFFICES ASSUME input.spans # <<>> PROVE last.end \in Nat /\ last.paragraph \in Nat
        OBVIOUS
      <4>1. last \in DirectedSpans
        BY <2>1 DEF SceneInputs, Last
      <4> HIDE DEF last
      <4> QED
        BY <4>1 DEF DirectedSpans
    <3>4. start \in Nat /\ paragraph \in Nat
      <4> HIDE DEF last
      <4> QED
        BY <3>1, <3>3 DEF last, NextStart, NextParagraph
    <3>5. participants \in SUBSET {"ann", "bob"}
      OBVIOUS
    <3> HIDE DEF start, paragraph
    <3>6. span \in DirectedSpans
      BY <3>2, <3>4, <3>5 DEF SpanOf, DirectedSpans
    <3>7. name \in NameRows
      BY <3>2, <3>4 DEF NameOf, NameRows
    <3>8. input' = [input EXCEPT !.spans = Append(@, span),
                                 !.text = IF shape.form = "none" THEN @ ELSE Append(@, name)]
      BY <3>1 DEF start, paragraph
    <3> HIDE DEF span, name
    <3> DEFINE text == IF shape.form = "none" THEN input.text ELSE Append(input.text, name)
    <3>9. text \in Seq(NameRows)
      BY <2>1, <3>7 DEF SceneInputs
    <3>10. input' = [input EXCEPT !.spans = Append(@, span), !.text = text]
      BY <3>8
    <3> HIDE DEF text
    <3> QED
      BY <3>6, <3>9, <3>10
  <2>3. Append(input.spans, span) \in Seq(DirectedSpans)
    BY <2>1, <2>2 DEF SceneInputs
  <2>4. input' = [kind |-> "scene", spans |-> Append(input.spans, span), text |-> text,
                  voices |-> input.voices]
    BY <2>1, <2>2 DEF SceneInputs
  <2>5. input' \in SceneInputs
    BY <2>1, <2>2, <2>3, <2>4 DEF SceneInputs
  <2> QED
    BY <2>4, <2>5 DEF InputTyped
<1>9. CASE GrowRequest
  <2>1. input \in RequestInputs
    BY <1>9 DEF InputTyped, GrowRequest
  <2>2. ASSUME NEW cue \in CueWords, input' = [input EXCEPT !.cues = @ \cup {cue}]
        PROVE  input' \in RequestInputs
    BY <2>1, <2>2 DEF RequestInputs
  <2>3. ASSUME NEW able \in {"emotion", "speed", "pitch", "phonemes", "ssml"},
               input' = [input EXCEPT !.engine[able] = TRUE]
        PROVE  input' \in RequestInputs
    <3>1. [input.engine EXCEPT ![able] = TRUE] \in Engines
      BY <2>1 DEF RequestInputs, Engines
    <3> QED
      BY <2>1, <2>3, <3>1 DEF RequestInputs
  <2>4. ASSUME NEW d \in {"NATIVE", "APPROXIMATED", "UNSUPPORTED"}, input' = [input EXCEPT !.declared = d]
        PROVE  input' \in RequestInputs
    BY <2>1, <2>4 DEF RequestInputs
  <2>5. ASSUME input' = [input EXCEPT !.hints = {"name"}]
        PROVE  input' \in RequestInputs
    BY <2>1, <2>5 DEF RequestInputs
  <2>6. input' \in RequestInputs
    <3>1. {"SHOUT", "WHISPER", "ANGRY", "GRIEF", "fast", "slow", "capitals", "SIGH"} \subseteq CueWords
      BY DEF CueWords
    <3> QED
      BY <1>9, <2>2, <2>3, <2>4, <2>5, <3>1 DEF GrowRequest
  <2>7. "kind" \in DOMAIN input' /\ input'.kind = "request"
    BY <2>6 DEF RequestInputs
  <2> QED
    BY <2>6, <2>7 DEF InputTyped
<1>10. CASE GrowSound
  <2>1. input \in SoundInputs
    BY <1>10 DEF InputTyped, GrowSound
  <2>2. PICK s \in {0, 2, 4, 8, NotANumber} : input' = [input EXCEPT !.samples = Append(@, s)]
    BY <1>10 DEF GrowSound
  <2>3. Append(input.samples, s) \in Seq(Nat \cup {NotANumber})
    BY <2>1, <2>2 DEF SoundInputs
  <2>4. input' = [kind |-> "sound", samples |-> Append(input.samples, s), chars |-> input.chars,
                  format |-> input.format]
    BY <2>1, <2>2 DEF SoundInputs
  <2>5. input' \in SoundInputs
    BY <2>1, <2>3, <2>4 DEF SoundInputs
  <2> QED
    BY <2>4, <2>5 DEF InputTyped
<1>11. CASE GrowSnapshot
  <2>1. input \in SnapshotInputs
    BY <1>11 DEF InputTyped, GrowSnapshot
  <2>2. PICK facts \in Snapshots({"ann"}) : Learns(facts)
    BY <1>11, <2>1, GrownTyped DEF SnapshotInputs
  <2>3. input' = [kind |-> "snapshot", facts |-> facts, used |-> input.used + 1]
    BY <2>1, <2>2 DEF Learns, SnapshotInputs
  <2>4. input.used + 1 \in Nat
    BY <2>1 DEF SnapshotInputs
  <2> QED
    BY <2>2, <2>3, <2>4 DEF InputTyped, SnapshotInputs
<1> QED
  BY <1>2, <1>3, <1>4, <1>5, <1>6, <1>7, <1>8, <1>9, <1>10, <1>11, <1>12, <1>13 DEF GrowInput

\* Every reachable input is typed.
THEOREM InputsAreTyped == InputSpec => []InputTyped
  BY InitTyped, GrowthTyped, PTL DEF InputSpec

\* What the studio is told (progress.service.ts, status.ts, generation.ts, assembly.service.ts)
\* agrees with the jobs and rows behind it, however many facts a snapshot has grown by.
THEOREM StagesAreTold == InputSpec => []StagesTold
<1>1. InputTyped => StagesTold
  <2> SUFFICES ASSUME InputTyped, input.kind = "snapshot" PROVE StagesTold
    BY DEF StagesTold
  <2>1. input.facts \in Snapshots({"ann"})
    BY DEF InputTyped, SnapshotInputs
  <2>2. FactsTold(input.facts, GetBookProgress(input.facts))
    BY <2>1, SnapshotIsTold
  <2> QED
    BY <2>2 DEF StagesTold
<1> QED
  BY <1>1, InputsAreTyped, PTL

\* No wish of the director is dropped silently by the negotiation with an engine
\* (capability.py), and audio is accepted only if it is speech of the kind asked for
\* (audio.py), for requests and answers of any size.
THEOREM SynthesisIsAccounted == InputSpec => []SynthesisAccounted
<1>1. InputTyped => SynthesisAccounted
  <2> SUFFICES ASSUME InputTyped PROVE SynthesisAccounted
    OBVIOUS
  <2>1. ASSUME input.kind = "sound"
        PROVE  SoundJudged(input.samples, input.format,
                           Verdict(input.samples, input.format, Mono, input.chars))
    <3>1. /\ input.samples \in Seq(Nat \cup {NotANumber})
          /\ input.format \in [rate : Nat, channels : Nat]
      BY <2>1 DEF InputTyped, SoundInputs
    <3> QED
      BY <3>1, SoundIsJudged
  <2> DEFINE intent == DecidePerformance(input.cues, -1, Narrator, NoState)
  <2>2. ASSUME input.kind = "request"
        PROVE  WishesAnswered(intent,
                   Negotiate(intent, input.hints, input.engine, input.declared, 1),
                   input.engine, input.declared, input.hints)
    <3>1. input.engine \in Engines
      BY <2>2 DEF InputTyped, RequestInputs
    <3>2. intent.emphasis \in BOOLEAN
      BY DEF DecidePerformance, DetectEmphasis
    <3>3. 1 \in Nat /\ 1 <= MaxChars
      BY MaxCharsPositive
    <3> DEFINE engine == input.engine
               length == 1
    <3>4. engine \in Engines /\ length \in Nat /\ length <= MaxChars
      BY <3>1, <3>3
    <3> HIDE DEF intent, engine, length
    <3>5. WishesAnswered(intent, Negotiate(intent, input.hints, engine, input.declared, length),
                         engine, input.declared, input.hints)
      BY <3>2, <3>4, WishesAreAnswered
    <3> QED
      BY <3>5 DEF engine, length
  <2> QED
    BY <2>1, <2>2 DEF SynthesisAccounted
<1> QED
  BY <1>1, InputsAreTyped, PTL

\* The director never passes a guess off as a fact (speaker_resolver.py, ir_builder.py) in any
\* of the scenes that grow, of whatever length.
THEOREM SpeechIsAccounted == InputSpec => []SpeechAccounted
<1>1. PICK C : Characters \in Seq(C)
  <2> DEFINE ann == [id |-> "ann", names |-> {"Ann", "Sis"}, merged |-> FALSE, sentinel |-> FALSE]
             cid == [id |-> "cid", names |-> {"Cid"}, merged |-> TRUE, sentinel |-> FALSE]
             bob == [id |-> "bob", names |-> {"Bob", "Sis"}, merged |-> FALSE, sentinel |-> FALSE]
             narrator == [id |-> Narrator, names |-> {"narrator"}, merged |-> FALSE, sentinel |-> TRUE]
  <2>1. Characters = <<ann, cid, bob, narrator>>
    BY DEF Characters
  <2> HIDE DEF ann, cid, bob, narrator
  <2>2. Characters \in Seq({ann, cid, bob, narrator})
    BY <2>1
  <2> QED
    BY <2>2
<1>2. SpeakersApart(Characters)
  <2>1. DOMAIN Characters = 1..4
    BY DEF Characters
  <2>2. /\ Characters[1].id = "ann" /\ Characters[2].id = "cid" /\ Characters[3].id = "bob"
        /\ Characters[4].id = Narrator /\ Characters[4].sentinel = TRUE
    BY DEF Characters
  <2>3. Narrator \notin {"ann", "bob", "cid"} /\ Unknown \notin {"ann", "bob", "cid"}
    BY SentinelsApart
  <2> QED
    BY <2>1, <2>2, <2>3 DEF SpeakersApart
<1>3. InputTyped => SpeechAccounted
  <2> SUFFICES ASSUME InputTyped, input.kind = "scene" PROVE SpeechAccounted
    BY DEF SpeechAccounted
  <2>1. input.spans \in Seq(DirectedSpans) /\ input.text \in Seq(NameRows)
    BY DEF InputTyped, SceneInputs
  <2>2. \A i \in DOMAIN input.spans : input.spans[i].dialogue \in BOOLEAN
    <3> SUFFICES ASSUME NEW i \in DOMAIN input.spans PROVE input.spans[i].dialogue \in BOOLEAN
      OBVIOUS
    <3>1. input.spans[i] \in DirectedSpans
      BY <2>1
    <3> QED
      BY <3>1 DEF DirectedSpans
  <2>3. ChapterAccounted(Characters, input.text, input.spans,
            DirectChapter([known |-> LoadSpeakerRegistry(Characters), text |-> input.text,
                           lexicon |-> {"Bob"}, bindings |-> [v \in input.voices |-> v]],
                          input.spans, NoState))
    BY <1>1, <1>2, <2>1, <2>2, ChapterIsAccounted
  <2> QED
    BY <2>3 DEF SpeechAccounted
<1> QED
  BY <1>3, InputsAreTyped, PTL

\* A paragraph is split into chunks that cover it exactly and fit the budget (chunker.py),
\* validate_coverage accepts nothing else, and what is joined again loses no sound but at
\* the edges of a chunk, leaves no gap and no overlap, stays with its timestamps and is of
\* one loudness (assembly-chapter.ts, assembly-audiobook.ts): for texts, sets of spans,
\* chunks and books of any size.
THEOREM PartitionIsExact == InputSpec => []ChunksPartition
<1>1. InputTyped => ChunksPartition
  <2> SUFFICES ASSUME InputTyped PROVE ChunksPartition
    OBVIOUS
  <2>1. ASSUME input.kind = "paragraph"
        PROVE  ChunkedExactly(Len(input.text), ChunkParagraph(input.text))
    <3>1. input.text \in Seq(CharClasses)
      BY <2>1 DEF InputTyped, ParagraphInputs
    <3> QED
      BY <3>1, ParagraphIsChunked
  <2>2. ASSUME input.kind = "cover", ValidateCoverage(input.length, input.spans),
               NEW c \in 0..(input.length - 1)
        PROVE  Cardinality({i \in DOMAIN input.spans :
                   input.spans[i].start <= c /\ c < input.spans[i].end}) = 1
    <3>1. input.length \in Nat /\ input.spans \in Seq(SpanRows)
      BY <2>2 DEF InputTyped, CoverInputs
    <3> QED
      BY <2>2, <3>1, AcceptedSpansCover
  <2>3. ASSUME input.kind = "take"
        PROVE  TrimKeepsSound(input.levels, KeptFrames(input.levels, input.flushed))
    <3>1. input.levels \in Seq(Nat) /\ input.flushed \in BOOLEAN
      BY <2>3 DEF InputTyped, TakeInputs
    <3> QED
      BY <3>1, TrimmingKeepsSound
  <2>4. ASSUME input.kind = "book"
        PROVE  BookJoined(input.book, AssembleAudiobookMaster(input.book))
    <3>1. input.book \in Seq(ChapterRows)
      BY <2>4 DEF InputTyped, BookInputs
    <3> QED
      BY <3>1, BookIsJoined
  <2> QED
    BY <2>1, <2>2, <2>3, <2>4 DEF ChunksPartition, ChunkedExactly
<1> QED
  BY <1>1, InputsAreTyped, PTL

\* Whatever PDF, EPUB or image set is read (pipeline.ts), the stored structure is a
\* numbering: the chapters, sections and paragraphs that detect-structure.ts makes of the
\* blocks are stored with positions 0, 1, 2, ... through the book, every paragraph inside
\* the range of its chapter and of its section, and the chapters of a READY version one
\* after another: for files of any length.
THEOREM SpineIsNumbered == InputSpec => []SpineNumbered
<1>1. InputTyped => SpineNumbered
  <2> SUFFICES ASSUME InputTyped, IsFile PROVE NumberedBy(Result)
    BY DEF SpineNumbered
  <2>1. input \in FileInputs
    BY DEF InputTyped, IsFile
  <2>2. FileShaped(input)
    BY <2>1, FilesAreShaped
  <2> QED
    BY <2>2, PipelineNumbers DEF Result
<1> QED
  BY <1>1, InputsAreTyped, PTL

\* The story bible (build_story_bible_delta.py, writes_bible.py) keeps what the chapters
\* claim: every claim that was staged is in the one row of its pair and type with its
\* evidence, contradicted claims at low confidence; every row's evidence makes the claim
\* and is not older than the row; and the scenes of a chapter (semantic/deterministic.py)
\* hold its paragraphs in order: for any number of chapters, paragraphs and claims.
THEOREM EvidenceIsKept == InputSpec => []EvidenceKept
<1>1. InputTyped => EvidenceKept
  <2> SUFFICES ASSUME InputTyped, input.kind = "chapters"
               PROVE  BookKept(AnalyzeBook(input.chapters, input.newest), input.chapters)
    BY DEF EvidenceKept
  <2>1. input \in ChapterInputs
    BY DEF InputTyped
  <2>2. ChaptersRise(input.chapters)
    BY <2>1, ChaptersCanBeAnalysed
  <2> QED
    BY <2>2, BookIsKept
<1> QED
  BY <1>1, InputsAreTyped, PTL
=============================================================================
