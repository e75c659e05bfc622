---------------------------- MODULE EventStream ----------------------------
(***************************************************************************)
(* Live events of a book: the outbox_message rows that transactions of the *)
(* API and of the workers insert, the server-sent event streams that tail  *)
(* them (EventStreamService) and the browser tab that listens              *)
(* (useBookEventStream), for one principal and one book.                   *)
(*                                                                         *)
(* The tail is read by position: created_at, then event_id.  created_at is *)
(* taken when the row is written, by the database for the API's rows and   *)
(* by the worker's own clock for the Python workers' rows, and the row is  *)
(* seen when its transaction commits, so rows need not appear in the order *)
(* of their positions.  A poll is an asynchronous function started by a    *)
(* timer, whether or not the one before has come back.                     *)
(***************************************************************************)
EXTENDS Naturals, FiniteSets

CONSTANTS
  Events,        \* outbox rows of the book, named by the order of their event_id
  WorkerEvents,  \* those written by the Python workers
  Public,        \* those with a public event type
  Skew,          \* how far a worker's clock may be from the database's
  Resolution,    \* instants of timestamptz(6) that one JavaScript Date stands for
  Conns,         \* connections of the principal on one API instance
  Polls,         \* polls of a connection that may be out at the same time
  NoConn,        \* no connection
  StreamBatch,   \* EventStreamConfig.batchSize
  MaxStreams,    \* EventStreamConfig.maxStreamsPerPrincipal
  Window,        \* EventStreamConfig.replayWindowMs
  MaxTime,       \* bound: instants
  MaxBreaks      \* bound: lost connections, failed queries and expired lifetimes

ASSUME EventsAssumption ==
  /\ Events \subseteq Nat \ {0} /\ IsFiniteSet(Events)
  /\ WorkerEvents \subseteq Events /\ Public \subseteq Events
ASSUME ConnsAssumption == NoConn \notin Conns /\ IsFiniteSet(Conns)
ASSUME NumbersAssumption ==
  /\ Skew \in Nat /\ Window \in Nat /\ MaxTime \in Nat /\ MaxBreaks \in Nat
  /\ Resolution \in Nat \ {0} /\ StreamBatch \in Nat \ {0} /\ MaxStreams \in Nat \ {0}

VARIABLES
  clock,        \* the database's clock
  row,          \* none, open (its transaction has not committed) or committed
  createdAt,    \* outbox_message.created_at
  conn,         \* free, opening (resolving its start) or live
  cursor,       \* the stream's position, as the closure over it holds it
  polls,        \* the rows each outstanding poll has read
  openStreams,  \* the principal's entry of the counter
  attached,     \* the connection that the tab is on
  lastId,       \* the tab's Last-Event-ID, 0 before the first frame
  refused,      \* the tab got a 429, after which an EventSource stays closed
  received,     \* the events of which the tab got a frame
  \* history: where the tab's stream began or resynchronised, the furthest position read,
  \* and the rows that committed behind it
  base, high, late,
  breaks

tableVars == <<clock, row, createdAt>>
serverVars == <<conn, cursor, polls, openStreams>>
tabVars == <<attached, lastId, refused, received>>
historyVars == <<base, high, late>>
vars == <<tableVars, serverVars, tabVars, historyVars, breaks>>

Idle == [out |-> FALSE, rows |-> {}]
\* a bare instant has no event to tie with
Instant(t) == [at |-> t, id |-> 0]

Init ==
  /\ clock = 0
  /\ row = [e \in Events |-> "none"]
  /\ createdAt = [e \in Events |-> 0]
  /\ conn = [k \in Conns |-> "free"]
  /\ cursor = [k \in Conns |-> Instant(0)]
  /\ polls = [k \in Conns |-> [p \in Polls |-> Idle]]
  /\ openStreams = 0
  /\ attached = NoConn
  /\ lastId = 0
  /\ refused = FALSE
  /\ received = {}
  /\ base = Instant(0)
  /\ high = Instant(0)
  /\ late = {}
  /\ breaks = 0

Break == breaks < MaxBreaks /\ breaks' = breaks + 1

-----------------------------------------------------------------------------
(* Positions *)

\* A timestamptz(6) read into a Date loses what is below the millisecond
Js(t) == t - (t % Resolution)

Precedes(d, e) == createdAt[d] < createdAt[e] \/ (createdAt[d] = createdAt[e] /\ d < e)

\* The where clause of readTail
After(c, e) ==
  createdAt[e] > c.at \/ (c.id # 0 /\ createdAt[e] = c.at /\ e > c.id)

Committed == {e \in Events : row[e] = "committed"}

\* Ordered by position, at most a batch
ReadTail(c) ==
  LET rows == {e \in Committed : After(c, e)}
  IN  {e \in rows : Cardinality({d \in rows : Precedes(d, e)}) < StreamBatch}

LastOf(rows) == CHOOSE e \in rows : \A d \in rows : d = e \/ Precedes(d, e)

-----------------------------------------------------------------------------
(* The table *)

Tick ==
  /\ clock < MaxTime
  /\ clock' = clock + 1
  /\ UNCHANGED <<row, createdAt, serverVars, tabVars, historyVars, breaks>>

\* created_at of writeOutboxMessage and of write_outbox_message
Stamps(e) ==
  IF e \in WorkerEvents THEN {t \in 0..MaxTime : t <= clock + Skew /\ clock <= t + Skew} ELSE {clock}

Write(e) ==
  /\ row[e] = "none"
  /\ row' = [row EXCEPT ![e] = "open"]
  /\ \E t \in Stamps(e) : createdAt' = [createdAt EXCEPT ![e] = t]
  /\ UNCHANGED <<clock, serverVars, tabVars, historyVars, breaks>>

\* The transaction commits, behind what some poll has read or not
Commit(e) ==
  /\ row[e] = "open"
  /\ row' = [row EXCEPT ![e] = "committed"]
  /\ late' = IF After(high, e) THEN late ELSE late \cup {e}
  /\ UNCHANGED <<clock, createdAt, serverVars, tabVars, base, high, breaks>>

-----------------------------------------------------------------------------
(* EventStreamService.open *)

\* The EventSource has no connection and makes one; a 429 closes it for good
TabConnects == attached = NoConn /\ ~refused

\* The limit is tested and the slot taken without an await in between
Open(k) ==
  /\ TabConnects
  /\ conn[k] = "free"
  /\ openStreams < MaxStreams
  /\ openStreams' = openStreams + 1
  /\ conn' = [conn EXCEPT ![k] = "opening"]
  /\ attached' = k
  /\ UNCHANGED <<tableVars, cursor, polls, lastId, refused, received, historyVars, breaks>>

OpenRefused ==
  /\ TabConnects
  /\ openStreams >= MaxStreams
  /\ refused' = TRUE
  /\ UNCHANGED <<tableVars, serverVars, attached, lastId, received, historyVars, breaks>>

\* resolveStartCursor finds the event of Last-Event-ID inside the replay window
Anchored == lastId # 0 /\ Js(createdAt[lastId]) + Window >= Js(clock)

Further(c, d) == IF d.at > c.at \/ (d.at = c.at /\ (d.id = 0 \/ (c.id # 0 /\ d.id > c.id)))
                 THEN d ELSE c

Resume(k) ==
  /\ conn[k] = "opening"
  /\ Anchored
  /\ conn' = [conn EXCEPT ![k] = "live"]
  /\ cursor' = [cursor EXCEPT ![k] = [at |-> Js(createdAt[lastId]), id |-> lastId]]
  /\ UNCHANGED <<tableVars, polls, openStreams, tabVars, historyVars, breaks>>

\* Mutation of StartNow: no stream.resync tells the tab that its position was given up
StartNow_Quiet(k) ==
  /\ conn[k] = "opening"
  /\ ~Anchored
  /\ conn' = [conn EXCEPT ![k] = "live"]
  /\ cursor' = [cursor EXCEPT ![k] = Instant(Js(clock))]
  /\ base' = IF attached = k /\ lastId = 0 THEN Instant(Js(clock)) ELSE base
  /\ UNCHANGED <<tableVars, polls, openStreams, tabVars, high, late, breaks>>

\* From now: a first connection, or stream.resync, on which the tab reads everything again
StartNow(k) ==
  /\ conn[k] = "opening"
  /\ ~Anchored
  /\ conn' = [conn EXCEPT ![k] = "live"]
  /\ cursor' = [cursor EXCEPT ![k] = Instant(Js(clock))]
  /\ base' = IF attached = k THEN Instant(Js(clock)) ELSE base
  /\ UNCHANGED <<tableVars, polls, openStreams, tabVars, high, late, breaks>>

\* A query of resolveStartCursor rejects: open ends before anyone can give the slot back
StartFails(k) ==
  /\ conn[k] = "opening"
  /\ Break
  /\ conn' = [conn EXCEPT ![k] = "free"]
  /\ attached' = IF attached = k THEN NoConn ELSE attached
  /\ UNCHANGED <<tableVars, cursor, polls, openStreams>>
  /\ UNCHANGED <<lastId, refused, received, base, high, late>>

\* close(), once per stream; what its polls still read goes nowhere
Close(k) ==
  /\ conn' = [conn EXCEPT ![k] = "free"]
  /\ polls' = [polls EXCEPT ![k] = [p \in Polls |-> Idle]]
  /\ openStreams' = openStreams - 1
  /\ UNCHANGED cursor

\* The connection of the tab breaks.  Before the listeners are installed nobody notices.
Disconnect ==
  /\ attached # NoConn
  /\ Break
  /\ attached' = NoConn
  /\ IF conn[attached] = "live" THEN Close(attached) ELSE UNCHANGED serverVars
  /\ UNCHANGED <<tableVars, lastId, refused, received, historyVars>>

\* maxConnectionMs is over
Lifetime(k) ==
  /\ conn[k] = "live"
  /\ Break
  /\ Close(k)
  /\ attached' = IF attached = k THEN NoConn ELSE attached
  /\ UNCHANGED <<tableVars, lastId, refused, received, historyVars>>

-----------------------------------------------------------------------------
(* The poll timer *)

\* The read of a poll, from the cursor as it is now
StartPoll(k, p) ==
  LET rows == ReadTail(cursor[k])
  IN  /\ conn[k] = "live"
      /\ ~polls[k][p].out
      /\ polls' = [polls EXCEPT ![k][p] = [out |-> TRUE, rows |-> rows]]
      /\ high' = IF rows = {} THEN high
                 ELSE Further(high, [at |-> createdAt[LastOf(rows)], id |-> LastOf(rows)])
      /\ UNCHANGED <<tableVars, conn, cursor, openStreams, tabVars, base, late, breaks>>

\* Frames for the public rows, all before the cursor moves
Deliver(k, rows) ==
  IF attached = k
  THEN /\ received' = received \cup (rows \cap Public)
       /\ lastId' = IF rows \cap Public = {} THEN lastId ELSE LastOf(rows \cap Public)
  ELSE UNCHANGED <<received, lastId>>

\* Mutation of EndPoll: the cursor is the instant of the last row
EndPoll_InstantOnly(k, p) ==
  /\ polls[k][p].out
  /\ Deliver(k, polls[k][p].rows)
  /\ polls' = [polls EXCEPT ![k][p] = Idle]
  /\ cursor' = IF polls[k][p].rows = {} THEN cursor
               ELSE [cursor EXCEPT ![k] = Instant(Js(createdAt[LastOf(polls[k][p].rows)]))]
  /\ UNCHANGED <<tableVars, conn, openStreams, attached, refused, historyVars, breaks>>

\* The poll comes back and leaves the cursor at its own last row
EndPoll(k, p) ==
  /\ polls[k][p].out
  /\ Deliver(k, polls[k][p].rows)
  /\ polls' = [polls EXCEPT ![k][p] = Idle]
  /\ cursor' = IF polls[k][p].rows = {} THEN cursor
               ELSE LET e == LastOf(polls[k][p].rows)
                    IN  [cursor EXCEPT ![k] = [at |-> Js(createdAt[e]), id |-> e]]
  /\ UNCHANGED <<tableVars, conn, openStreams, attached, refused, historyVars, breaks>>

\* The read rejects: logged, and the next tick tries again
PollFails(k, p) ==
  /\ polls[k][p].out
  /\ Break
  /\ polls' = [polls EXCEPT ![k][p] = Idle]
  /\ UNCHANGED <<tableVars, conn, cursor, openStreams, tabVars, historyVars>>

-----------------------------------------------------------------------------
Next ==
  \/ Tick
  \/ \E e \in Events : Write(e) \/ Commit(e)
  \/ \E k \in Conns : Open(k) \/ Resume(k) \/ StartNow(k) \/ StartFails(k) \/ Lifetime(k)
  \/ OpenRefused \/ Disconnect
  \/ \E k \in Conns, p \in Polls : StartPoll(k, p) \/ EndPoll(k, p) \/ PollFails(k, p)

Spec == Init /\ [][Next]_vars

\* An EventSource reconnects by itself, a request that was accepted goes on, the timer of a
\* live stream keeps starting polls, and a poll comes back
Fairness ==
  /\ WF_vars(OpenRefused \/ \E k \in Conns : Open(k))
  /\ \A k \in Conns :
       /\ WF_vars(Resume(k) \/ StartNow(k))
       /\ WF_vars(\E p \in Polls : StartPoll(k, p))
       /\ \A p \in Polls : WF_vars(EndPoll(k, p))

FairSpec == Spec /\ Fairness

-----------------------------------------------------------------------------
(* Properties *)

\* The types of the rows, the streams and the tab.
TypeOK ==
  /\ clock \in 0..MaxTime
  /\ row \in [Events -> {"none", "open", "committed"}]
  /\ createdAt \in [Events -> 0..MaxTime]
  /\ conn \in [Conns -> {"free", "opening", "live"}]
  /\ cursor \in [Conns -> [at : Nat, id : Events \cup {0}]]
  /\ polls \in [Conns -> [Polls -> [out : BOOLEAN, rows : SUBSET Events]]]
  /\ openStreams \in 0..MaxStreams
  /\ attached \in Conns \cup {NoConn}
  /\ lastId \in Public \cup {0}
  /\ refused \in BOOLEAN
  /\ received \subseteq Public
  /\ breaks \in 0..MaxBreaks

\* Nothing that the tail has passed is missing from the tab: batches that end between rows
\* of one instant, polls that overlap and move the cursor back, and reconnections with
\* Last-Event-ID lose no public event of the stream, unless its row committed behind a
\* position that had been read.
NothingSkipped ==
  attached # NoConn /\ conn[attached] = "live" =>
    \A e \in (Committed \cap Public) \ late :
      After(base, e) /\ ~After(cursor[attached], e) => e \in received

\* Some millisecond has as many rows as a batch: below it a Date cannot tell them apart, and
\* the tail may read the same batch again and again
Crowded ==
  \E e \in Events : StreamBatch <=
    Cardinality({d \in Events : row[d] # "none" /\ Js(createdAt[d]) = Js(createdAt[e])})

\* An event committed ahead of the tail of a stream reaches the tab, through failed polls
\* and reconnections, unless the tab is refused or starts again without its position.
Delivers ==
  \A e \in Public :
    (e \in Committed \ late /\ attached # NoConn /\ conn[attached] = "live" /\ After(base, e))
      ~> e \in received \/ refused \/ ~After(base, e) \/ Crowded
-----------------------------------------------------------------------------
(* The inductive invariant of EventStreamProofs *)

\* What the history holds: a base is an instant, the furthest position one of a row
HistoryOK ==
  /\ base \in [at : Nat, id : {0}]
  /\ high \in [at : Nat, id : Events \cup {0}]
  /\ late \subseteq Events

\* Every connection that is not free has a slot of the counter
SlotsHeld == Cardinality({k \in Conns : conn[k] # "free"}) <= openStreams

\* Polls are out on live streams only, and hold committed rows
PollsOfStreams ==
  \A k \in Conns, p \in Polls :
    /\ conn[k] # "live" => polls[k][p] = Idle
    /\ polls[k][p].rows \subseteq Committed

\* The position that a frame or a poll leaves at a row, and the public rows the tab is owed
At(e) == [at |-> Js(createdAt[e]), id |-> e]
Owed == {e \in (Committed \cap Public) \ late : After(base, e)}

\* Whatever is not after the position has reached the tab
Passed(c) == \A e \in Owed : ~After(c, e) => e \in received

\* A cursor is where the stream began or at a row that has been read: who commits behind it
\* commits behind the furthest position too, and is late
CursorCovered(c) ==
  /\ Passed(c)
  /\ c = base \/ \E r \in Committed : c = At(r) /\ ~After(high, r)

CursorInStep ==
  attached # NoConn /\ conn[attached] = "live" => CursorCovered(cursor[attached])

\* The tab can resume from its Last-Event-ID
IdCovered(i) == i \in Committed /\ ~After(high, i) /\ Passed(At(i))
LastIdInStep == lastId # 0 => IdCovered(lastId)

\* An outstanding poll leaves out nothing up to any of its rows
RowCovered(r, rows) ==
  /\ ~After(high, r)
  /\ \A e \in Owed : e = r \/ Precedes(e, r) => e \in received \cup rows

PollsInStep ==
  attached # NoConn =>
    \A p \in Polls : \A r \in polls[attached][p].rows : RowCovered(r, polls[attached][p].rows)

IInv ==
  /\ TypeOK /\ HistoryOK /\ SlotsHeld /\ PollsOfStreams
  /\ CursorInStep /\ LastIdInStep /\ PollsInStep
=============================================================================
