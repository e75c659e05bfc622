---------------------------- MODULE VersionChain ----------------------------
(***************************************************************************)
(* What a versioned artifact of a book promises its readers: versions are  *)
(* opened one after the other, each is filled unit by unit in the order of *)
(* its plan, and one becomes the current version only when it is complete, *)
(* from then on unchanged.  The story bible and the audio script are two   *)
(* implementations.                                                        *)
(***************************************************************************)
EXTENDS Naturals, Sequences

CONSTANTS
  Versions,   \* the version numbers
  Plans       \* the sequences of units a version may be opened for

VARIABLES
  opened,     \* the version numbers in use
  plan,       \* the units of each version
  content,    \* the units it holds so far
  current     \* the version readers are given, 0 before the first

vars == <<opened, plan, content, current>>

Init ==
  /\ opened = {}
  /\ plan = [v \in Versions |-> <<>>]
  /\ content = [v \in Versions |-> <<>>]
  /\ current = 0

\* A new version has the number after the newest
Open(v, p) ==
  /\ v \notin opened /\ \A w \in opened : w < v
  /\ v = 1 \/ v - 1 \in opened
  /\ opened' = opened \cup {v}
  /\ plan' = [plan EXCEPT ![v] = p]
  /\ UNCHANGED <<content, current>>

AddUnit(v) ==
  /\ v \in opened
  /\ Len(content[v]) < Len(plan[v])
  /\ content' = [content EXCEPT ![v] = Append(@, plan[v][Len(@) + 1])]

\* A unit of a version that is not complete with it
Extend(v) ==
  /\ AddUnit(v)
  /\ content'[v] # plan[v]
  /\ UNCHANGED <<opened, plan, current>>

\* The last unit, and the version is the current one
Publish(v) ==
  /\ AddUnit(v)
  /\ content'[v] = plan[v]
  /\ current' = v
  /\ UNCHANGED <<opened, plan>>

Next == \E v \in Versions : (\E p \in Plans : Open(v, p)) \/ Extend(v) \/ Publish(v)

Spec == Init /\ [][Next]_vars
=============================================================================
