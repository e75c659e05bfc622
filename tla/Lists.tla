-------------------------------- MODULE Lists --------------------------------
(***************************************************************************)
(* Lists built from lists.  A loop that passes over some elements keeps a  *)
(* set of positions; one that opens a new group at some elements cuts the  *)
(* list at a set of positions.                                             *)
(***************************************************************************)
EXTENDS Integers, FiniteSets, SequencesExt

\* How many of the positions are not after i, and which of them is the k-th.
Upto(positions, i) == Cardinality({j \in positions : j <= i})
Nth(positions, k) == CHOOSE i \in positions : Upto(positions, i) = k

\* The elements at some positions, in order.
Pick(list, positions) ==
    [k \in 1..Cardinality(positions) |-> list[Nth(positions, k)]]

\* The runs that begin at some positions, the first being one of them.
Cut(list, starts) ==
    [k \in 1..Cardinality(starts) |->
        Pick(list, {i \in DOMAIN list : Upto(starts, i) = k})]
=============================================================================
