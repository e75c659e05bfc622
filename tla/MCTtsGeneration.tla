--------------------------- MODULE MCTtsGeneration ---------------------------
(* Instances of TtsGeneration for TLC. *)
EXTENDS TtsGeneration

CONSTANTS w1, w2, v1, v2

\* both workers speak with the first voice, only the first one with the second
OneKnowsBoth == [w \in Workers |-> IF w = w1 THEN {v1, v2} ELSE {v1}]
=============================================================================
