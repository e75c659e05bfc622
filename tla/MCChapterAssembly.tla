------------------------- MODULE MCChapterAssembly -------------------------
(* Instances of ChapterAssembly for TLC. *)
EXTENDS ChapterAssembly, TLC

CONSTANTS c1, c2

\* the first chapter is synthesised twice, the second once
TwoThenOne == (c1 :> 2) @@ (c2 :> 1)

Body(chapters, whole, preview, force) ==
  [chapters |-> chapters, whole |-> whole, preview |-> preview, force |-> force]

\* the audiobook, one chapter anew, and what is complete of the audiobook
Bodies ==
  {Body(Chapters, TRUE, FALSE, FALSE), Body({c1}, FALSE, FALSE, TRUE),
   Body(Chapters, TRUE, TRUE, FALSE)}
=============================================================================
