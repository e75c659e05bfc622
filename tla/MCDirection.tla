---------------------------- MODULE MCDirection ----------------------------
(* An instance of Direction for TLC. *)
EXTENDS Direction

CONSTANTS c1, c2

AllJobs == (Runs \X Chapters) \cup ({0} \X Revised)
BookOrChapter == {<<c1, c2>>, <<c2>>}
=============================================================================
