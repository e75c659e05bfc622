---------------------------- MODULE MCStoryBible ----------------------------
(* Instances of StoryBible for TLC. *)
EXTENDS StoryBible

CONSTANTS c1, c2

AllJobs == Runs \X Chapters \X {"analyze", "delta"}
AnalyzeJobs == Runs \X Chapters \X {"analyze"}
\* one name, in both chapters
EveryChapterMentions == [c \in Chapters |-> Names]
WholeBookOrSecond == {<<c1, c2>>, <<c2>>}
=============================================================================
