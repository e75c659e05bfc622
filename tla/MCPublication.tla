--------------------------- MODULE MCPublication ---------------------------
(* Small instances of Publication: single-file formats and one per chapter *)
EXTENDS Publication, TLC

CONSTANTS M4B, MP3

Symmetry == Permutations(AJobs)

\* the default request alone
JustDefault == {<<M4B>>}

\* the chapter files and the default format
ChaptersFirst == {<<MP3, M4B>>}
=============================================================================
