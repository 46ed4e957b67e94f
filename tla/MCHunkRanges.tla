---------------------------- MODULE MCHunkRanges ----------------------------
(* Small instances of HunkRanges for TLC. *)
EXTENDS HunkRanges

\* The lines a hunk replaces, or brings.
UpToOne == 0 .. 1
UpToTwo == 0 .. 2
\* Substitutions only: their headers are the same in every convention.
OneToThree == 1 .. 3
=============================================================================
