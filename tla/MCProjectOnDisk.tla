--------------------------- MODULE MCProjectOnDisk ---------------------------
(* Instances of ProjectOnDisk for TLC.                                       *)
EXTENDS ProjectOnDisk, TLC
CONSTANTS c1, c2, c3
Changes2 == {c1, c2}
Changes3 == {c1, c2, c3}
OtherChanges == Permutations({c2, c3})
==============================================================================
