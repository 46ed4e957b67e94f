----------------------------- MODULE MCUndoRedo -----------------------------
EXTENDS UndoRedo

CONSTANTS c1, c2, s1, s2

OneClient == {c1}
TwoClients == {c1, c2}
TwoStates == {s1, s2}
==============================================================================
