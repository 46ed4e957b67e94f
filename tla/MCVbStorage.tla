---------------------------- MODULE MCVbStorage ----------------------------
EXTENDS VbStorage

CONSTANTS p1, p2, empty, v1, v2

Procs == {p1, p2}
Contents == {empty, v1, v2}
==============================================================================
