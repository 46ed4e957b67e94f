---------------------------- MODULE MCRepoAccess ----------------------------
EXTENDS RepoAccess

CONSTANTS a1, a2, b1, h1, A, B, H

\* Two threads of one process, one of another, and one of a commit hook.
AllThreads == {a1, a2, b1, h1}
AllProcesses == {A, B, H}
AllProcessOf == [t \in AllThreads |-> IF t = b1 THEN B ELSE IF t = h1 THEN H ELSE A]

Hooks == {H}
==============================================================================
