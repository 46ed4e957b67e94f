SPECIFICATION Spec
CONSTANTS
  c1 = c1
  c2 = c2
  c3 = c3
  Change <- Changes3
  First = c1
  Nothing = Nothing
  MaxLog = 3
  MaxCommits = 3
  MaxFaults = 1
SYMMETRY OtherChanges
INVARIANTS TypeOK EditModeCanBeLeft ChangesKept
PROPERTIES LeavingRestores RestoreIsWhole LogOnlyGrows
\* The bounds stop it.
CHECK_DEADLOCK FALSE
