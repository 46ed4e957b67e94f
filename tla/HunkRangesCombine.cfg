\* Two stacks that substitute lines, with the hunk headers the program passes.
SPECIFICATION Spec
CONSTANTS
  Stacks = 2
  BaseLines = 5
  MaxCommits = 2
  MaxHunks = 3
  OldLines <- OneToThree
  NewLines <- OneToThree
  GixHeaders = TRUE
INVARIANTS
  WorkspaceLinesAreBlame
CHECK_DEADLOCK FALSE
