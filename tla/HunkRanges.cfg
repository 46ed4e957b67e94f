\* Two stacks, up to three hunks in up to three commits, with the headers of the crate's comments.
SPECIFICATION Spec
CONSTANTS
  Stacks = 2
  BaseLines = 3
  MaxCommits = 3
  MaxHunks = 3
  OldLines <- UpToTwo
  NewLines <- UpToTwo
  GixHeaders = FALSE
INVARIANTS
  TypeOK
  RangesAreBlame
  ShiftsAddUp
  OrderedMeansRight
  LinesAreLocked
CHECK_DEADLOCK FALSE
