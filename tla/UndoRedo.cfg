\* One program, two states of the repository, up to five snapshots.
SPECIFICATION Spec
CONSTANTS
  c1 = c1
  c2 = c2
  s1 = s1
  s2 = s2
  Client <- OneClient
  State <- TwoStates
  NoState = NoState
  Nobody = Nobody
  MaxLog = 5
INVARIANTS
  TypeOK
  PeelFindsAnOperation
  PagesTile
PROPERTIES
  UndoHistorySpec
