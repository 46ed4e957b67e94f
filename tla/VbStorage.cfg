\* Two processes, three contents, three clock values; others write the file between transactions.
SPECIFICATION Spec
CONSTANTS
  p1 = p1
  p2 = p2
  empty = empty
  v1 = v1
  v2 = v2
  Proc <- Procs
  Content <- Contents
  Empty <- empty
  Invalid = Invalid
  Missing = Missing
  Nobody = Nobody
  None = None
  MaxTime = 2
  WriteInside = FALSE
  DbMayFail = FALSE
  ClockGoesBack = FALSE
INVARIANTS
  TypeOK
  SeenIsSame
  AccessSeesMeaning
PROPERTIES
  SyncIsInvisible
