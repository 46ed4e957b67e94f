\* Two programs on one project: the target is chosen before the guard is taken.
SPECIFICATION Spec
CONSTANTS
  c1 = c1
  c2 = c2
  s1 = s1
  s2 = s2
  Client <- TwoClients
  State <- TwoStates
  NoState = NoState
  Nobody = Nobody
  MaxLog = 3
PROPERTIES
  ImplicitRestoreIsLast
