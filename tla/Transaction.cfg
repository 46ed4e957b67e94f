SPECIFICATION Spec
CONSTANTS
  File <- File_1
  Content <- Content_1
  Layouts <- Layouts_1
  Absent = "absent"
  Original = "original"
  Uncommitted = "uncommitted"
  BlankCommit = "blank"
  CreatedCommit = "created"
  NewReference = "N"
  NewMessage = "reworded"
  MaxOperations = 2
INVARIANTS TypeOK IdsMeanTheirCommit WorkspaceIsItsStacks
PROPERTIES IsStackEdit
CHECK_DEADLOCK FALSE
