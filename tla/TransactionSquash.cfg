SPECIFICATION Spec
CONSTANTS
  File <- File_1
  Content <- Content_1
  Layouts <- Layouts_2
  Absent = "absent"
  Original = "original"
  Uncommitted = "uncommitted"
  BlankCommit = "blank"
  CreatedCommit = "created"
  NewReference = "N"
  NewMessage = "reworded"
  MaxOperations = 1
PROPERTIES SquashHasBoth
CHECK_DEADLOCK FALSE
