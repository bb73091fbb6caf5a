SPECIFICATION Spec
CONSTANTS
  MaxRows = 2
  MaxAttempts = 2
  MaxSetbacks = 2
  Faults = {"raise", "unresumable"}
  Users = {"cancel", "restore", "delete", "upload"}
CHECK_DEADLOCK FALSE
INVARIANTS
  PendingExplained
  ResultKept
  FileIsCurrent
  CurrentExists
PROPERTIES
  SettledIsFinal
