SPECIFICATION Spec
CONSTANTS
  first = first
  second = second
  Caller = {first, second}
  Channel <- MCChannel
  Used = {1}
  Cell <- MCCell
  NoCell = NoCell
  Failures = {"CONNECTION", "PROTOCOL", "DISCOVERY"}
  MaxAttempts = 2
  MaxDeviceResets = 1
INVARIANTS
  BudgetKept
PROPERTIES
  SpentStaysSpent
  RecoveryGivesUp
CHECK_DEADLOCK FALSE
