SPECIFICATION FairConsoleSpec
CONSTANTS
  info = info
  reset = reset
  tail = tail
  Nobody = Nobody
  Call = {info, reset}
  Resets = {reset}
  Stream = {tail}
  Capacity = 1
  Buffered = TRUE
INVARIANTS
  AnswerIsOwn
  StreamFaithful
PROPERTIES
  ExecuteReturns
CHECK_DEADLOCK FALSE
