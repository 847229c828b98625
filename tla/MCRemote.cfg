SPECIFICATION FairSpec
CONSTANTS
  first = first
  retry = retry
  operator = operator
  reboot = reboot
  Caller = {first, retry, operator}
  Kind <- SmallKind
  Key <- OneKey
  Worker = {w1}
  Seen <- Board
  Risk = {"HIGH"}
  Outcome <- Endings
  Lost = Lost
INVARIANTS
  KeyDecidesOnce
  ClosedAfterWork
PROPERTIES
  
  ServeEnds
CHECK_DEADLOCK FALSE
