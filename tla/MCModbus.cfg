SPECIFICATION FairSpec
CONSTANTS
  write = write
  read = read
  long = long
  Op = {write, read, long}
  Code <- Codes
  Quantity <- Quantities
  MaxDials = 2
CHECK_DEADLOCK FALSE
INVARIANTS
  OwnReply
  WritesOnce
PROPERTIES
  EveryCallReturns
