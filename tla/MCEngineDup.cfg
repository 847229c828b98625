SPECIFICATION FairSpec
CONSTANTS
  flash = flash
  update = update
  reboot = reboot
  again = again
  device = device
  partition = partition
  Client = {reboot, again}
  Resource = {device}
  Key <- DupKey
  Gate <- DupGate
  Needs <- DupNeeds
  Flashes = {}
  Version <- DupVersion
  Installed = "v1"
  MaxRetries = 1
  Approvable = {}
  Cancellable = {}
  Timed = {again}
INVARIANTS
  WaitNeverReturnsNil
PROPERTIES
  TerminalStaysTerminal
  EveryOperationEnds
CHECK_DEADLOCK FALSE
