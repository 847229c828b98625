SPECIFICATION FairSpec
CONSTANTS
  jtag = jtag
  reset = reset
  reboot = reboot
  debug = debug
  device = device
  Thread = {jtag, reset, reboot}
  Resource <- MCResource
  AllCalls <- MCAllCalls
  TryCalls <- MCTryCalls
  Cancellable = {jtag}
  OneByOne = {reset}
INVARIANTS
  NoOrphanLease
  WorkExclusion
PROPERTIES
  LeasesServed
  UncancelledCallsSucceed
  NoDeadlock

CHECK_DEADLOCK FALSE
