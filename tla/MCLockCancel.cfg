SPECIFICATION LongWorkSpec
CONSTANTS
  jtag = jtag
  reset = reset
  reboot = reboot
  debug = debug
  device = device
  Thread = {jtag, reboot}
  Resource = {device}
  AllCalls <- MCTwoCalls
  TryCalls = {}
  Cancellable = {jtag}
  OneByOne = {}
PROPERTY
  CancellationObserved
CHECK_DEADLOCK FALSE
