SPECIFICATION Spec
CONSTANTS
  flash = flash
  update = update
  reboot = reboot
  again = again
  device = device
  partition = partition
  Client = {flash, update}
  Resource = {device, partition}
  Key <- TwoKey
  Gate <- TwoGate
  Needs <- TwoNeeds
  Flashes = {flash, update}
  Version <- TwoVersion
  Installed = "v1"
  MaxRetries = 1
  Approvable = {update}
  Cancellable = {flash}
  Timed = {}
INVARIANTS
  CancelStopsAttempts
  GatesKept
  FlashResultIsReal
PROPERTIES
  LifecycleKept
CHECK_DEADLOCK FALSE
