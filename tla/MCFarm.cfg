SPECIFICATION FairSpec
CONSTANTS
  inventory = inventory
  flash = flash
  reboot = reboot
  d1 = d1
  d2 = d2
  w1 = w1
  w2 = w2
  Task = {inventory, flash, reboot}
  Worker = {w1, w2}
  Device = {d1, d2}
  Priority <- ThreePriority
  Wanted <- ThreeWanted
  Concurrency <- ThreeConcurrency
  Exclusive = {flash, reboot}
  NoTask = NoTask
INVARIANTS
  NoLostWakeup
  BusyOnlyWhileRunning
PROPERTIES
  QueueKept
  EveryTaskEnds
CHECK_DEADLOCK FALSE
