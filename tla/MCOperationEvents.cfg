SPECIFICATION FairSpec
CONSTANTS
  dump = dump
  reboot = reboot
  watch = watch
  poller = poller
  Op = {dump, reboot}
  Sub = {watch}
  Poller = {poller}
  Filter <- WatchFilter
  Capacity = 1
  Produces = {dump}
  Deletable = {dump}
INVARIANTS
  OwnOrder
  ConclusionIsReal
PROPERTIES
  FeedKept
  OutcomesAreSeen
CHECK_DEADLOCK FALSE
