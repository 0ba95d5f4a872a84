SPECIFICATION WatchSpec
CONSTANTS
  Invocations = {i1, i2, i3}
  Slots <- MCSlots
  MaxFaults = 1
  Period = 1
  Threshold = 3
  Window = 1
  Limit = 3
  MaxTime = 5
  MaxLate = 1
  MaxRead = 1
  NoRun = NoRun
  NoSlot = NoSlot
  None = None
  Unread = Unread
SYMMETRY Symmetry
INVARIANTS
  StatusIsTrue
  FailuresAreCounted
  ReportIsOfExecutions
PROPERTIES
  JobIsWatchable
CHECK_DEADLOCK FALSE
