SPECIFICATION FairSpec
CONSTANTS
  s1 = s1
  s2 = s2
  Events = {1, 2, 3}
  Signals = {s1, s2}
  SignalOf <- MCSignalOf
  Runs = {r1}
  Limit = 2
  Chunk = 1
  MaxFaults = 1
  NoEvent = NoEvent
INVARIANTS
  TypeOK
  ReportIsTrue
  RepairIsComplete
PROPERTIES
  EverySignalIsRepaired
CHECK_DEADLOCK FALSE
