SPECIFICATION FairSpec
CONSTANTS
  Invocations = {i1, i2, i3}
  Slots = {s1, s2}
  MaxFaults = 2
  NoRun = NoRun
  NoSlot = NoSlot
INVARIANTS
  TypeOK
  ExecutedAtMostOnce
  LossNeedsFault
PROPERTIES
  ImplementsLedger
  LostSlotsNeedFaults
CHECK_DEADLOCK FALSE
