SPECIFICATION FairSpec
CONSTANTS
  o1 = o1
  o2 = o2
  Workers = {w1, w2}
  Opportunities = {o1, o2}
  Triggered <- MCTriggered
  Phases = {"trigger", "final"}
  MaxAttempts = 3
  BatchLimit = 1
  Times = {0, 1}
  MaxFaults = 2
  NoRow = NoRow
  NoSnapshot = NoSnapshot
INVARIANTS
  TypeOK
  ClaimIsExclusive
  AbandonmentNeedsFault
PROPERTIES
  EvidenceIsDurable
  EverySnapshotSettles
CHECK_DEADLOCK FALSE
