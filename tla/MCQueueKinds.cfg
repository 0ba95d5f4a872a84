SPECIFICATION FairSpec
CONSTANTS
  e1 = e1
  e2 = e2
  e3 = e3
  m1 = m1
  m2 = m2
  m3 = m3
  m4 = m4
  s1 = s1
  Messages = {m1, m2, m3, m4}
  Events = {e1, e2, e3}
  Signals = {s1}
  Instruments = {i1}
  Workers = {w1}
  About <- KindsAbout
  SignalOf <- KindsSignalOf
  Malformed = Malformed
  Skipped = Skipped
  Invalid = Invalid
  MaxRetries = 1
  MaxDlqRetries = 0
  MaxDuplicates = 0
  MaxCatalogChanges = 0
  NoReceipt = NoReceipt
  NoOpportunity = NoOpportunity
  NoInstrument = NoInstrument
  NoMessage = NoMessage
  NoEvent = NoEvent
PROPERTIES
  EveryMessageSettles
CHECK_DEADLOCK FALSE
