SPECIFICATION Spec
CONSTANTS
  e1 = e1
  e2 = e2
  e3 = e3
  m1 = m1
  m2 = m2
  m3 = m3
  m4 = m4
  s1 = s1
  Messages = {m1, m2}
  Events = {e1, e2}
  Signals = {s1}
  Instruments = {i1, i2}
  Workers = {w1, w2}
  About <- RaceAbout
  SignalOf <- RaceSignalOf
  Malformed = Malformed
  Skipped = Skipped
  Invalid = Invalid
  MaxRetries = 1
  MaxDlqRetries = 1
  MaxDuplicates = 1
  MaxCatalogChanges = 1
  NoReceipt = NoReceipt
  NoOpportunity = NoOpportunity
  NoInstrument = NoInstrument
  NoMessage = NoMessage
  NoEvent = NoEvent
SYMMETRY Symmetry
INVARIANTS
  TypeOK
  ReportedIsStored
PROPERTIES
  ImplementsDelivery
CHECK_DEADLOCK FALSE
