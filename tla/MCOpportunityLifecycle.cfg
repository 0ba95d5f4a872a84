SPECIFICATION Spec
CONSTANTS
  Writers = {w1, w2}
  Readers = {d1}
  MaxTime = 2
  NoRow = NoRow
  NoTime = NoTime
  NoTransaction = NoTransaction
  NoView = NoView
SYMMETRY Symmetry
INVARIANTS
  TypeOK
  HistoryIsThePath
  StampsFollowStatus
  HistoryIsInOrder
  DetailTellsItsStatus
CHECK_DEADLOCK FALSE
