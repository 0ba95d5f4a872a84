SPECIFICATION FairSpec
CONSTANTS
  Ids = {1, 2, 3}
  Instants <- MCInstants
  Precision = 2
  Limit = 1
  NoRow = NoRow
  Start = Start
  End = End
INVARIANTS
  PagesDescend
  MissedOnlyAtEdges
PROPERTIES
  WalkEnds
CHECK_DEADLOCK FALSE
