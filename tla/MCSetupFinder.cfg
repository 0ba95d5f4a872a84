SPECIFICATION FairSpec
CONSTANTS
  o1 = o1
  o2 = o2
  Opps = {o1, o2}
  Lists <- MCLists
  Statuses = {detected}
  Tickers = {btc}
  MaxEdits = 3
  All = All
  None = None
  Never = Never
INVARIANTS
  ListIsTheOneAsked
  DetailIsOfSelection
PROPERTIES
  SelectionStaysListed
  EveryLoadEnds
CHECK_DEADLOCK FALSE
