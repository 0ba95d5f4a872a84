SPECIFICATION MCSpec
CONSTANTS
  Requests = {r1, r2, r3}
  b1 = b1
  b2 = b2
  kHeader = kHeader
  kTv1 = kTv1
  kTv2 = kTv2
  Bodies <- MCBodies
  Keys <- MCKeys
  TvKey <- MCTvKey
  Inputs <- MCInputs
  NoKey = NoKey
  NoRow = NoRow
  NoInput = NoInput
  NoEvent = NoEvent
  MaxDepth = 2
  MaxBytes = 3
  Tolerance = 1
  MaxInteger = 3
  Now = 1
  Payloads <- MCPayloads
  Submissions <- MCSubmissions
  Envelopes <- MCEnvelopes
  NoJourney = NoJourney
  Undecoded = Undecoded
SYMMETRY RequestSymmetry
INVARIANTS
  TypeOK
  AcceptedIsDurable
  ConflictIsGenuine
  AcceptedIsStorable
  DepthLimitIsExact
PROPERTIES
  ImplementsIntake
CHECK_DEADLOCK FALSE
