SPECIFICATION DisputesSpec
SYMMETRY Members
CHECK_DEADLOCK FALSE
CONSTANTS
  alice = alice
  bob = bob
  a = a
  b = b
  dir = dir
  d1 = d1
  d2 = d2
  Principals = {alice, bob}
  Paths = {a, b, dir}
  Files = {a, b}
  Touching <- GlobOfA
  Scopes <- FileAndGlob
  Places <- Unnamed
  Sprints = {}
  Space = Space
  Heads = {}
  NoHead = NoHead
  AcquiredAt = {NoHead}
  Modes = {"on_commit"}
  Leases = {1}
  Never = Never
  PendingTTL = 1
  MaxClaims = 2
  MaxPending = 0
  MaxTime = 1
  DisputeId = {d1}
  Offers <- JustA
  Configs <- Fewer
  MaxTurns = 3
  MaxSeconds = 1
  GrantLease = 1
  MaxMoves = 4
INVARIANTS
  ClosesOnce
  LogAgreesWithRow
  TurnsAndAnswers
  HandedOver
  WithinTurns
