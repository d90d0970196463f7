SPECIFICATION PermissionSpec
SYMMETRY Interchangeable
CHECK_DEADLOCK FALSE
CONSTANTS
  alice = alice
  bob = bob
  a = a
  b = b
  other = other
  dir = dir
  r1 = r1
  r2 = r2
  s1 = s1
  s2 = s2
  Principals = {alice, bob}
  Paths = {a, b, other, dir}
  Files = {a, b, other}
  Touching <- GlobOfA
  Scopes <- FileOrThree
  Places <- Unnamed
  Sprints = {}
  Space = Space
  Heads = {}
  NoHead = NoHead
  AcquiredAt = {NoHead}
  Modes = {"on_commit"}
  Leases = {1}
  Never = Never
  PendingTTL = 1
  MaxClaims = 3
  MaxPending = 0
  MaxTime = 0
  Servers = {s1}
  ReqId = {r1, r2}
  Cap = 1
  GrantLease = 1
  MaxCalls = 2
  MaxWaiters = 1
  MaxTaken = 1
INVARIANTS
  ToldWhatWasDecided
  CapHolds
  SplitIsClean
