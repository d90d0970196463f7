SPECIFICATION PermissionFairSpec
CHECK_DEADLOCK FALSE
CONSTANTS
  alice = alice
  bob = bob
  a = a
  b = b
  other = other
  dir = dir
  r1 = r1
  r2 = r2
  s1 = s1
  s2 = s2
  Principals = {alice, bob}
  Paths = {a}
  Files = {a}
  Touching <- Same
  Scopes <- Single
  Places <- Unnamed
  Sprints = {}
  Space = Space
  Heads = {}
  NoHead = NoHead
  AcquiredAt = {NoHead}
  Modes = {"on_commit"}
  Leases = {1}
  Never = Never
  PendingTTL = 1
  MaxClaims = 2
  MaxPending = 0
  MaxTime = 0
  Servers = {s1, s2}
  ReqId = {r1}
  Cap = 1
  GrantLease = 1
  MaxCalls = 2
  MaxWaiters = 2
  MaxTaken = 2
PROPERTIES
  CallsEnd
  ResolvedOnce
