SPECIFICATION FairSpec
CONSTANTS
  alice = alice
  bob = bob
  a = a
  b = b
  dir = dir
  Principals = {alice, bob}
  Paths = {a, b}
  Files = {a, b}
  Touching <- TwoFiles
  Scopes <- FileOrBoth
  Places <- OneBranch
  Sprints = {s1}
  Space = Space
  Heads = {}
  NoHead = NoHead
  AcquiredAt = {NoHead}
  Modes = {"ttl"}
  Leases = {1}
  Never = Never
  PendingTTL = 1
  MaxClaims = 2
  MaxPending = 1
  MaxTime = 2
INVARIANTS
  HeldOnSuccess
  ReleaseDrainsQueue
PROPERTIES
  QueueDrains
  ResolvedIsKept
