SPECIFICATION SprintsSpec
SYMMETRY Members
CONSTANTS
  alice = alice
  bob = bob
  a = a
  b = b
  dir = dir
  Principals = {alice, bob}
  Space = Space
  NoHead = NoHead
  Never = Never
  Paths = {a, dir}
  Files = {a}
  Touching <- FileAndGlob
  Scopes <- Single
  Places <- LegacyPlace
  Sprints = {s1}
  Heads = {h1}
  AcquiredAt = {NoHead}
  Modes = {"manual_only", "ttl"}
  Leases = {1}
  PendingTTL = 1
  MaxClaims = 2
  MaxPending = 0
  MaxTime = 1
INVARIANTS
  Exclusion
  KeysNameOwnClaims
  LeaseMatchesMode
  EndsOnce
  ArchivedIsQuiet
PROPERTIES
  ImplementsLock
