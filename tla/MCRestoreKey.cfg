SPECIFICATION Spec
CONSTANTS
    Creator = ann
    Joiners = {ann, bob}
    Clients = {"bridge", "channel"}
    Requests = {r1, r2}
    Grace = 2
    MaxTime = 3
    MaxRows = 2
    MaxMembers = 2
    None = None
INVARIANT CreatorKeepsKey
CHECK_DEADLOCK FALSE
