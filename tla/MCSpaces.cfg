SPECIFICATION FairSpec
CONSTANTS
    Creator = ann
    Joiners = {ann, bob}
    Clients = {"bridge"}
    Requests = {r1, r2}
    Grace = 2
    MaxTime = 3
    MaxRows = 2
    MaxMembers = 2
    None = None
INVARIANTS
    Membership
    TombstonesReversible
PROPERTIES
    UnwipeShowsAll
    GraceStands
    DisbandedKeepsData
    DisbandEnds
CHECK_DEADLOCK FALSE
