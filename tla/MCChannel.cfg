SPECIFICATION FairSpec
CONSTANTS
    Polls = {p1, p2}
    Kinds = {"hidden", "chat", "urgent"}
    Burst = 1
    PageLimit = 1
    PrimeLimit = 2
    ScanLimit = 4
    MaxLog = 3
    Faults = 1
    OverlapPriming = FALSE
    None = None
CHECK_DEADLOCK FALSE
INVARIANTS
    TypeOK
    NothingSkipped
    NoReplay
PROPERTY AllSettled
