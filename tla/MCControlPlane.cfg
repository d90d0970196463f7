SPECIFICATION Spec
CONSTANTS
    Calls = {c1, c2}
    Trial = 1
    MaxTime = 2
    MaxCode = 3
    MaxSpaces = 2
    None = None
SYMMETRY CallSymmetry
CHECK_DEADLOCK FALSE
INVARIANTS
    TypeOK
    OneSpace
    NamesItsRuntime
    DeletedIsDisbanded
    DisplayCatchesUp
    PolicyAgrees
PROPERTY DeletedStays
