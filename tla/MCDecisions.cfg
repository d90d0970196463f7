SPECIFICATION Spec
CONSTANTS
    ann = ann
    bob = bob
    s = s
    t = t
    Members = {ann, bob}
    Spaces = {s}
    Home <- OneTeam
    Sprints = {x}
    Team = Team
    Ids = {d1, d2}
    MaxEvents = 4
    OneServer = TRUE
    None = None
SYMMETRY Alike
CHECK_DEADLOCK FALSE
INVARIANTS
    OrderlyHistory
    PlansAreExclusive
    EveryoneTold
