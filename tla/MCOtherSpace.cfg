SPECIFICATION Spec
CONSTANTS
    ann = ann
    bob = bob
    s = s
    t = t
    Members = {ann, bob}
    Spaces = {s, t}
    Home <- TwoTeams
    Sprints = {x}
    Team = Team
    Ids = {d1, d2}
    MaxEvents = 3
    OneServer = TRUE
    None = None
CHECK_DEADLOCK FALSE
INVARIANT RowsStayHome
