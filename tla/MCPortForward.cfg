SPECIFICATION FairSpec
CONSTANTS
    Forwards = {f1, f2}
    Stops = {x1, x2}
    Conns = {c1, c2}
    Ports = {p1, p2}
    None = none
INVARIANTS
    TypeOK CleanIsClean ListenersListed
PROPERTIES
    StopReturns
CHECK_DEADLOCK FALSE
