SPECIFICATION Spec
CONSTANTS
    Servers = {a, b}
    Creators = {a}
    Requests = {r1, r2}
    Kinds = {"put", "put_off", "delete", "claim", "up", "refresh", "destroy"}
    MaxRequests = 4
    MaxFaults = 1
SYMMETRY Symmetry
INVARIANTS
    TypeOK NeverMixed HealedByUp
PROPERTIES
    ClaimedInTouch
CHECK_DEADLOCK FALSE
CONSTRAINT
    Few
