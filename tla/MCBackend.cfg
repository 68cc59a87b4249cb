SPECIFICATION Spec
CONSTANTS
    Stacks = {s1, s2}
    Foreign <- NoStack
    Ops = {o1, o2}
    Migrations = {m1}
    None = none
    AmbientKeys = TRUE
    MaxCrashes = 1
    MaxSurprises = 1
SYMMETRY Symmetry

    
PROPERTIES
    RefreshKeepsNamed
CONSTRAINT
    Calm
CHECK_DEADLOCK FALSE
