SPECIFICATION Spec
CONSTANTS
    Stacks = {s1, s2}
    Foreign = {s2}
    Ops = {o1, o2}
    Migrations = {m1}
    None = none
    AmbientKeys = TRUE
    MaxCrashes = 1
    MaxSurprises = 1
PROPERTY
    MigratesAllState
CHECK_DEADLOCK FALSE
