SPECIFICATION Spec
CONSTANTS
    NumWorkers = 2
    NodeCount <- OneNodeEach
    Deploys = {d1}
    Destroys = {x1}
    Nobody = nobody
    Down = down
    MaxAttempts = 2
    MaxCrashes = 1
    OutputsMayFail = FALSE
    WritesMayFail = FALSE
    HasApps = TRUE
INVARIANTS
    TypeOK QuietStatusFinal PrimaryLast AloneIsRegistered
PROPERTIES
    WorkersAfterPrimary DeployedIsWired
CHECK_DEADLOCK FALSE
