SPECIFICATION Spec
CONSTANTS
    NumWorkers = 1
    NodeCount <- OneNodeEach
    Deploys = {d1}
    Destroys = {x1}
    Nobody = nobody
    Down = down
    MaxAttempts = 2
    MaxCrashes = 0
    OutputsMayFail = TRUE
    WritesMayFail = TRUE
    HasApps = TRUE
PROPERTIES
    DestroyAnswers
CHECK_DEADLOCK FALSE
