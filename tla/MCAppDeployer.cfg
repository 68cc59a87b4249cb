SPECIFICATION Spec
CONSTANTS
    NumApps = 2
    Generated <- First
    Mounted <- Second
    Batch <- Second
    Hooked <- First
    Stopping <- First
    StackCallers = {c1}
    GroupCallers = {g1}
    Destroyers = {x1}
    Nobody = nobody
    MaxCrashes = 1
INVARIANTS
    HooksReplaced SecretsRemembered
PROPERTIES
    SuccessIsReal
CHECK_DEADLOCK FALSE
