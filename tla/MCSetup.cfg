SPECIFICATION FairSpec
CONSTANTS
    b1 = b1
    b2 = b2
    k1 = k1
    Users = {u1}
    Imports = {i1, i2}
    Exports = {e1}
    Backups <- TwoBackups
    Keys = {k1, k3, k4}
    NoKey = nokey
    NoFile = nofile
    KeyFrom = "file"
    MaxFaults = 1
INVARIANTS
    TypeOK Readable ExportsUsable
PROPERTIES
    UsersKept WritesReturn
CHECK_DEADLOCK FALSE
