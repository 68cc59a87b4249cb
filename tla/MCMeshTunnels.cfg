SPECIFICATION RequestsSpec
CONSTANTS
    Shared = shared
    Nodes = {n0}
    Callers = {c1, c2}
    Nobody = nobody
    Addrs = {a1}
    Unknown = unknown
    MaxTries = 2
    MaxEra = 1
INVARIANTS
    TypeOK SlotHasHolder
PROPERTIES
    KeptWhileUsed CallsEnd
