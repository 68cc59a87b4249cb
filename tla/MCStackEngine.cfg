SPECIFICATION FairSpec
CONSTANTS
    Stacks = {s1, s2}
    Ops = {o1, o2}
    None = None
    Kinds = {"up", "destroy", "refresh", "deploy-apps"}
    MaxAttempts = 3
INVARIANTS
    TypeOK MutualExclusion LockHasHolder CancelReachesHolder NoZombieRecord RecordTellsTruth
PROPERTIES
    OutcomeFinal Serialised CancelStops LockReleased
