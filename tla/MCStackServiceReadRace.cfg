SPECIFICATION SvcSpec
CONSTANTS
    Stacks = {s1}
    Ops = {o1, o2}
    None = None
    Kinds = {"up", "destroy"}
    MaxAttempts = 1
    Readers = {r1}
    Removers = {}
    Window = 20
PROPERTIES
    ReadKeepsLiveAddress
