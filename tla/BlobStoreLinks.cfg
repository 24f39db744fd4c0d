SPECIFICATION Spec
CONSTANTS
    Node = {n1, n2}
    Oid = {o1}
    File = {f1}
    Handler = {h1, h2}
    None = None
    Started = {"posted", "linkGot", "linkUnsafe", "removing", "gcViewed", "gcEmpty"}
    MinReplicas = 1
    GCGrace = 3
    RemoveGrace = 3
    StaleNodeLimit = 2
    LinkDelay = 1
    PageTime = 1
    MaxTime = 4
SYMMETRY Symmetry
CONSTRAINT Unexposed
INVARIANTS
    RegisteredOnDisk
    GarbageIsOld
    NoGarbagePinned
    PinnedSafe
