SPECIFICATION Spec
CONSTANTS
    Node = {n1, n2}
    Oid = {o1}
    File = {f1}
    Handler = {h1, h2}
    None = None
    Started = {"putting", "posted", "reading", "seen", "linkGot", "linkUnsafe", "removing", "blind", "missing", "suspect", "purging", "gcViewed", "gcEmpty"}
    MinReplicas = 1
    GCGrace = 1
    RemoveGrace = 1
    StaleNodeLimit = 0
    LinkDelay = 0
    PageTime = 0
    MaxTime = 1
SYMMETRY Symmetry
CONSTRAINT Unexposed
INVARIANTS
    TypeOK
    Inv
PROPERTY
    CopyFloor
