SPECIFICATION Spec
CONSTANTS
    Node = {n1, n2, n3}
    Oid = {o1}
    File = {f1}
    Handler = {h1, h2}
    None = None
    Started = {"posted", "suspect", "purging"}
    MinReplicas = 2
    GCGrace = 1
    RemoveGrace = 1
    StaleNodeLimit = 0
    LinkDelay = 0
    PageTime = 0
    MaxTime = 1
SYMMETRY Symmetry
CONSTRAINT Unexposed
PROPERTIES
    EnoughCopies
