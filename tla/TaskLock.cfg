CONSTANTS
    n1 = n1
    n2 = n2
    garbageCollectBlobs = garbageCollectBlobs
    ensureMinReplCount = ensureMinReplCount
    None = None
    Node = {n1, n2}
    Global = {garbageCollectBlobs, ensureMinReplCount}
    Local = {}
    Excl <- EachOther
    Period <- OnePeriod
    RunTTL = 1
    Paging = {garbageCollectBlobs}
    Forgotten = {}
    Induced = {}
    Launched <- TwoTasks
SPECIFICATION MCSpec
CONSTRAINT OneSwept
INVARIANTS
    TypeOK
    Exclusion
PROPERTY
    LeaseSpec
