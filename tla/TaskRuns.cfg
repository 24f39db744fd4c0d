CONSTANTS
    n1 = n1
    garbageCollectBlobs = garbageCollectBlobs
    quickReconcile = quickReconcile
    None = None
    Node = {n1}
    Global = {garbageCollectBlobs, ensureMinReplCount}
    Local = {quickReconcile}
    Excl <- EachOther
    Period <- OnePeriod
    RunTTL = 1
    Paging = {garbageCollectBlobs}
    Forgotten = {quickReconcile}
    Induced = {quickReconcile}
    Launched <- GlobalJobs
SPECIFICATION RunsSpec
INVARIANT Inv
PROPERTY RunsEnd
