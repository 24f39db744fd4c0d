\* One command or one reader at a time, with one or two failing calls.  Files of up
\* to three bytes are read from two nodes, with all calls or with Read only; three
\* names and two blobs are downloaded.
SPECIFICATION Spec
CONSTANTS
    w1 = w1
    w2 = w2
    Node = {n1, n2}
    MaxLength = 3
    Buf = {0, 1, 4}
    Uses = {{"Read", "ReadAt", "WriteTo", "Seek"}, {"Read"}}
    HandleFaults = 1
    a = a
    b = b
    c = c
    File = {a, b, c}
    Oid = {o1, o2}
    MaxInode = 5
    Priors <- SomePriors
    Tries = 2
    DownloadFaults = 2
    None = None
    Old = Old
    Torn = Torn
INVARIANTS
    ListingRight
    ExitZeroSynced
    HandleRight
    DownloadRight
PROPERTIES
    KeepsLocal
    ClientEnds
CHECK_DEADLOCK FALSE
