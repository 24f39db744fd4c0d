\* Two blobs, four paths, two files; pages of two rows.
SPECIFICATION Spec
CONSTANTS
    n1 = n1
    File = {f}
    Node = {n1}
    Self = n1
    Fetcher = {w1, w2}
    Name = {a, b}
    x = x
    y = y
    Proc = {p1, p2}
    NoBackup = NoBackup
    NoOid = NoOid
INVARIANTS
    ViewsComplete
    WalkRight
    FsckRight
    BackupRight
PROPERTIES
    OnlyGarbage
    ScansEnd
CHECK_DEADLOCK FALSE
