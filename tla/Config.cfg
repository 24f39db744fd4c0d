\* Two administrators and nodes, two values of each parameter; two updaters, a job
\* and the heartbeat, and 0 is a period that no ticker takes.
SPECIFICATION Spec
CONSTANTS
    Server = {n1, n2}
    Admin = {a1, a2}
    Param = {"minrepl", "maxrepl"}
    Val = {1, 2}
    Default <- AllFirst
    Strange = "strange"
    Foreign <- SomeDocs
    NoDoc = NoDoc
    MaxEdits = 2
    Job = {j1}
    HB = hb
    Updater = {u1, u2}
    Period = {0, 1, 2}
    Day = 3
    Cap = 1
    MaxPuts = 1
INVARIANTS
    ConfigRight
PROPERTIES
    ConfigReaches
CHECK_DEADLOCK FALSE
