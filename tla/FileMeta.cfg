CONSTANTS
    o1 = o1
    o2 = o2
    x1 = x1
    Oid = {o1, o2}
    Data = {x1}
    NoData = NoData
    Revs <- SomeRevs
    Cond <- AllConds
    Star = Star
    No = No
    Request = {r1, r2, r3}
    Ask <- AllAsks
SPECIFICATION Spec
INVARIANTS
    RevsKept
    ServedAsStored
PROPERTIES
    Versioned
    Conditional
CHECK_DEADLOCK FALSE
