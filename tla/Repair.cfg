CONSTANTS
    n1 = n1
    n2 = n2
    n3 = n3
    b = b
    v = v
    w = w
    NoNode = NoNode
SPECIFICATION Spec
INVARIANT FetchedOnce
PROPERTY Repaired
