CONSTANTS
    n1 = n1
    n2 = n2
    b = b
    c = c
    w = w
    NoNode = NoNode
SPECIFICATION Spec
PROPERTIES
    Repaired
    Pruned
    JobsEnd
