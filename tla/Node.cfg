\* A body of three chunks; n1 keeps running and may be late with its heartbeats,
\* n2 also stops and starts; two requests, and a second connection.
SPECIFICATION Spec
CONSTANTS
    Size = 3
    Nothing = Nothing
    Node = {n1, n2}
    Frail = {n2}
    Cleaner = {c1}
    Keys = 1
    MaxRows = 1
    MaxFaults = 1
    Lost = Lost
    Request = {r1, r2}
    MaxClients = 2
    MaxUses = 1
    MaxIdle = 1
INVARIANTS
    UploadRight
    RegistryRight
    ConnectionsRight
PROPERTIES
    DestroysChecked
    NodeSettles
CHECK_DEADLOCK FALSE
