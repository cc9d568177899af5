SPECIFICATION Spec
CONSTANTS
    Gigs = {g}
    Orders = {o}
    Requests = {r1, r2}
    MaxObjects = 3
    MaxMoves = 2
    MaxFaults = 1
CHECK_DEADLOCK FALSE
SYMMETRY Symmetry
INVARIANTS
    StoreMatchesRows
PROPERTIES
    DeliveryStays
