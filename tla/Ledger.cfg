SPECIFICATION Spec
CONSTANTS
    a = a
    b = b
    Agents = {a, b}
    System = System
    Conns = {c1, c2}
    Starting <- MCStarting
    NaN = NaN
    Amounts <- MCAmounts
    GigPrices <- MCGigPrices
    CallCounts = {0, 30}
    OtherVerified = 99
    MaxOps = 2
    MaxEmissions = 2
    MaxStarts = 3
    MaxFaults = 1
CHECK_DEADLOCK FALSE
SYMMETRY Symmetry
INVARIANTS
    NoOverdraft
    Reconciles
    OrderedLocks
