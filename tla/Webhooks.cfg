SPECIFICATION MCSpec
CONSTANTS
    Agents = {a, b}
    MaxDeliveries = 2
    Items = {i, j}
    Runs = {r1, r2}
    WarnRuns = {w1, w2}
    Batch = 1
    MaxAttempts = 3
    MaxHeld = 2
    MaxPatches = 1
    MaxFaults = 1
CHECK_DEADLOCK FALSE
INVARIANTS
    WarnedOnce
PROPERTIES
    ThreeStrikes
    RetriedUnlessStarved
