SPECIFICATION Spec
CONSTANTS
    Agents = {a}
    Keys = {k}
    Slots = {s1, s2}
    Limit = 1
    Window = 2
    Expiry = 2
    AutoVerify = FALSE
    MaxRequests = 4
    MaxChallenges = 2
    MaxTime = 5
    MaxFaults = 1
CHECK_DEADLOCK FALSE
SYMMETRY Symmetry
INVARIANTS
    OncePerKey
    BonusOnce
    RateKept
