SPECIFICATION FairSpec
CONSTANTS
    Validators = {v1, v2, v3}
    Http = {h1, h2}
    Cron = {h1, h2}
    MaxFaults = 2
    FaultsBesideOverlap = FALSE
CHECK_DEADLOCK FALSE
INVARIANTS
    JudgedOnce
    NotRewardedAndPenalised
    VerdictMovesPrice
    PayoutsAccounted
PROPERTIES
    MajorityDecides
    Decided
