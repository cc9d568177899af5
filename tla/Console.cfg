SPECIFICATION ConsoleFairSpec
CONSTANTS
    Admins = {a1, a2}
    MaxChanges = 2
    MaxCalls = 2
    MaxFailures = 1
CHECK_DEADLOCK FALSE
INVARIANTS
    OwnChangesShown
PROPERTIES
    EnabledBySwitch
    SpinnerStops
