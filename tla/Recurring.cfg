SPECIFICATION FairSpec
CONSTANTS
    Templates = {t}
    Fills = {f1, f2}
    MaxSlots = 2
    MaxPosts = 3
    MaxEdits = 1
    MaxFaults = 1
CHECK_DEADLOCK FALSE
PROPERTIES
    WeekStart
    SlotsKept
    SlotsRefilled
