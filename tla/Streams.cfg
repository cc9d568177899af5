SPECIFICATION A2ASpec
CONSTANTS
    Subscribers = {s1}
    Creators = {k1}
    Pollers = {p1}
    Submissions = {u1}
    MaxCalls = 1
    MaxOverlaps = 1
    MaxReopens = 1
    MaxBreaks = 1
CHECK_DEADLOCK FALSE
INVARIANTS
    A2ATypeOK
    FinalOnce
    ToldTheTruth
PROPERTIES
    SubscriberLearnsEnd
