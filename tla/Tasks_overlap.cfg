SPECIFICATION Spec
CONSTANTS
    Tasks = {t1}
    Workers = {w1, w2}
    Subs = {s1, s2}
    NoTask = NoTask
    NoWorker = NoWorker
    NoSub = NoSub
    Kinds = {"rest", "system"}
    Reviewed = {TRUE, FALSE}
    Http = {h1, h2}
    Cron = {h1, h2}
    Concurrent = TRUE
    MaxFaults = 0
CHECK_DEADLOCK FALSE
SYMMETRY Symmetry
INVARIANTS
    NothingLost
PROPERTIES
    SystemExecutorKept
