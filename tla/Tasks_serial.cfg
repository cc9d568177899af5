SPECIFICATION Spec
CONSTANTS
    Tasks = {t1}
    Workers = {w1, w2, w3}
    Subs = {s1, s2, s3}
    NoTask = NoTask
    NoWorker = NoWorker
    NoSub = NoSub
    Kinds = {"rest", "system", "a2a", "recurring"}
    Reviewed = {TRUE, FALSE}
    Http = {h1}
    Cron = {c1}
    Concurrent = FALSE
    MaxFaults = 2
CHECK_DEADLOCK FALSE
SYMMETRY Symmetry
INVARIANTS
    TypeOK
    TasksConsistent
    FaultsBoundDamage
PROPERTIES
    ImplementsEscrow
