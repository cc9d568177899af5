SPECIFICATION FairSpec
CONSTANTS
    Orders = {o1, o2}
    Buyers = {b1}
    Seller = seller
    System = agt_system
    NoOrder = NoOrder
    Prices <- MCPrices
    InitialBalance = 2500
    Http = {h1}
    Cron = {c1}
    Concurrent = FALSE
    MaxRevisions = 1
    MaxFaults = 1
CHECK_DEADLOCK FALSE
INVARIANTS
    OrdersConsistent
    FaultsBoundDamage
PROPERTIES
    OrderEnds
    ImplementsEscrow
