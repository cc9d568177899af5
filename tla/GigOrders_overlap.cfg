SPECIFICATION Spec
CONSTANTS
    Orders = {o1}
    Buyers = {b1}
    Seller = seller
    System = agt_system
    NoOrder = NoOrder
    Prices <- TwoPrices
    InitialBalance = 2500
    Http = {h1, h2}
    Cron = {h1, h2}
    Concurrent = TRUE
    MaxRevisions = 1
    MaxFaults = 0
CHECK_DEADLOCK FALSE
SYMMETRY Symmetry
INVARIANTS
    ResolvedOncePerDispute
    EscrowMatchesPrice
    NothingLost
