SPECIFICATION Spec
CONSTANTS
    Network = {"m1", "m2"}
    AdGroups = {"g1"}
    Mmp = {"t1", "t2", "t3", "t4"}
    Names = {"A", "B", "x"}
    WholeName <- MCWholeName
    Embedded <- MCEmbedded
    Worlds <- MCWorlds
    Organic = {"t3"}
    Delivering = {"m1"}
    worker = worker
    api = api
    Runners = {worker, api}
    MaxRuns = 2
    MaxChanges = 1
    Countries = {"c1", "c2"}
    Delivered <- MCDelivered
    Attributed <- MCAttributed
    SpendIn <- MCSpendIn
    RevenueIn <- MCRevenueIn
    AccountOf <- MCAccountOf
    Filters <- MCFilters
    Contexts <- MCContexts
SYMMETRY Symmetry
INVARIANTS
    TypeOK
    DecisionsStand
    CreditedOnce
    DeclaredIsLinked
    StaleOnlyByOverlap
    
    
    
    TableShowsLinks
    OneSidedIsContested
CHECK_DEADLOCK FALSE
