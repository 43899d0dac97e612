SPECIFICATION FairSpec
CONSTANTS
    MaxTries = 2
    NCampaigns = 2
    Devices = {"iphone", "android_smartphone"}
    MaxSpend = 1
    FirstSpend = {1}
    Trouble <- MCTrouble
    ChunkRows = 2
    MaxPages = 2
    MaxRevisions = 2
INVARIANTS
    TypeOK
    StoredAsRead
    TracedToRaw
    
    GenerationsAreRevisions
PROPERTY
    WindowsEnd
CHECK_DEADLOCK FALSE
