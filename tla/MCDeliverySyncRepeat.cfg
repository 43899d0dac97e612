SPECIFICATION Spec
CONSTANTS
    MaxTries = 2
    NCampaigns = 2
    Devices = {"iphone", "ipad"}
    MaxSpend = 2
    FirstSpend = {1}
    Trouble <- MCTrouble
    ChunkRows = 2
    MaxPages = 2
    MaxRevisions = 1
INVARIANT
    ReadWindowsAreStored
CHECK_DEADLOCK FALSE
