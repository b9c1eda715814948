SPECIFICATION FairSpec
CONSTANTS
    MaxHeight = 6
    Hash <- MCHash
    NoBlock = NoBlock
    Chains <- TwoChains
    Checkpoint = 4
    CheckpointHash = "a4"
    Regtest = FALSE
    Address <- TwoAddresses
    AccountId = {1,2}
    OutputId = {1, 2}
    Image = {"i", "j"}
    Payments <- MCPayments
    Inputs <- MCInputs
    CreateQueueMax = 0
    AskedHeights = {0,1,5}
    Thread = {1, 2}
    None = None
    InitialTop = 4
    Environment <- Settings
    ReplaceThreshold = 2

    
PROPERTIES
    ImplementsStorage
    EventuallyCaughtUp
CHECK_DEADLOCK FALSE
