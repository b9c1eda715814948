SPECIFICATION ScannerSpec
CONSTANTS
    MaxHeight = 5
    Hash <- MCHash
    NoBlock = NoBlock
    Chains <- OneChain
    Checkpoint = 5
    CheckpointHash = "a5"
    Regtest = FALSE
    Address <- TwoAddresses
    AccountId = {1,2}
    OutputId = {1, 2}
    Image = {"i", "j"}
    Payments <- MCPayments
    Inputs <- MCInputs
    CreateQueueMax = 0
    AskedHeights = {0,2}
    Thread = {1}
    None = None
    InitialTop = 5
    Environment <- ReplaceSettings
    ReplaceThreshold = 2
INVARIANTS
    EveryScannedBlockStored
CHECK_DEADLOCK FALSE
