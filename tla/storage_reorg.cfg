SPECIFICATION Spec
CONSTANTS
    MaxHeight = 4
    Hash <- MCHash
    NoBlock = NoBlock
    Chains <- LateChains
    Checkpoint = 2
    CheckpointHash = "a2"
    Regtest = FALSE
    Address <- OneAddress
    AccountId = {1}
    OutputId = {1, 2}
    Image = {"i", "j"}
    Payments <- MCPayments
    Inputs <- MCInputs
    CreateQueueMax = 1
    AskedHeights = {0, 1, 3}
INVARIANTS
    TypeOK
    ImagesAgree
    BlocksOnOneChain
    AccountsOnChain
    TipComparable
PROPERTIES
    CheckpointFinal
