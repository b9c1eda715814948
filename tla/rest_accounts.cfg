SPECIFICATION RestSpec
CONSTANTS
    MaxHeight = 1
    Hash <- MCHash
    NoBlock = NoBlock
    NoRequest = NoRequest
    Chains <- MCChains
    Checkpoint = 0
    CheckpointHash = "g"
    Regtest = FALSE
    Address <- MCAddress
    AccountId = {1, 2}
    OutputId = {1}
    Image = {"i"}
    Payments <- MCPayments
    Inputs <- MCInputs
    CreateQueueMax = 1
    AskedHeights = {0, 1}
    Conn = {c1, c2}
    AutoAcceptCreation = TRUE
    AutoAcceptImport = TRUE
SYMMETRY MCSymmetry
INVARIANTS
    KeysUnique
    IndexesAgree
    FulfilledIsStored
