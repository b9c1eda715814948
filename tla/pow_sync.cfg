SPECIFICATION FairSpec
CONSTANTS
    MaxHeight = 5
    Hash <- MCHash
    NoBlock = NoBlock
    Chains <- ThreeChains
    Forged = {"f4", "f5"}
    Checkpoint = 3
    CheckpointHash = "a3"
    Count = 3
    Median = 2
    Sizes = {1, 2, 3}
    TrustedTop = 3
    MaxEvents = 3
INVARIANTS PowsFollowBlocks WindowsExact NoForgedStored
PROPERTIES SyncEnds
CHECK_DEADLOCK FALSE
