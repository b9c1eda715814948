SPECIFICATION Spec
CONSTANTS
    UInt32Max = 3
    MaxSubaddresses = 4
    MaxHeight = 2
    AccountId = {1, 2}
    Address = {"alice", "bob"}
    Paid <- Climbing
    Asked <- AskSome
    Lookaheads <- LookSome
    Dicts <- FewDicts
    Provisions <- ProvisionMany
    AskedHeights = {2}
    Environment <- AliceMost
INVARIANTS
    WithinLimit
    ListedAreFound
    UpsertExact
    LookaheadCovers
