SPECIFICATION FairSpec
CONSTANTS
    c1 = c1
    c2 = c2
    Account = {1, 2}
    MaxHeight = 2
    Client = {c1, c2}
    Remotes <- MCRemotes
    Local = Local
    None = None
    Setups <- SomeSetups
    InitialTop = 1
    RemoteThreshold = 2
    ReplaceThreshold = 1
    Width = 8
INVARIANTS
    NobodyForgotten
PROPERTIES
    ImplementsService
    EventuallyScanned
CHECK_DEADLOCK FALSE
