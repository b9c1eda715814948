SPECIFICATION FairSpec
CONSTANTS
    None = None
    Conn = {c1, c2}
    WaitQueueMax = 1
    RandomOutsMax = 1
    SubmitTxMax = 3
    TxSizes = {2}
    Output <- MCOutput
    Locked <- MCLocked
    Mixin = 2
    Mixes <- MCMixes
    PickTries = 2
INVARIANTS
    PoolUsable
    AwaitedOnce
    SubmitBounded
    AnswersAreWhole
PROPERTIES
    EveryRequestAnswered
