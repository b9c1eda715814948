SPECIFICATION FairSpec
CONSTANTS
    MaxHeight = 3
    Paying <- OneOutput
    MaxReorgs = 1
    HighWater = 1
    QueueMax = 1
    OnTip = 1
    MaxEvents = 3
INVARIANTS NoSilentGap 
PROPERTIES FlushedFirst EventuallyReleased
CHECK_DEADLOCK FALSE
