SPECIFICATION FairSpec
CONSTANTS
    t1 = t1
    s1 = s1
    NoSub = NoSub
    Block = Block
    Txs = {t1}
    Subaddrs = {s1}
    Pays <- PaysOne
    Rings <- RingsOne
    Readers = {r1, r2}
    MaxBlocks = 2
INVARIANTS RepliesExact NoGhosts
PROPERTIES MinedLeaves
CHECK_DEADLOCK FALSE
