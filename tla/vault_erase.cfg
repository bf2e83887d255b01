SPECIFICATION FairSpec
CONSTANTS
    k1 = k1  k2 = k2
    w1 = w1  w2 = w2
    c1 = c1  c2 = c2
    Keys = {k1, k2}
    Workers = {w1, w2}
    Crons = {c1}
    Limit = 2
    Stuck = 1
    MaxTasks = 4
    MaxFaults = 1
CHECK_DEADLOCK FALSE
INVARIANT TypeOK
INVARIANT NothingForgotten
INVARIANT DoneMeansGone
INVARIANT MetadataGoesWithBytes
PROPERTY DeletedGoesAway
