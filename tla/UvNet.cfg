\* Three contexts, as many attempts to connect, lists that are full with one entry; up to two
\* writes under way, of data that fits into a buffer used again and data that does not.
SPECIFICATION FairSpec
CONSTANTS
    Ctxs = {c1, c2, c3}
    Params = {w1, w2}
    backlog = 0
    InitialSize = 2
    SendSizes = {1, 3}
    MaxId = 3
INVARIANTS TypeOK PoolBounded OneOwner Registered WriteSafe WriteFits
PROPERTY ClosedIsForgotten
