\* One server whose two threads race, under any client and under the test client;
\* block b2 cannot be had.
CONSTANTS
    srv = srv  o1 = o1  o2 = o2  o3 = o3  b1 = b1  b2 = b2
    Servers = {srv}
    Offsets = {o1, o2, o3}
    Blocks = {b1, b2}
    BlockOf <- MCBlockOf
    MaxStores = 6
    AnyStores = 4
    None = None
    NumBufs = 3
    SERVER_BATCH = 2
    Main = srv
    BlockOrder <- MCBlockOrder
    PreAlloc = {b1}
    Unallocatable = {b2}
SPECIFICATION TestFairSpec
INVARIANTS TestTypeOK BuffersConserved PostedBuffersCleanUnlessClash
    NoPageDroppedUnlessClash ReadBackMatchesUnlessEarly
PROPERTIES MemoryMovesForwardUnlessClash TestEnds
CHECK_DEADLOCK FALSE
