\* The test reads back a batch whose commit was answered before it arrived.
CONSTANTS
    srv = srv  o1 = o1  o2 = o2  o3 = o3  b1 = b1  b2 = b2
    Servers = {srv}
    Offsets = {o1, o2, o3}
    Blocks = {b1, b2}
    BlockOf <- MCBlockOf
    MaxStores = 2
    AnyStores = 0
    None = None
    NumBufs = 3
    SERVER_BATCH = 2
    Main = srv
    BlockOrder <- MCBlockOrder
    PreAlloc = {b1}
    Unallocatable = {}
SPECIFICATION TestSpec
INVARIANT ReadBackMatches
CHECK_DEADLOCK FALSE
