\* The driver's batch is twice the server's, as 1024 is 512.
CONSTANTS
    main = main  sub = sub  o1 = o1  o2 = o2  o3 = o3  b1 = b1
    cpu1 = cpu1  cpu2 = cpu2
    Servers = {main, sub}
    Offsets = {o1, o2}
    Blocks = {b1}
    BlockOf <- MCBlockOf
    MaxStores = 3
    None = None
    Cpus = {cpu1}
    Readers = {}
    DRIVER_BATCH = 2
    AliveOrder <- OnlyMain
    Faults = {}
    NumBufs = 2
    SERVER_BATCH = 1
    PreAlloc = {b1}
    Unallocatable = {}
SPECIFICATION Spec
INVARIANT NoPageDropped
