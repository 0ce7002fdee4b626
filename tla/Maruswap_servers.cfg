\* Both servers answer two CPUs that store, commit and load; every CPU in a call gets
\* the locks it waits for.
CONSTANTS
    main = main  sub = sub  o1 = o1  o2 = o2  o3 = o3  b1 = b1
    cpu1 = cpu1  cpu2 = cpu2
    Servers = {main, sub}
    Offsets = {o1, o2}
    Blocks = {b1}
    BlockOf <- MCBlockOf
    MaxStores = 2
    None = None
    Cpus = {cpu1, cpu2}
    Readers = {cpu1}
    DRIVER_BATCH = 1
    AliveOrder <- BothAlive
    Faults = {}
    NumBufs = 2
    SERVER_BATCH = 1
    PreAlloc = {}
    Unallocatable = {}
SPECIFICATION FairSpec
INVARIANTS PagesAccounted PagesHaveBlocks
PROPERTIES SystemImplementsStore StoresReturn
