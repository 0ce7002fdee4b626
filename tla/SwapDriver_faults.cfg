\* Two CPUs race through stores, commits and loads; every call may fail.
CONSTANTS
    main = main  sub = sub  o1 = o1  o2 = o2  o3 = o3  b1 = b1  cpu1 = cpu1  cpu2 = cpu2
    Servers = {main, sub}
    Offsets = {o1, o2, o3}
    Blocks = {b1}
    BlockOf <- MCBlockOf
    Cpus = {cpu1, cpu2}
    Readers = {cpu1, cpu2}
    DRIVER_BATCH = 2
    AliveOrder <- MCAliveOrder
    MaxStores = 4
    Faults = {"dma", "rpc", "post", "send", "nomem"}
    None = None
SPECIFICATION DriverSpec
SYMMETRY Symmetry
INVARIANTS BatchBound StagedCopyIsLatest StageRefusesNone DriverInv
PROPERTY DriverImplementsStore
