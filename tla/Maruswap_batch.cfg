\* The main server alone is alive; two CPUs store and load; pages may be lost on their
\* way to it, and a commit then waits for ever; a call may fail, before or after the
\* server has it.
CONSTANTS
    main = main  sub = sub  o1 = o1  o2 = o2  o3 = o3  b1 = b1
    cpu1 = cpu1  cpu2 = cpu2
    Servers = {main, sub}
    Offsets = {o1, o2}
    Blocks = {b1}
    BlockOf <- MCBlockOf
    MaxStores = 3
    None = None
    Cpus = {cpu1, cpu2}
    Readers = {cpu1, cpu2}
    DRIVER_BATCH = 2
    AliveOrder <- OnlyMain
    Faults = {"loss", "rpc"}
    NumBufs = 3
    SERVER_BATCH = 2
    PreAlloc = {b1}
    Unallocatable = {}
SPECIFICATION Spec
SYMMETRY Symmetry
INVARIANTS TypeOK CommitDurableUnlessEarly PagesAccounted
PROPERTY SystemImplementsStore
CHECK_DEADLOCK FALSE
