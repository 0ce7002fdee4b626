\* Two CPUs store and load with either driver; any one send may fail.
CONSTANTS
    main = main  sub = sub  o1 = o1  o2 = o2  o3 = o3  b1 = b1
    cpu1 = cpu1  cpu2 = cpu2
    Servers = {main, sub}
    Offsets = {o1, o2}
    Blocks = {b1}
    BlockOf <- MCBlockOf
    MaxStores = 2
    None = None
    Cpus = {cpu1, cpu2}
    Main = main
    CtrlOrder <- SubThenMain
    AliveOrders <- MCAliveOrders
    DRIVER_BATCH = 1
    Faults = {"dma", "send"}
    NumBufs = 2
    SERVER_BATCH = 1
    PreAlloc = {}
    Unallocatable = {}
SPECIFICATION AltSpec
SYMMETRY Symmetry
INVARIANTS AltTypeOK CompletionsReachOwners BatchOvershoot StoreIsSent CallsOneAtATime BatchAgrees
PROPERTY AltDriversImplementStore
CHECK_DEADLOCK FALSE
