\* A store is staged between the clear of the stage and the reset of its count.
CONSTANTS
    main = main  sub = sub  o1 = o1  o2 = o2  o3 = o3  b1 = b1  cpu1 = cpu1  cpu2 = cpu2
    Servers = {main, sub}
    Offsets = {o1, o2, o3}
    Blocks = {b1}
    BlockOf <- MCBlockOf
    Cpus = {cpu1, cpu2}
    Readers = {}
    DRIVER_BATCH = 2
    AliveOrder <- MCAliveOrder
    MaxStores = 4
    Faults = {}
    None = None
SPECIFICATION DriverSpec
INVARIANT StageIntact
