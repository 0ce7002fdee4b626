\* Calls for the first page of a block, as the servers' test makes them; every
\* step of a call may fail.
CONSTANTS
    main = main  sub = sub
    Servers = {main, sub}
    Offsets <- BlockStarts
    Binders = {0, 129}
    MaxCalls = 3
    Faults = {"post", "send", "recv"}
    None = None
SPECIFICATION FairSpec
INVARIANTS RpcTypeOK InfoNamesBlock BindersAccounted
PROPERTY CallsReturn
CHECK_DEADLOCK FALSE
