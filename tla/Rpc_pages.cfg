\* Calls for any page of a block, as the driver makes them.
CONSTANTS
    main = main  sub = sub
    Servers = {main, sub}
    Offsets <- AnyPages
    Binders = {0, 129}
    MaxCalls = 2
    Faults = {}
    None = None
SPECIFICATION Spec
INVARIANTS ReplyCarriesBinder
CHECK_DEADLOCK FALSE
