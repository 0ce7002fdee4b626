SPECIFICATION ConnectionsFairSpec
CONSTANTS
    Main = Main
    Sub = Sub
    Mcast = Mcast
INVARIANTS
    ConnectionsTypeOK
    LoadedUsable
    UnloadedQuiet
    MisusedOnlyAfterError
PROPERTIES
    LoadEnds
\* a module that is loaded, failed or unloaded may see no further event
CHECK_DEADLOCK FALSE
