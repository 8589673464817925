SPECIFICATION MCSpec
CONSTANTS
    Xfers = {t1, t2}
    MaxSubmits = 2
    MaxResets = 1
    FaultSets = {{"port"}, {"stuck", "reopen"}}
    Paths = {"p1", "p2", "p3", "q3"}
    Listable = {"p1", "p2", "p3"}
    MatchingPaths = {"p1", "p2", "p3"}
    DeviceOf <- MCDeviceOf
    MaxChanges = 2
    HotplugFaults = {"getmessage", "list"}
    MaxIsoSubmits = 3
    Nodes = {1, 2, 3, 4, 5, 6}
    Hubs = {1, 2, 3}
    RootHubs = {1, 2}
    Parent <- MCParent
    Port <- MCPort
    Interfaces <- MCInterfaces
CHECK_DEADLOCK FALSE
INVARIANTS TypeOK PacketFindsTransfer BufferReturned WatchSound IsoSound ListFaithful
PROPERTIES WatchImplementsContract CallsReturn
