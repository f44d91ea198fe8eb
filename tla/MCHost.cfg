SPECIFICATION HostSpec
CONSTANTS
    Keys <- MCKeys
    Upstreams = 2
    MaxInflight = 2
    MaxCache = 1
    MaxQueries = 2
    Faults = {"bind", "store", "crash", "upstream", "prune", "stop"}
    Ips = {"a"}
    MaxHits = 2
    WatchFaults = {"store", "mqtt", "board", "restart"}
    SweepIps = {"a", "b"}
    SweepHost = "h"
    MaxMoves = 3
    Trouble = {"store", "restart", "poke"}
    Boards = {"b1"}
    MaxQueue = 3
    MaxEvents = 2
    PerPost = 2
    FleetPoints = 1
    MaxPoints = 6
    MaxNews = 3
    Dashboards = {"d1", "d2"}
    Clients = {"r"}
    Simulate = FALSE
    MaxChanges = 2
    UsbBoards = {"x", "y"}
    UsbPorts = {"p", "q"}
    MaxPlugs = 2
INVARIANTS
    HostTypeOK
    RowsAccounted
    AlertsFollowActivity
    LightFollows
    PointsAccounted
    VerdictFitsReport
PROPERTIES
    EveryClientAnswered
    JoinerAnnounced
    DashboardsFollow
    BoardsReached
CHECK_DEADLOCK FALSE
