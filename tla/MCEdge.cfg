SPECIFICATION EdgeSpec
CONSTANTS
    LineKinds = {"write", "manifest", "initialize", "ping", "noise", "malformed"}
    Ids = {"given", "none"}
    OtherKinds = {"read", "command", "query", "resource"}
    MaxLines = 1
    MaxOther = 1
    Trouble = {"slow", "server", "store", "board", "broker", "cancel", "twice"}
    MaxFaults = 2
    Sites = {"a", "b"}
    Configured = "a"
    Threshold = 2
    MaxMoves = 2
    AgentTrouble = {"host", "drop", "stop", "crash", "storage"}
    Nets = {"A"}
    Hosts = {"h"}
    MaxCommands = 2
    MaxBoots = 1
    Mishaps = {"storage", "link", "power"}
INVARIANTS
    EdgeTypeOK
    CallGetsItsReply
    WaitersExact
    PresenceIsTrue
    MetaSurvives
    OneAnswer
    RadioKeepsTrying
    LinkKeyTrue
PROPERTIES
    EveryLineAnswered
    FallsBack
CHECK_DEADLOCK FALSE
