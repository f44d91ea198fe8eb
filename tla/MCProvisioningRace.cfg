SPECIFICATION Spec
CONSTANTS
    Nets = {"A", "B"}
    Hosts = {"h"}
    MaxCommands = 2
    MaxBoots = 0
    Mishaps = {}
INVARIANT TestJoinsStored
CHECK_DEADLOCK FALSE
