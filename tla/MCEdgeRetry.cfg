SPECIFICATION Spec
CONSTANTS
    LineKinds = {"write"}
    Ids = {"given"}
    OtherKinds = {"read"}
    MaxLines = 1
    MaxOther = 1
    Trouble = {"slow"}
    MaxFaults = 1
INVARIANTS
    CarriedOutOnce
CHECK_DEADLOCK FALSE
