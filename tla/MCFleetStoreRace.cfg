SPECIFICATION Spec
CONSTANTS
    Boards <- MCOneBoard
    QueueSize = 2
    Batch = 2
    MaxReadings = 2
    Events <- MCForget
INVARIANTS
    ForgottenStaysForgotten
CHECK_DEADLOCK FALSE
