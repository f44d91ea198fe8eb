SPECIFICATION Spec
CONSTANTS
    Boards <- MCOneBoard
    QueueSize = 2
    Batch = 2
    MaxReadings = 2
    Events <- MCStop
INVARIANTS
    OnlineMeansNoOpenAlert
CHECK_DEADLOCK FALSE
