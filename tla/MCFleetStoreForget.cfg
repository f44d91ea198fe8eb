SPECIFICATION Spec
CONSTANTS
    Boards <- MCTwoBoards
    QueueSize = 2
    Batch = 2
    MaxReadings = 2
    Events <- MCCalls
INVARIANTS
    ForgetPurges
