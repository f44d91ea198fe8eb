SPECIFICATION FairSpec
CONSTANTS
    Boards <- MCOneBoard
    QueueSize = 2
    Batch = 2
    MaxReadings = 3
    Events <- MCFaults
INVARIANTS
    FleetTypeOK
    EveryReadingAccounted
    OneOpenAlert
    RowsBackState
PROPERTIES
    EveryReadingSettles
