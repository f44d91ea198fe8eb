SPECIFICATION Spec
CONSTANTS
    UplinkSlots = 1
    MaxSlots = 1
    Producers <- MCProducers
    Frames <- MCFrames
    SaneFrames <- MCFrames
    MaxNow = 0
    JobSlots = 2
    Window = 2
    Headers <- MCThreeHeaders
    MaxRequests = 3
    r1 = r1
    r2 = r2
    r3 = r3
SYMMETRY MCAlike
INVARIANTS
    ServerTypeOK
    DedupeRing
    JobSlotOneOwner
    JobQueueHasRoom
    SlotStateTellsOwner
    CancelFlagFresh
    OneCarrier
PROPERTIES
    ImplementsLedger
