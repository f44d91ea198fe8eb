SPECIFICATION Spec
CONSTANTS
    UplinkSlots = 2
    MaxSlots = 2
    Producers <- MCProducers
    Frames <- MCFrames
    SaneFrames <- MCFrames
    MaxNow = 2
    JobSlots = 1
    Window = 1
    Headers <- MCBroadcast
    MaxRequests = 1
    r1 = r1
    r2 = r2
    r3 = r3
PROPERTIES
    ImplementsLedger
