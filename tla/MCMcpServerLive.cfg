SPECIFICATION FairSpec
CONSTANTS
    UplinkSlots = 1
    MaxSlots = 1
    Producers <- MCProducers
    Frames <- MCFrames
    SaneFrames <- MCFrames
    MaxNow = 1
    JobSlots = 1
    Window = 1
    Headers <- MCHeaders
    MaxRequests = 2
    r1 = r1
    r2 = r2
    r3 = r3
PROPERTIES
    EveryRequestSettles
