SPECIFICATION UplinkFairSpec
CONSTANTS
    UplinkSlots = 4
    MaxSlots = 4
    Producers <- MCProducers
    Frames <- MCFrames
    SaneFrames <- MCSaneFrames
    MaxNow = 2
INVARIANTS
    OneOwner
    NeverFull
PROPERTIES
    ImplementsChannel
    BuffersComeBack
