SPECIFICATION FairSpec
CONSTANTS
    Radix = 2
    MaxPacketSize = 2
    ReadSize = 3
    MaxFrames = 2
INVARIANTS TypeOK BufferBounded
PROPERTIES Framing NothingHeldBack
CHECK_DEADLOCK FALSE
