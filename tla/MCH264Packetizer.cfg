CONSTANTS
    Streams <- MCStreams
    MTU = 3
    MaxPadding = 1
    MaxChunk = 5
    MaxTime = 2
SPECIFICATION PacketizerSpec
CHECK_DEADLOCK FALSE
INVARIANTS
    NalUnitsAreSent
    FramesAreDelimited
