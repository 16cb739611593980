CONSTANTS
    Connections = {c1, c2, c3}
    RtpConnections = {c1, c2}
    Early = FALSE
    MaxEnds = 3
    MaxPackets = 3
SPECIFICATION MediaSpec
INVARIANTS
    FeedIsServed
    FramesAreWhole
PROPERTIES
    FeedIsRead
    FeedIsReleased
CHECK_DEADLOCK FALSE
