CONSTANTS
    Channels = {d1, d2}
    MaxChunks = 3
    NoChannel = NoChannel
    Requests = {r1, r2}
    MaxMessages = 3
SPECIFICATION ChannelsSpec
\* With every transfer over, or the program ended, nothing is left to do.
CHECK_DEADLOCK FALSE
INVARIANTS
    StreamIsDelivered
    AnswersMatch
    CrashNeedsAClose
PROPERTIES
    TransfersEnd
