CONSTANTS
    MaxReads = 4
    MaxSends = 2
    MaxAdds = 1
SPECIFICATION Spec
\* A released stream is at rest.
CHECK_DEADLOCK FALSE
INVARIANTS
    TypeOK
    NoFutureClash
    ReadLoop
    WriteLoop
    FreedAfterLastRead
PROPERTIES
    ClosedIsReleased
    DeferredTracksAreAdded
