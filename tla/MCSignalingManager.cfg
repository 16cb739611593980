CONSTANTS
    Streams = {s1, s2}
    Infos = {i1}
    Connections = {c1, c2}
    None = None
    MaxAdds = 1
    OneStream = TRUE
    AppDrops = FALSE
SPECIFICATION Spec
\* A device that was stopped comes to rest.
CHECK_DEADLOCK FALSE
INVARIANTS
    ClosesGracefully
    TracksGoToAnOpenStream
PROPERTIES
    ItemsAreDealtWith
    
