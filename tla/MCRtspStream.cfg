CONSTANTS
    Connections = {c1, c2}
    AnyTime = FALSE
SPECIFICATION Spec
\* A silent server of a session that is removed stops the event queue.
CHECK_DEADLOCK FALSE
INVARIANTS
    TypeOK
    RemovedIsQuiet
    StartedIsWired
PROPERTIES
    StartIsResolved
    RemovalCompletes
