CONSTANTS
    Owners = {o1, o2}
    Tasks = {t1, t2, t3}
    NoTask = NoTask
SPECIFICATION Spec
\* The program ends: run() returns and nobody posts any more.
CHECK_DEADLOCK FALSE
INVARIANTS
    TypeOK
    NoLostWakeup
    StoppedIsDrained
PROPERTIES
    ImplementsContract
