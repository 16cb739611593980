CONSTANTS
    MaxDevice = 1
    MaxClient = 1
    AnyTime = TRUE
SPECIFICATION Spec
\* With every offer answered the two ends are at rest.
CHECK_DEADLOCK FALSE
INVARIANT OffersAreAnswered
