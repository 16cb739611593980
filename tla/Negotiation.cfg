CONSTANTS
    MaxDevice = 3
    MaxClient = 2
    AnyTime = FALSE
SPECIFICATION Spec
\* With every offer answered the two ends are at rest.
CHECK_DEADLOCK FALSE
INVARIANTS
    OffersAreAnswered
PROPERTIES
    AnswersFit
    Settles
