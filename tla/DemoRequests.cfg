CONSTANTS
    Files = {f1, f2}
    Requests = {r1}
    None = None
    Blocks = 2
    FileExists = TRUE
    ShortKey = FALSE
SPECIFICATION Spec
\* Clients may have had enough.
CHECK_DEADLOCK FALSE
INVARIANTS
    DownloadIsWhole
PROPERTIES
    RequestsAreAnswered
