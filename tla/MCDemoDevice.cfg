CONSTANTS
    Users = {u1}
    Peers = {c1, c2}
    MaxItems = 1
SPECIFICATION Spec
INVARIANTS
    PairingLasts
PROPERTIES
    StopsCleanly
