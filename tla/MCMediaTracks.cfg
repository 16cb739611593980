CONSTANTS
    Others <- MCOthers
    Offers <- MCOffers
    MaxTracks = 2
    MaxQueue = 2
SPECIFICATION TracksSpec
\* A connection has all its tracks, or is closed.
CHECK_DEADLOCK FALSE
INVARIANTS
    FeedsFollowTracks
    FatesAreTold
    PayloadTypeIsAgreed
