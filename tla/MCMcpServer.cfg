\* Three requests of which two are in flight, two publications, one loss of
\* the store.
SPECIFICATION FairSpec
CONSTANTS
    MaxInFlight = 2
    MaxRequests = 3
    MaxPublications = 2
    MaxFreshStarts = 1
CHECK_DEADLOCK FALSE
INVARIANTS
    StrictAnswerWasCurrent
    NothingReadIsLost
    ServerInv
PROPERTIES
    EveryRequestAnswered
