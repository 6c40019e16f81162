\* Two observed epochs, two attempts, two heads (one may be there at the start)
\* and one metadata change without a head, at most five of these together; it
\* stops only at these bounds.
SPECIFICATION ProbeSpec
CONSTANTS
    MaxEpoch = 2
    MaxOps = 2
    MaxHead = 2
    MaxTouches = 1
    MaxEvents = 5
CONSTRAINT FewEvents
CHECK_DEADLOCK FALSE
INVARIANTS
    ScheduleInv
    UnprovenHeadNoticed
PROPERTIES
    WatchStartsOnlyForNewEpochs
    PublishedOnlyWhatWasCovered
    OwnNeverLooksForeign
