\* Wake-ups and termination under fair scheduling of the worker; the bounds on
\* epochs and identities are not reached.
SPECIFICATION FairSpec
CONSTANTS
    Paths = {p1}
    Workers = {w1, w2}
    MaxDirtyHints = 1
    MaxReceipts = 2
    Callers <- MCCallers
    Budget <- MCBudget
    Manual = 1
    Watch = 2
    Stop = 0
    MaxEpoch = 2
    MaxOps = 5
PROPERTIES
    EveryRequestAnswered
    NoMissedUpdate
    EventuallyQuiet
    ShutdownReturns
