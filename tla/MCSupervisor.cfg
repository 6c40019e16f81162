\* Manual and WATCH calls, a cancellation, hints and shutdown in one instance:
\* two manual and two WATCH calls, one hint slot for two paths, two workers, two
\* receipts.
SPECIFICATION Spec
CONSTANTS
    Paths = {p1, p2}
    Workers = {w1, w2}
    MaxDirtyHints = 1
    MaxReceipts = 2
    Callers <- MCCallers
    Budget <- MCBudget
    Manual = 2
    Watch = 2
    Stop = 1
    MaxEpoch = 3
    MaxOps = 8
SYMMETRY Symmetry
INVARIANTS
    SupervisorInv
    HintsReachTheirAttempt
    ReceiptsTellTheTruth
    ShutdownLeavesNothingRunning
