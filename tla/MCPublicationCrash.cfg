\* Two writers in both modes beside a reader, a crash or failed operation, a
\* power loss.
SPECIFICATION Spec
CONSTANTS
    Writers = {w1, w2}
    Readers = {r1}
    Contents = {c1, c2}
    Modes = {"Strict", "RecoverAndRebind"}
    Faults = {}
    FsyncCoversEntry = TRUE
    MaxSequence = 4
    MaxIdentities = 2
    MaxStops = 1
    MaxPowerLosses = 1
    MaxFaults = 0
SYMMETRY Symmetry
CONSTRAINT ReadsEndAtPowerLoss
CHECK_DEADLOCK FALSE
INVARIANTS
    StoreInv
    AckedSurvives
    ReaderServed
PROPERTIES
    PopulationBounded
    ImplementsLog
