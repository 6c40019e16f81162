\* Two writers in both modes, a crash, a power loss, and a media fault in a head
\* record, a database or the repository record, which may also be lost.
SPECIFICATION Spec
CONSTANTS
    Writers = {w1, w2}
    Readers = {}
    Contents = {c1}
    Modes = {"Strict", "RecoverAndRebind"}
    Faults = {"head", "generation", "repository"}
    FsyncCoversEntry = TRUE
    MaxSequence = 4
    MaxIdentities = 3
    MaxStops = 1
    MaxPowerLosses = 1
    MaxFaults = 1
SYMMETRY Symmetry
CHECK_DEADLOCK FALSE
INVARIANTS
    OneFaultTolerated
PROPERTIES
    RebindsOnlyToWholeGeneration
