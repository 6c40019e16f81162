\* The debouncer, the service and the world around them: two changes, so that
\* the queue drops an event, a batch overflows and a directory is replaced;
\* one publication with declared inputs; one failing registration.  The batch
\* channel takes one batch, and the next one waits for room.
SPECIFICATION FairSpec
CONSTANTS
    Files <- MCFiles
    Dirs <- MCDirs
    Root = "root"
    DirOf <- MCDirOf
    Class <- MCClass
    Volatile = {"sub"}
    Payloads <- MCPayloads
    RawCapacity = 1
    BatchCapacity = 1
    MaxBatchPaths = 1
    MaxChanges = 2
    MaxPublications = 1
    MaxFailures = 1
CHECK_DEADLOCK FALSE
INVARIANTS
    WatchInv
PROPERTIES
    PopulationKept
    AcceptedEventReported
    EveryChangeReported
    StopEndsUnlessWedged
