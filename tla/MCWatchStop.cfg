\* A batch channel that can fill up: one batch waits in it, the next one waits
\* to be sent, and the service does not receive.
SPECIFICATION FairSpec
CONSTANTS
    Files <- MCFiles
    Dirs <- MCDirs
    Root = "root"
    DirOf <- MCDirOf
    Class <- MCClass
    Volatile = {"sub"}
    Payloads <- MCPayloads
    RawCapacity = 1
    BatchCapacity = 1
    MaxBatchPaths = 1
    MaxChanges = 2
    MaxPublications = 1
    MaxFailures = 1
CHECK_DEADLOCK FALSE
PROPERTIES
    StopEnds
