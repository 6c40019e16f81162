\* Every graph of the small workspace, through every pass.
SPECIFICATION Spec
CONSTANTS
    Nodes <- Names
    KindOf <- MCKind
    FileOf <- MCFile
    ShortName <- MCShortName
    NamedWithin <- MCNamedWithin
    Contains <- MCContains
    Implements <- MCImplements
    StdMarkers = {"Eq"}
    Entries = {"main"}
    TestFns = {"check"}
    Unrecorded = {"mockImpl"}
    Library = {"type.rs", "other.rs"}
    Excluded = {"tests.rs"}
    Graphs <- MCGraphs
CHECK_DEADLOCK FALSE
INVARIANTS
    ClassifierInv
    ResidualIsUnreachable
    TestCodeIsNeverLive
PROPERTIES
    RoundsOnlyLift
