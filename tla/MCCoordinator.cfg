\* Two roots, both policies, two changes of any kind, one failure of any kind.
SPECIFICATION Spec
CONSTANTS
    Roots = {r1, r2}
    NoRoot = NoRoot
    Policies = {"RootLocal", "WholeProvider"}
    Kinds = {"body", "surface", "paths", "top", "tool"}
    MaxEdits = 2
    MaxFailures = 1
INVARIANTS
    CertifiedUnlessMixed
    CoordinatorInv
    SettledIsPublished
    NoAnswerLeftBehind
PROPERTIES
    PreservedMeansUnchanged
    ReuseIsExact
    EventuallyCaughtUp
