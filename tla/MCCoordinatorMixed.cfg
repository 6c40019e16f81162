\* A root-local policy, two changes, no failure.
SPECIFICATION Spec
CONSTANTS
    Roots = {r1, r2}
    NoRoot = NoRoot
    Policies = {"RootLocal"}
    Kinds = {"body", "top"}
    MaxEdits = 2
    MaxFailures = 0
INVARIANT
    CertifiedMatchesSources
