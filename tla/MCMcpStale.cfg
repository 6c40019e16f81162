\* One query after another beside a publisher, and a store that is started anew.
SPECIFICATION Spec
CONSTANTS
    MaxInFlight = 1
    MaxRequests = 2
    MaxPublications = 3
    MaxFreshStarts = 1
CHECK_DEADLOCK FALSE
INVARIANTS
    AnswerWasCurrent
