SPECIFICATION FairSpec
CONSTANTS
    c1 = c1
    c2 = c2
    c3 = c3
    e1 = e1
    e2 = e2
    Cpus = {c1, c2}
    Entries = {e1, e2}
    MaxCalls = 5
INVARIANTS
    TypeOK
    GracePeriod
    GenerationPromised
PROPERTIES
    RunsInOrder
    CallbackRuns
CHECK_DEADLOCK FALSE
