SPECIFICATION FairSpec
CONSTANTS
    e1 = e1
    e2 = e2
    m1 = m1
    m2 = m2
    o1 = o1
    o2 = o2
    n1 = n1
    Key = {e1, e2, m1, m2, o1, o2, n1}
    None = None
    MaxRetries = 2
    PageSize = 2
    Scenario <- MCScenario
INVARIANTS NoEditIsLost PulledIsCurrent
CHECK_DEADLOCK FALSE
PROPERTIES EveryEditIsDecided
