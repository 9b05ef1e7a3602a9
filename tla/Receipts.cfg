SPECIFICATION Spec
CONSTANTS
    k1 = k1
    k2 = k2
    k3 = k3
    Event = {1, 2}
    Scan = {3}
    Key = {k1, k2, k3}
    Message <- MCMessage
    Request = {r1, r2, r3, r4}
    None = None
    MaxClock = 3
    Workload <- MCWorkload
SYMMETRY Requests
INVARIANTS EventTakenOnce RetryIsAnswered DecisionIsFinal GroupReceiptsStayOut OnlyOvertakenIsSkipped
CHECK_DEADLOCK FALSE
