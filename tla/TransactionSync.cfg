SPECIFICATION Spec
CONSTANTS
    a = a
    b = b
    k1 = k1
    k2 = k2
    Record = {1, 2}
    Body = {a, b}
    Key = {k1, k2}
    Request = {r1, r2, r3}
    None = None
    MaxClock = 3
    Scenario <- MCScenario
SYMMETRY Requests
INVARIANTS AnswersStayTrue ClaimAnsweredOnce OnlyOvertakenIsSkipped
CHECK_DEADLOCK FALSE
