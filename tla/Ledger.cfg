SPECIFICATION Spec
CONSTANTS
    a = a
    b = b
    c1 = c1
    c2 = c2
    Expense = {"e"}
    Member = {a, b}
    Initial <- MCInitial
    Op = {"raise", "blind", "remove", "wrong", "drop", "restore", "adjust"}
    Body <- MCBody
    Copy = {c1, c2}
    Workload <- MCWorkload
    Nobody = Nobody
    Creation = Creation
    MaxFaults = 1
CHECK_DEADLOCK FALSE
INVARIANTS FeedReproducesLedger AppliedOnce
PROPERTIES ClosedStaysClosed NoLostUpdate
