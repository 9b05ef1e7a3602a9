SPECIFICATION Spec
CONSTANTS
    a = a
    b = b
    c1 = c1
    c2 = c2
    Expense = {"e"}
    Member = {a, b}
    Initial <- MCInitial
    Op = {"raise", "remove"}
    Body <- MCBody
    Copy = {c1}
    Workload <- RaceWorkload
    Nobody = Nobody
    Creation = Creation
    MaxFaults = 0
CHECK_DEADLOCK FALSE
PROPERTIES SettledIsFrozen
