SPECIFICATION Spec
CONSTANTS
    u1 = u1
    u2 = u2
    u3 = u3
    i1 = i1
    i2 = i2
    Request = {r1, r2, r3}
    User = {u1, u2, u3}
    Group = {g1, g2, g3}
    Invitation = {i1, i2}
    None = None
    Scenario <- MCScenario
SYMMETRY Requests
INVARIANTS OwnerLostOnlyInRace DepartureIsSettled InvitationWorksOnce OneDirectGroup
CHECK_DEADLOCK FALSE
