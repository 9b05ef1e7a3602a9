SPECIFICATION FairSpec
CONSTANTS
    create = create
    update = update
    delete = delete
    share = share
    settle = settle
    r1 = r1
    r2 = r2
    Kind <- MCKind
    Raise <- MCRaise
    None = None
    Failed = Failed
    Write = {create, update, delete, share, settle}
    Reader = {r1}
    MaxAttempts = 2
    MaxFaults = 2
INVARIANTS AcceptedSettlementIsCleared StaleOnlyWhenOvertaken
PROPERTIES FailureIsExplained EventuallyCurrent
