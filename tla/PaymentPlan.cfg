SPECIFICATION FairPlanSpec
CONSTANTS
    Member = {1, 2, 3, 4, 5}
    Balance <- MCBalance
CHECK_DEADLOCK FALSE
INVARIANTS PlanIsExact
PROPERTIES GroupIsSettled
