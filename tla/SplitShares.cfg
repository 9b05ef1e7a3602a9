SPECIFICATION SplitSpec
CONSTANTS
    Totals <- MCTotals
    Values <- MCValues
    MaxMembers = 4
    Itemized <- MCItemized
    Refused = Refused
CHECK_DEADLOCK FALSE
INVARIANTS SharesAddUp RoundingIsFair PreviewIsStored ReceiptIsPaid
