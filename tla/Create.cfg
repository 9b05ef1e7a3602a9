\* Four requests, two of them at a time, and one fault; the group is
\* archived, or the expense deleted, or the sender leaves and comes back.
SPECIFICATION FairSpec
CONSTANTS
    expense = expense
    settlement = settlement
    p1 = p1
    p2 = p2
    c1 = c1
    c2 = c2
    Key = {expense, settlement}
    Settlement = {settlement}
    Queued = {expense}
    sender = sender
    User = {sender}
    Sender <- MCSender
    Payload = {p1, p2}
    Names <- MCNames
    Invalid = {}
    Copy = {c1, c2}
    Call <- MCCall
    Nobody = Nobody
    Absent = Absent
    MaxInFlight = 2
    MaxFaults = 1
INVARIANTS AppliedIsDurable NoMixedAnswers LedgerIsSerialised
ACTION_CONSTRAINT OneDisturbance
PROPERTIES ImplementsCreateOnce EveryIntentIsAnswered CommittedReachesFeed
\* The system stops once every intent has its final answer.
CHECK_DEADLOCK FALSE
