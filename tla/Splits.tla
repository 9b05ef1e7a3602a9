------------------------------- MODULE Splits -------------------------------
(* Dividing the total of an expense: the app computes the shares it shows    *)
(* (fast_split_calculator.dart) and keeps them in its offline record, sends  *)
(* the request, and the backend computes the shares it stores                *)
(* (group_expense_service.py). The participants are the positions of the     *)
(* request; a value is a percentage in basis points or an amount.            *)
(* An itemized request says for each line of a receipt, and for each extra   *)
(* amount, who pays how much of it; what it says of quantities is left out.  *)
EXTENDS Integers, Sequences, FiniteSets, SequencesExt

CONSTANTS
    Totals,      \* totals that may be entered
    Values,      \* percentages or amounts that may be entered
    MaxMembers,  \* most participants of a request
    Itemized,    \* itemized requests that may be sent
    Refused      \* no shares: the app blocks the button, the backend answers 4xx

Share      == [user: Nat, amount: Nat]
Assignment == [line: Nat, user: Nat, amount: Nat]
Extra      == [amount: Nat, shares: SUBSET Share]

\* The lines belong to a receipt in the cloud or to the draft that comes along.
ItemizedRequest ==
    [type: {"itemized"}, draft: BOOLEAN, total: Int, lines: Seq(Nat),
     assigned: SUBSET Assignment, extras: SUBSET Extra]

ASSUME SplitAssumption ==
    /\ Totals \subseteq Int /\ Values \subseteq Nat /\ MaxMembers \in Nat
    /\ Itemized \subseteq ItemizedRequest
    /\ \A q \in Itemized : /\ IsFiniteSet(q.assigned) /\ IsFiniteSet(q.extras)
                           /\ \A e \in q.extras : IsFiniteSet(e.shares)
    /\ Refused \notin Seq(Nat)

Whole == 10000

SplitRequest ==
    [type : {"equal", "percentage", "fixed_amount"},
     total : Totals,
     values : UNION {[1..n -> Values] : n \in 1..MaxMembers}]

VARIABLES
    request,  \* what is entered
    preview,  \* the shares on the device
    stored,   \* the shares in the database
    step      \* "form", "sent" or "done"

splitVars == <<request, preview, stored, step>>

SplitInit ==
    /\ request \in SplitRequest \union Itemized
    /\ preview = <<>>
    /\ stored = <<>>
    /\ step = "form"

Total(shares) == FoldFunction(LAMBDA x, y : x + y, 0, shares)

Floors(total, points) == [i \in DOMAIN points |-> (total * points[i]) \div Whole]

-----------------------------------------------------------------------------
(* The device. *)

\* The units left over go round the participants with a percentage.
PreviewPercentages(total, points) ==
    LET floors == Floors(total, points)
        rest == total - Total(floors)
        Paying(last) == {j \in 1..last : points[j] > 0}
        all == Cardinality(Paying(Len(points)))
    IN  [i \in DOMAIN points |->
            floors[i] +
            IF points[i] = 0 THEN 0
            ELSE rest \div all
                 + (IF Cardinality(Paying(i)) <= rest % all THEN 1 ELSE 0)]

PreviewEqual(total, n) ==
    [i \in 1..n |-> total \div n + (IF i - 1 < total % n THEN 1 ELSE 0)]

\* The calculator throws, or the shares do not balance: the form is not sent.
PreviewShares(q) ==
    CASE q.total <= 0 -> Refused
      [] q.total > 0 /\ q.type = "equal" -> PreviewEqual(q.total, Len(q.values))
      [] q.total > 0 /\ q.type = "percentage" ->
            IF (\A i \in DOMAIN q.values : q.values[i] <= Whole)
               /\ Total(q.values) = Whole
            THEN PreviewPercentages(q.total, q.values)
            ELSE Refused
      [] q.total > 0 /\ q.type = "fixed_amount" ->
            IF Total(q.values) = q.total THEN q.values ELSE Refused

Send ==
    /\ step = "form"
    /\ request.type # "itemized"
    /\ preview' = PreviewShares(request)
    /\ preview' # Refused
    /\ step' = "sent"
    /\ UNCHANGED <<request, stored>>

\* Any other client of the API sends the request without a calculation.
SendDirectly ==
    /\ step = "form"
    /\ request.type # "itemized"
    /\ step' = "sent"
    /\ UNCHANGED <<request, preview, stored>>

\* The route hands lines, assignments and extra amounts on.
SendItemized ==
    /\ step = "form"
    /\ request.type = "itemized"
    /\ step' = "sent"
    /\ UNCHANGED <<request, preview, stored>>

-----------------------------------------------------------------------------
(* The backend. *)

\* Mutant: the rest starts with the second participant.
RestFromSecond(total, n) ==
    [i \in 1..n |-> total \div n + (IF i - 1 \in 1..total % n THEN 1 ELSE 0)]

\* The first total % n participants pay one unit more.
EqualShares(total, n) ==
    [i \in 1..n |-> total \div n + (IF i <= total % n THEN 1 ELSE 0)]

\* Mutant: the rest is lost.
FloorsOnly(total, points) == Floors(total, points)

\* Mutant: the first participant takes the whole rest.
FirstTakesRest(total, points) ==
    LET floors == Floors(total, points)
    IN  [floors EXCEPT ![1] = @ + total - Total(floors)]

\* The units left over go to the first participants of the request.
PercentageShares(total, points) ==
    LET floors == Floors(total, points)
        rest == total - Total(floors)
    IN  [i \in DOMAIN points |-> floors[i] + (IF i <= rest THEN 1 ELSE 0)]

ExactShares(total, amounts) == IF Total(amounts) = total THEN amounts ELSE Refused

\* Itemized requests.
SumOf(S) == MapThenSumSet(LAMBDA x : x.amount, S)
OfLine(q, l) == {a \in q.assigned : a.line = l}

\* Each line of a draft costs something.
DraftLines(q) == q.draft => \A l \in DOMAIN q.lines : q.lines[l] > 0

\* Every assignment names a line.
KnownLines(q) == \A a \in q.assigned : a.line \in DOMAIN q.lines

\* Nobody is assigned the same line twice.
OncePerLine(q) ==
    \A a, b \in q.assigned : a.line = b.line /\ a.user = b.user => a = b

\* Mutant of LinesPaid: a line may be forgotten.
AssignedLinesPaid(q) ==
    \A a \in q.assigned : SumOf(OfLine(q, a.line)) = q.lines[a.line]

\* Every line is assigned, to the last unit of its price.
LinesPaid(q) ==
    \A l \in DOMAIN q.lines :
        OfLine(q, l) # {} /\ SumOf(OfLine(q, l)) = q.lines[l]

ExtrasPaid(q) ==
    \A e \in q.extras :
        /\ e.amount > 0
        /\ \A s, t \in e.shares : s.user = t.user => s = t
        /\ SumOf(e.shares) = e.amount

Payers(q) == {a.user : a \in q.assigned} \union
             UNION {{s.user : s \in e.shares} : e \in q.extras}

\* What a participant pays of the lines and of the extra amounts.
PaidBy(q, u) ==
    SumOf({a \in q.assigned : a.user = u}) +
    MapThenSumSet(LAMBDA e : SumOf({s \in e.shares : s.user = u}), q.extras)

ItemizedShares(q) ==
    LET shares == [u \in Payers(q) |-> PaidBy(q, u)]
    IN  IF /\ DraftLines(q) /\ KnownLines(q) /\ OncePerLine(q) /\ LinesPaid(q) /\ ExtrasPaid(q)
           /\ Total(shares) = q.total
        THEN shares ELSE Refused

StoredShares(q) ==
    CASE q.total <= 0 -> Refused
      [] q.total > 0 /\ q.type = "equal" -> EqualShares(q.total, Len(q.values))
      [] q.total > 0 /\ q.type = "percentage" ->
            IF Total(q.values) = Whole
            THEN PercentageShares(q.total, q.values)
            ELSE Refused
      [] q.total > 0 /\ q.type = "fixed_amount" -> ExactShares(q.total, q.values)
      [] q.total > 0 /\ q.type = "itemized" -> ItemizedShares(q)

StoreShares ==
    /\ step = "sent"
    /\ stored' = StoredShares(request)
    /\ step' = "done"
    /\ UNCHANGED <<request, preview>>

SplitNext == Send \/ SendDirectly \/ SendItemized \/ StoreShares

SplitSpec == SplitInit /\ [][SplitNext]_splitVars

-----------------------------------------------------------------------------
(* Properties. *)

Stored == step = "done" /\ stored # Refused
Previewed == step = "done" /\ preview # <<>>

\* The inductive invariant: the device computed what it shows, and the backend
\* what it stores, from the request that is being answered.
SplitInv ==
    /\ request \in SplitRequest \union Itemized
    /\ step \in {"form", "sent", "done"}
    /\ step = "form" => preview = <<>>
    /\ preview # <<>> => /\ request \in SplitRequest
                         /\ preview = PreviewShares(request) /\ preview # Refused
    /\ step = "done" => stored = StoredShares(request)

\* Whoever sends the request, the stored shares are not negative and add up to
\* the total, to the last unit.
SharesAddUp ==
    Stored => /\ Total(stored) = request.total
              /\ \A i \in DOMAIN stored : stored[i] >= 0

\* An itemized expense costs what the lines of its receipt and the extra
\* amounts cost: no line is left out, and none is paid twice.
ReceiptIsPaid ==
    Stored /\ request.type = "itemized" =>
        Total(stored) = Total(request.lines) + SumOf(request.extras)

Distance(x, y) == IF x < y THEN y - x ELSE x - y

\* Rounding costs nobody more than one unit: equal shares differ by at most
\* one, a percentage is at most one unit away from the exact fraction.
RoundingIsFair ==
    /\ Stored /\ request.type = "equal" =>
          \A i, j \in DOMAIN stored : Distance(stored[i], stored[j]) <= 1
    /\ Stored /\ request.type = "percentage" =>
          \A i \in DOMAIN stored :
              Distance(stored[i] * Whole, request.total * request.values[i]) <= Whole

\* What the form lets through the backend accepts, so an expense entered offline
\* is not refused for its amounts when it is pushed later; and it stores what the
\* device has shown, unless somebody has a percentage of zero: the backend may
\* give such a participant one of the units left over, the device never does.
PreviewIsStored ==
    Previewed =>
        /\ stored # Refused
        /\ \/ stored = preview
           \/ request.type = "percentage" /\ \E i \in DOMAIN request.values : request.values[i] = 0
=============================================================================
