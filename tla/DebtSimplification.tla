------------------------- MODULE DebtSimplification -------------------------
(* The plan of payments suggested to a group (backend/app/domain/debts.py):  *)
(* the largest debtor pays the largest creditor until nobody owes anything.  *)
(* Members then record payments of the plan as settlements, and the plan is  *)
(* computed again from the balances with the settlements applied.            *)
EXTENDS Integers, Sequences, FiniteSets, FiniteSetsExt

CONSTANTS
    Member,   \* numbers, in the order of the user ids
    Balance   \* net balances a member may have at first

ASSUME MemberAssumption == Member \subseteq Nat /\ IsFiniteSet(Member)
ASSUME BalanceAssumption == Balance \subseteq Int

VARIABLES
    balance,    \* net amounts the plan is computed from
    open,       \* what is left of them: the two heaps
    transfers,  \* the plan so far
    at          \* where the computation is, or how it ended

planVars == <<balance, open, transfers, at>>

Transfer == [from : Member, to : Member, amount : Nat \ {0}]

\* The expenses and shares may say anything, also what does not add up.
PlanInit ==
    /\ balance \in [Member -> Balance]
    /\ open = balance
    /\ transfers = <<>>
    /\ at = "validate"

NetTotal(amounts) == MapThenSumSet(LAMBDA m : amounts[m], Member)

Debtors == {m \in Member : open[m] < 0}
Creditors == {m \in Member : open[m] > 0}

-----------------------------------------------------------------------------

Closed(amounts) == NetTotal(amounts) = 0

Validate ==
    /\ at = "validate"
    /\ at' = IF Closed(balance) THEN "match" ELSE "unbalanced"
    /\ UNCHANGED <<balance, open, transfers>>

Abs(n) == IF n < 0 THEN -n ELSE n

\* Heap order: the largest amount, and the smallest id among equals.
Largest(members) ==
    Min({m \in members : \A o \in members : Abs(open[o]) <= Abs(open[m])})

\* Mutant: the creditor always gets everything.
CreditorsShare(debt, credit) == credit

\* Mutant: no single payment is larger than two.
AtMostTwo(debt, credit) == Min({debt, credit, 2})

Amount(debt, credit) == Min({debt, credit})

\* Both are popped, and pushed back with what is left.
Match ==
    LET d == Largest(Debtors)
        c == Largest(Creditors)
        amount == Amount(-open[d], open[c])
    IN  /\ at = "match"
        /\ Debtors # {} /\ Creditors # {}
        /\ transfers' = Append(transfers, [from |-> d, to |-> c, amount |-> amount])
        /\ open' = [open EXCEPT ![d] = @ + amount, ![c] = @ - amount]
        /\ UNCHANGED <<balance, at>>

\* What a member pays under a plan, less what it receives.
Net(plan, m) ==
    LET Sum(mine) == MapThenSumSet(LAMBDA i : plan[i].amount, mine)
    IN  Sum({i \in DOMAIN plan : plan[i].from = m})
        - Sum({i \in DOMAIN plan : plan[i].to = m})

\* _validate_result: the plan must settle every balance.
Finish ==
    /\ at = "match"
    /\ Debtors = {} \/ Creditors = {}
    /\ at' = IF \A m \in Member : balance[m] + Net(transfers, m) = 0
             THEN "planned" ELSE "unsettled"
    /\ UNCHANGED <<balance, open, transfers>>

\* Mutant: the receiver keeps its claim.
OnlyTheDebt(t) == [balance EXCEPT ![t.from] = @ + t.amount]

\* apply_settlements
Settled(t) == [balance EXCEPT ![t.from] = @ + t.amount, ![t.to] = @ - t.amount]

\* Somebody records a suggested payment, from any place in the plan, and the
\* plan is computed again.
Pay ==
    /\ at = "planned"
    /\ \E i \in DOMAIN transfers : balance' = Settled(transfers[i])
    /\ open' = balance'
    /\ transfers' = <<>>
    /\ at' = "validate"

PlanNext == Validate \/ Match \/ Finish \/ Pay

PlanSpec == PlanInit /\ [][PlanNext]_planVars

\* A computation that was started ends, and members go on paying.
FairPlanSpec == PlanSpec /\ WF_planVars(PlanNext)

-----------------------------------------------------------------------------
(* Properties. *)

PlanTypeOK ==
    /\ balance \in [Member -> Int]
    /\ open \in [Member -> Int]
    /\ transfers \in Seq(Transfer)
    /\ at \in {"validate", "match", "planned", "unbalanced", "unsettled"}

Side(sign) == Cardinality({m \in Member : balance[m] * sign > 0})

\* While the plan is made, every balance is what the plan gives plus what is
\* open, no member is pushed over to the other side or further into debt, and
\* no pair of members has two transfers; so the plan that is returned settles
\* everybody, with at most debtors + creditors - 1 transfers, and
\* DebtSimplificationInvariantException is never raised.
PlanIsExact ==
    /\ at # "unsettled"
    /\ transfers # <<>> => Len(transfers) < Side(-1) + Side(1)
    /\ \A m \in Member :
          /\ balance[m] + Net(transfers, m) = open[m]
          /\ balance[m] <= 0 => balance[m] <= open[m] /\ open[m] <= 0
          /\ balance[m] >= 0 => 0 <= open[m] /\ open[m] <= balance[m]
    /\ \A i, j \in DOMAIN transfers :
          i # j => \/ transfers[i].from # transfers[j].from
                   \/ transfers[i].to # transfers[j].to

\* The inductive invariant.  Where the computation is tells what it has.
StageInv ==
    /\ at = "validate" => open = balance /\ transfers = <<>>
    /\ at = "match" => Closed(open)

\* A transfer closes the account of the one who pays or of the one who gets.
ClosingInv ==
    \A i \in DOMAIN transfers :
        LET t == transfers[i] IN
        balance[t.from] < 0 /\ balance[t.to] > 0 /\ (open[t.from] = 0 \/ open[t.to] = 0)

\* Every transfer closes an account, and the last one two.
CountInv ==
    /\ Len(transfers) + Cardinality(Debtors) + Cardinality(Creditors) <= Side(-1) + Side(1)
    /\ transfers # <<>> /\ Debtors \union Creditors = {} =>
          Len(transfers) < Side(-1) + Side(1)

PlanInv == PlanTypeOK /\ StageInv /\ ClosingInv /\ CountInv /\ PlanIsExact

\* If members go on paying suggestions, in whatever order and with the plan
\* computed again after every payment, a group that adds up is settled.
GroupIsSettled ==
    Closed(balance) ~> (at = "planned" /\ \A m \in Member : balance[m] = 0)
=============================================================================
