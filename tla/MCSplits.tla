------------------------------ MODULE MCSplits ------------------------------
(* Small totals, where every unit counts, a large one, and percentages that  *)
(* leave a rest.                                                             *)
EXTENDS Splits

MCTotals == {-1, 0, 1, 2, 3, 5, 100, 10001}
MCValues == {0, 1, 2, 33, 3333, 3334, 5000, 6667, 10000}

\* Up to two lines, up to three assignments, one of them perhaps to a line
\* that is not there, and an extra amount.
Lines == UNION {[1..n -> 0..2] : n \in 1..2}
Assigned == [line: 1..3, user: 1..2, amount: 0..2]
Extras == {{}, {[amount |-> 1, shares |-> {[user |-> 3, amount |-> 1]}]},
           {[amount |-> 2, shares |-> {[user |-> 1, amount |-> 1], [user |-> 3, amount |-> 1]}]},
           {[amount |-> 1, shares |-> {[user |-> 1, amount |-> 1], [user |-> 3, amount |-> 1]}]}}
MCItemized ==
    [type: {"itemized"}, draft: BOOLEAN, total: {1, 2, 3}, lines: Lines,
     assigned: UNION {kSubset(n, Assigned) : n \in 1..2}
               \union {S \in kSubset(3, Assigned) : \A a \in S : a.line < 3},
     extras: Extras]
=============================================================================
