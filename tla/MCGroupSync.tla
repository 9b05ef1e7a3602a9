---------------------------- MODULE MCGroupSync ----------------------------
(* A device and another member on one or two expenses.                     *)
EXTENDS GroupSync

CONSTANTS e1, e2, m1, m2, o1, o2, n1

P(known, mine, others, spare, skew, faults) ==
    [known |-> known, mine |-> mine, others |-> others, spare |-> spare, skew |-> skew,
     faults |-> faults]

MCScenario == {
    \* The device's own expense, changed by the other before the device knows it.
    P(<<>>, {<<e1, "create">>}, {<<o1, "update">>, <<o2, "delete">>}, {}, 0, 1),
    P(<<>>, {<<e1, "create">>, <<m1, "delete">>}, {<<o1, "update">>}, {}, 0, 1),
    \* An expense both know, with a right, a fast and a slow clock.
    P(<<e1>>, {<<m1, "update">>, <<m2, "delete">>}, {<<o1, "update">>}, {n1}, 0, 0),
    P(<<e1>>, {<<m1, "update">>}, {<<o1, "update">>}, {n1}, 0, 1),
    P(<<e1>>, {<<m1, "update">>, <<m2, "update">>}, {<<o1, "delete">>}, {n1}, 6, 0),
    P(<<e1>>, {<<m1, "update">>, <<m2, "update">>}, {<<o1, "update">>}, {}, -4, 0),
    \* Two expenses, committed in another order than they are numbered.
    P(<<e1>>, {<<e2, "create">>}, {<<o1, "update">>}, {}, 0, 0),
    \* The other member's own expense, whose creation may be cut off.
    P(<<>>, {}, {<<o1, "create">>, <<o2, "delete">>}, {}, 0, 2),
    \* It is appended after the device, with a slow clock, has changed the expense.
    P(<<>>, {<<m1, "update">>}, {<<o1, "create">>}, {}, -4, 1),
    \* All attempts used up, and a restart.
    P(<<>>, {<<e1, "create">>}, {}, {}, 0, 3)}
=============================================================================
