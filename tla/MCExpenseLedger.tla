-------------------------- MODULE MCExpenseLedger --------------------------
(* One or two expenses of 2 between two members, and the operations the     *)
(* configurations choose from.                                             *)
EXTENDS ExpenseLedger, TLC

CONSTANTS a, b, c1, c2

Copies == Permutations(Copy)

Even   == [total |-> 2, shares |-> (a :> 1 @@ b :> 1)]
Uneven == [total |-> 3, shares |-> (a :> 2 @@ b :> 1)]
Wrong  == [total |-> 3, shares |-> (a :> 1 @@ b :> 1)]
Nothing == [total |-> 0, shares |-> (a :> Absent @@ b :> Absent)]
OfA(n) == [total |-> 0, shares |-> (a :> n @@ b :> Absent)]

Request(kind, details, versioned) ==
    [kind |-> kind, expense |-> "e", details |-> details, versioned |-> versioned]

MCInitial == [e \in Expense |-> Even]
MCBody ==
    [o \in Op |->
        CASE o = "raise"   -> Request("update", Uneven, TRUE)
          [] o = "blind"   -> Request("update", Uneven, FALSE)
          [] o = "rename"  -> Request("update", Even, TRUE)
          [] o = "wrong"   -> Request("update", Wrong, TRUE)
          [] o = "remove"  -> Request("delete", Nothing, TRUE)
          [] o = "drop"    -> Request("shareDelete", OfA(0), TRUE)
          [] o = "restore" -> Request("shareCreate", OfA(1), FALSE)
          [] o = "adjust"  -> Request("shareUpdate", OfA(5), FALSE)]

Sent(ops, copies) == [op: ops, copy: copies]

\* Everybody changes the expense at once; an update is retransmitted beside
\* operations on a share; a share operation meets a delete.
MCWorkload == {Sent({"raise", "blind", "remove", "wrong"}, {c1}),
               Sent({"blind"}, Copy) \union Sent({"drop", "restore"}, {c1}),
               Sent({"drop", "restore"}, Copy),
               Sent({"remove"}, Copy) \union Sent({"adjust"}, {c1})}
RaceWorkload == {Sent({"raise", "remove"}, {c1})}
=============================================================================
