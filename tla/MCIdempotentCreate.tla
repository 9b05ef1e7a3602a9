------------------------- MODULE MCIdempotentCreate -------------------------
(* A queued expense, sent with two bodies and retransmitted beside its      *)
(* original, and a posted settlement of the same group, all of them sent by *)
(* one member, who is concerned by one of the bodies and not by the other.  *)
EXTENDS IdempotentCreate

CONSTANTS expense, settlement, p1, p2, c1, c2, sender

Request(key, payload, copy) == [key |-> key, payload |-> payload, copy |-> copy]

MCCall == {Request(expense, p1, c1), Request(expense, p1, c2),
           Request(expense, p2, c1), Request(settlement, p1, c1)}
MCSender == [k \in {expense, settlement} |-> sender]
MCNames  == [p \in {p1, p2} |-> IF p = p1 THEN {sender} ELSE {}]

\* A bound: of an archive, a deletion and a departure a behaviour has one, and
\* a sender who came back stays.
OneDisturbance ==
    /\ Cardinality({d \in 1..3 : <<archived', deleted' # {}, departed' # {}>>[d]}) <= 1
    /\ \A u \in departed \ away : u \notin away'
=============================================================================
