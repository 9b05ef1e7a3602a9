------------------------- MODULE MCTransactionSync -------------------------
(* Two records, three requests and a device that pulls.                    *)
EXTENDS TransactionSync, TLC

CONSTANTS a, b, k1, k2

U(rec, time, body) == [action |-> "upsert", record |-> rec, time |-> time, body |-> body]
D(rec, time) == [action |-> "delete", record |-> rec, time |-> time, body |-> None]
Invalid == [action |-> "invalid", record |-> 1, time |-> 0, body |-> None]

PushOf(batch) == [key |-> None, batch |-> batch]
ClaimOf(key, batch) == [key |-> key, batch |-> batch]

\* The record 1 is there, as one device made it.
Known == [NoRows EXCEPT ![1] = [state |-> "live", time |-> 1, body |-> a, at |-> 0]]
S(rows, calls, closing) == [rows |-> rows, calls |-> calls, closing |-> closing]

MCScenario == {
    \* One operation each, resent, late or conflicting.
    S(NoRows, {PushOf(<<U(1, 1, a)>>), PushOf(<<U(1, 2, b)>>), PushOf(<<U(1, 2, a)>>),
               PushOf(<<D(1, 2)>>), PushOf(<<D(1, 3)>>), PushOf(<<U(2, 1, a)>>)}, FALSE),
    \* Batches that lock in different orders, and use one record twice.
    S(Known, {PushOf(<<U(1, 2, b), U(2, 1, b)>>), PushOf(<<U(2, 1, a), D(1, 3)>>),
              PushOf(<<D(1, 2), U(1, 2, b)>>), PushOf(<<D(1, 2), U(1, 3, a)>>)}, FALSE),
    \* Claims, sent again and with another body, while pushes come in.
    S(Known, {ClaimOf(k1, <<U(1, 1, a), Invalid, U(2, 1, a)>>), ClaimOf(k1, <<U(1, 3, b)>>),
              ClaimOf(k2, <<U(2, 1, a), U(1, 2, b)>>), PushOf(<<U(2, 2, b)>>)}, FALSE),
    S(Known, {ClaimOf(k1, <<U(2, 1, a)>>), PushOf(<<U(1, 2, b)>>), PushOf(<<D(1, 2)>>),
              PushOf(<<D(2, 2)>>)}, TRUE)}

Requests == Permutations(Request)
=============================================================================
