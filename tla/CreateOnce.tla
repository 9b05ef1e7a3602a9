----------------------------- MODULE CreateOnce -----------------------------
(***************************************************************************)
(* What the creation endpoints of the group ledger promise to a caller     *)
(* that retries: an intent is a body sent under an idempotency key, a key  *)
(* is applied at most once, and every answer a caller ever receives is     *)
(* consistent with the one body that was applied, or is a refusal that a   *)
(* membership which ended explains.                                        *)
(*                                                                         *)
(* The module knows nothing of transactions, reservations, locks or the    *)
(* change feed; IdempotentCreate is shown to implement it.                 *)
(***************************************************************************)
EXTENDS Sequences

CONSTANTS
    Key,        \* client record ids, used as Idempotency-Key
    User,       \* the users who are or were members of the group
    Sender,     \* Sender[k]: the user whose client made key k
    Payload,    \* request bodies, up to the hash that compares them
    Names,      \* Names[p]: the users whose membership body p depends on
    Invalid     \* the bodies that validation refuses in any group state

Intent == [key: Key, payload: Payload]
Answer == {"applied", "conflict", "rejected", "forbidden"}

VARIABLES
    applied,    \* applied[k]: the bodies whose effect is committed under k
    closed,     \* the group no longer admits new records
    departed,   \* the users who have ever left the group
    told        \* told[i]: the final answers callers of i have received

absVars == <<applied, closed, departed, told>>

AbsInit ==
    /\ applied = [k \in Key |-> <<>>]
    /\ closed = FALSE
    /\ departed = {}
    /\ told = [i \in Intent |-> {}]

Apply(i) ==
    /\ applied[i.key] = <<>>
    /\ ~closed
    /\ i.payload \notin Invalid
    /\ applied' = [applied EXCEPT ![i.key] = <<i.payload>>]
    /\ UNCHANGED <<closed, departed, told>>

Close ==
    /\ closed' = TRUE
    /\ UNCHANGED <<applied, departed, told>>

Depart(u) ==
    /\ departed' = departed \union {u}
    /\ UNCHANGED <<applied, closed, told>>

\* The answers that are true of intent i: they are stable once they are true.
\* A member who comes back may see applied what was refused before.
Justified(i, a) ==
    \/ /\ a = "applied"
       /\ applied[i.key] = <<i.payload>>
    \/ /\ a = "conflict"
       /\ applied[i.key] \notin {<<>>, <<i.payload>>}
    \/ /\ a = "rejected"
       /\ \/ Names[i.payload] \intersect departed # {}
          \/ /\ applied[i.key] # <<i.payload>>
             /\ closed \/ i.payload \in Invalid
    \/ /\ a = "forbidden"
       /\ Sender[i.key] \in departed

Tell(i, a) ==
    /\ Justified(i, a)
    /\ told' = [told EXCEPT ![i] = @ \union {a}]
    /\ UNCHANGED <<applied, closed, departed>>

AbsNext ==
    \/ \E i \in Intent : Apply(i)
    \/ Close
    \/ \E u \in User : Depart(u)
    \/ \E i \in Intent, a \in Answer : Tell(i, a)

AbsSpec == AbsInit /\ [][AbsNext]_absVars
=============================================================================
