-------------------------- MODULE IdempotentCreate --------------------------
(***************************************************************************)
(* The creation of group expenses and settlements, as the backend executes *)
(* it: POST /sync/groups/push (the offline queue of the app) and the plain *)
(* POST endpoints, which share create_expense_for_group/create_settlement. *)
(*                                                                         *)
(* A call is one HTTP request in flight.  Calls of one intent carry the    *)
(* same Idempotency-Key and the same body: the original and the            *)
(* retransmissions a client makes after a timeout or a temporary error,    *)
(* which may run beside it.  Each call is one database session under       *)
(* PostgreSQL READ COMMITTED: what it has not committed is invisible to    *)
(* the others, but the unique row it has inserted blocks an INSERT of the  *)
(* same row until it commits or rolls back, and the group row it has       *)
(* locked FOR UPDATE blocks other lockers.  The steps of a call are its    *)
(* statements that other sessions can observe or interfere with.           *)
(*                                                                         *)
(* Every request first has to pass require_group_member, so members leave   *)
(* and come back here: a request that was committed and whose answer was   *)
(* lost is refused with 403 when its sender has left before the retry.     *)
(* Left out: the zero balance a member needs to leave, which the rest of    *)
(* the ledger can bring about (it is the subject of Groups); the text of    *)
(* bodies and answers; and GroupExpense.idempotency_key, the key column of   *)
(* an older deployment (nothing in the source writes it any more, so its   *)
(* lookup finds nothing).                                                  *)
(***************************************************************************)
EXTENDS Naturals, Sequences, FiniteSets

CONSTANTS
    Key,            \* client record ids, used as Idempotency-Key
    Settlement,     \* the keys of settlements; the other keys are expenses
    Queued,         \* the keys pushed by the offline queue, not posted directly
    User,           \* the users who are or were members of the group
    Sender,         \* Sender[k]: the user whose client made key k
    Payload,        \* request bodies, up to the hash that compares them
    Names,          \* Names[p]: the users whose membership the validation of
                    \* body p looks up under the group lock
    Invalid,        \* bodies that validation refuses whatever the group's state
    Copy,           \* tells retransmissions of one intent apart
    Call,           \* the requests clients may have in flight
    Nobody,         \* no call: the owner of a free lock or reservation
    Absent,         \* no committed idempotency record
    MaxInFlight,    \* bound: calls executing at the same time
    MaxFaults       \* bound: crashes, lost answers and cache failures

ASSUME CreateAssumption ==
    /\ Settlement \subseteq Key
    /\ Queued \subseteq Key
    /\ Invalid \subseteq Payload
    /\ Absent \notin Payload
    /\ Sender \in [Key -> User]
    /\ Names \in [Payload -> SUBSET User]
    /\ Call \subseteq [key: Key, payload: Payload, copy: Copy]
    /\ MaxInFlight \in Nat
    /\ MaxFaults \in Nat

Intent == [key: Key, payload: Payload]
ASSUME NobodyAssumption == Nobody \notin Call

IntentOf(c) == [key |-> c.key, payload |-> c.payload]

VARIABLES
    pc,         \* pc[c]: the statement call c executes next
    replayed,   \* the calls that answer from an idempotency record
    reply,      \* reply[c]: the HTTP answer c has produced
    record,     \* record[k]: request_hash of the committed idempotency record
    reservedBy, \* reservedBy[k]: the call whose uncommitted record holds key k
    resources,  \* resources[k]: the committed expenses or settlements of key k
    deleted,    \* the keys whose expense has been soft-deleted
    groupLock,  \* the call that holds the group row FOR UPDATE
    archived,   \* groups.archived_at is set
    away,       \* the users whose group_members.left_at is set now
    departed,   \* the users who have ever left (history, not program state)
    feed,       \* the keys with a committed row in group_sync_changes
    told,       \* told[i]: the final answers the callers of intent i received
    faults      \* faults so far (a bound of the model, not program state)

members == <<away, departed>>
dbVars  == <<record, resources, deleted, archived, away, departed, feed>>
vars    == <<pc, replayed, reply, record, reservedBy, resources, deleted,
             groupLock, archived, away, departed, feed, told, faults>>

Label == {"idle", "member", "lookup", "reserve", "lock", "create", "replay",
          "invalidate", "append", "insert", "answered"}

\* "accepted"/"duplicate" are success (201 or 200), "conflict" is 409
\* idempotency_conflict, "rejected" a 4xx of validation, "forbidden" the
\* 403 of a sender who is no member, "cache_pending" the 503 of a failed
\* invalidation, "unavailable" and "error" are 500s.
Reply == {"none", "accepted", "duplicate", "conflict", "rejected",
          "forbidden", "cache_pending", "unavailable", "error"}
Answer == {"applied", "conflict", "rejected", "forbidden"}

TypeOK ==
    /\ pc \in [Call -> Label]
    /\ replayed \subseteq Call
    /\ reply \in [Call -> Reply]
    /\ record \in [Key -> Payload \union {Absent}]
    /\ reservedBy \in [Key -> Call \union {Nobody}]
    /\ resources \in [Key -> Seq(Payload)]
    /\ deleted \subseteq Key
    /\ groupLock \in Call \union {Nobody}
    /\ archived \in BOOLEAN
    /\ away \subseteq User
    /\ departed \subseteq User
    /\ feed \subseteq Key
    /\ told \in [Intent -> SUBSET Answer]
    /\ faults \in Nat

Init ==
    /\ pc = [c \in Call |-> "idle"]
    /\ replayed = {}
    /\ reply = [c \in Call |-> "none"]
    /\ record = [k \in Key |-> Absent]
    /\ reservedBy = [k \in Key |-> Nobody]
    /\ resources = [k \in Key |-> <<>>]
    /\ deleted = {}
    /\ groupLock = Nobody
    /\ archived = FALSE
    /\ away = {}
    /\ departed = {}
    /\ feed = {}
    /\ told = [i \in Intent |-> {}]
    /\ faults = 0

-----------------------------------------------------------------------------
(* The steps of a call.                                                    *)

Goto(c, label) == pc' = [pc EXCEPT ![c] = label]

Respond(c, r) ==
    /\ Goto(c, "answered")
    /\ reply' = [reply EXCEPT ![c] = r]

\* Mutant of ReleaseLocks: the reservation outlives its transaction.
ReleaseGroupOnly(c) ==
    /\ groupLock' = IF groupLock = c THEN Nobody ELSE groupLock
    /\ UNCHANGED reservedBy

\* The end of the session's transaction, by commit or by rollback, frees the
\* rows it holds.
ReleaseLocks(c) ==
    /\ reservedBy' = [k \in Key |-> IF reservedBy[k] = c THEN Nobody
                                    ELSE reservedBy[k]]
    /\ groupLock' = IF groupLock = c THEN Nobody ELSE groupLock

\* A client sends an intent it has no final answer to yet.
Send(c) ==
    /\ pc[c] = "idle"
    /\ told[IntentOf(c)] = {}
    /\ Cardinality({d \in Call : pc[d] # "idle"}) < MaxInFlight
    /\ Goto(c, "member")
    /\ UNCHANGED <<replayed, reply, reservedBy, groupLock, told, faults>>
    /\ UNCHANGED dbVars

\* require_group_member, before anything else is looked at: a retransmission
\* of a request that was committed is refused too once its sender has left.
CheckMembership(c) ==
    /\ pc[c] = "member"
    /\ \/ Sender[c.key] \in away /\ Respond(c, "forbidden")
       \/ Sender[c.key] \notin away /\ Goto(c, "lookup") /\ UNCHANGED reply
    /\ UNCHANGED <<replayed, reservedBy, groupLock, told, faults>>
    /\ UNCHANGED dbVars

\* The first SELECT of the idempotency record.
Lookup(c) ==
    /\ pc[c] = "lookup"
    /\ Goto(c, IF record[c.key] = Absent THEN "reserve" ELSE "replay")
    /\ UNCHANGED <<replayed, reply, reservedBy, groupLock, told, faults>>
    /\ UNCHANGED dbVars

\* INSERT ... ON CONFLICT DO NOTHING: waits for the session that holds an
\* uncommitted row of the key, then inserts, or finds the row committed and
\* reads it again.
Reserve(c) ==
    /\ pc[c] = "reserve"
    /\ reservedBy[c.key] = Nobody
    /\ \/ /\ record[c.key] = Absent
          /\ reservedBy' = [reservedBy EXCEPT ![c.key] = c]
          /\ Goto(c, "lock")
       \/ /\ record[c.key] # Absent
          /\ Goto(c, "replay")
          /\ UNCHANGED reservedBy
    /\ UNCHANGED <<replayed, reply, groupLock, told, faults>>
    /\ UNCHANGED dbVars

\* Mutant of LockGroup: the group is read without FOR UPDATE.
ReadGroup(c) ==
    /\ pc[c] = "lock"
    /\ groupLock' = c
    /\ Goto(c, "create")
    /\ UNCHANGED <<replayed, reply, reservedBy, told, faults>>
    /\ UNCHANGED dbVars

\* SELECT ... FOR UPDATE of the group row.
LockGroup(c) ==
    /\ pc[c] = "lock"
    /\ groupLock = Nobody
    /\ groupLock' = c
    /\ Goto(c, "create")
    /\ UNCHANGED <<replayed, reply, reservedBy, told, faults>>
    /\ UNCHANGED dbVars

\* What validation asks of the group under its lock.  The memberships of the
\* users a body concerns are read again (of a split, the sender's too); the
\* sender of an itemised expense that does not name him was looked up by
\* CheckMembership only, the session still holds that row.
Admits(c) ==
    /\ ~archived
    /\ c.payload \notin Invalid
    /\ Names[c.payload] \intersect away = {}

\* Validation passes: the expense or settlement, its activity row and the
\* completed idempotency record commit together.
CommitCreate(c) ==
    /\ pc[c] = "create"
    /\ Admits(c)
    /\ record' = [record EXCEPT ![c.key] = c.payload]
    /\ resources' = [resources EXCEPT ![c.key] = Append(@, c.payload)]
    /\ ReleaseLocks(c)
    /\ Goto(c, "invalidate")
    /\ UNCHANGED <<replayed, reply, deleted, archived, feed, told, faults>>
    /\ UNCHANGED members

\* Validation fails: the exception rolls the reservation back.
RejectCreate(c) ==
    /\ pc[c] = "create"
    /\ ~Admits(c)
    /\ ReleaseLocks(c)
    /\ Respond(c, "rejected")
    /\ UNCHANGED <<replayed, told, faults>>
    /\ UNCHANGED dbVars

\* Mutant of Replay: the stored body is not compared with the request's.
ReplayAnyBody(c) ==
    /\ pc[c] = "replay"
    /\ replayed' = replayed \union {c}
    /\ Goto(c, IF c.key \in Settlement THEN "invalidate" ELSE "append")
    /\ UNCHANGED <<reply, reservedBy, groupLock, told, faults>>
    /\ UNCHANGED dbVars

\* The answer from an existing record: a different body is a conflict, a
\* soft-deleted expense cannot be loaded, a settlement is never deleted and
\* its replay invalidates the cached summary again.
Replay(c) ==
    /\ pc[c] = "replay"
    /\ \/ /\ record[c.key] # c.payload
          /\ Respond(c, "conflict")
          /\ UNCHANGED replayed
       \/ /\ record[c.key] = c.payload
          /\ c.key \in deleted
          /\ Respond(c, "unavailable")
          /\ UNCHANGED replayed
       \/ /\ record[c.key] = c.payload
          /\ c.key \notin deleted
          /\ replayed' = replayed \union {c}
          /\ Goto(c, IF c.key \in Settlement THEN "invalidate" ELSE "append")
          /\ UNCHANGED reply
    /\ UNCHANGED <<reservedBy, groupLock, told, faults>>
    /\ UNCHANGED dbVars

\* The cached debt summary is dropped after the commit.
Invalidate(c) ==
    /\ pc[c] = "invalidate"
    /\ Goto(c, "append")
    /\ UNCHANGED <<replayed, reply, reservedBy, groupLock, told, faults>>
    /\ UNCHANGED dbVars

\* Redis refuses every attempt: ignored for an expense, a 503 for a
\* settlement although it is committed, and then nothing reaches the feed.
InvalidateFails(c) ==
    /\ pc[c] = "invalidate"
    /\ faults < MaxFaults
    /\ faults' = faults + 1
    /\ \/ c.key \in Settlement /\ Respond(c, "cache_pending")
       \/ c.key \notin Settlement /\ Goto(c, "append") /\ UNCHANGED reply
    /\ UNCHANGED <<replayed, reservedBy, groupLock, told>>
    /\ UNCHANGED dbVars

Success(c) == IF c \in replayed THEN "duplicate" ELSE "accepted"

\* Mutant of CheckFeed: a replayed push takes its change for granted.
CheckFeedUnlessReplayed(c) ==
    /\ pc[c] = "append"
    /\ \/ /\ c.key \in Queued \ feed /\ c \notin replayed
          /\ Goto(c, "insert") /\ UNCHANGED reply
       \/ c.key \notin Queued \ feed /\ Respond(c, Success(c))
       \/ c \in replayed /\ Respond(c, Success(c))
    /\ UNCHANGED <<replayed, reservedBy, groupLock, told, faults>>
    /\ UNCHANGED dbVars

\* The push handler looks for the change of this record; a direct call has
\* none to write.
CheckFeed(c) ==
    /\ pc[c] = "append"
    /\ \/ c.key \in Queued \ feed /\ Goto(c, "insert") /\ UNCHANGED reply
       \/ c.key \notin Queued \ feed /\ Respond(c, Success(c))
    /\ UNCHANGED <<replayed, reservedBy, groupLock, told, faults>>
    /\ UNCHANGED dbVars

\* The second transaction of the push handler: the unique key of
\* group_sync_changes refuses a change another session has committed since.
InsertChange(c) ==
    /\ pc[c] = "insert"
    /\ \/ c.key \in feed /\ Respond(c, "error") /\ UNCHANGED feed
       \/ /\ c.key \notin feed
          /\ feed' = feed \union {c.key}
          /\ Respond(c, Success(c))
    /\ UNCHANGED <<replayed, record, reservedBy, resources, deleted, groupLock,
                   archived, told, faults>>
    /\ UNCHANGED members

-----------------------------------------------------------------------------
(* The answer, the faults and the rest of the system.                      *)

Forget(c) ==
    /\ Goto(c, "idle")
    /\ reply' = [reply EXCEPT ![c] = "none"]
    /\ replayed' = replayed \ {c}

\* Mutants of FinalAnswers: any failure is final; an answer marked as replayed
\* is ignored.
EveryFailureIsFinal(r) ==
    IF r \in {"accepted", "duplicate"} THEN {"applied"} ELSE {r}

DuplicateIsIgnored(r) ==
    CASE r = "accepted" -> {"applied"}
      [] r \in {"conflict", "rejected", "forbidden"} -> {r}
      [] OTHER -> {}

\* What the client's queue makes of an answer: a success or a 4xx is final,
\* a 5xx leaves the operation pending.
FinalAnswers(r) ==
    CASE r \in {"accepted", "duplicate"}               -> {"applied"}
      [] r \in {"conflict", "rejected", "forbidden"} -> {r}
      [] OTHER                                       -> {}

Deliver(c) ==
    /\ pc[c] = "answered"
    /\ told' = [told EXCEPT ![IntentOf(c)] = @ \union FinalAnswers(reply[c])]
    /\ Forget(c)
    /\ UNCHANGED <<reservedBy, groupLock, faults>>
    /\ UNCHANGED dbVars

\* The process or the connection dies: the open transaction rolls back and
\* the client never hears of the outcome.
Crash(c) ==
    /\ pc[c] # "idle"
    /\ faults < MaxFaults
    /\ faults' = faults + 1
    /\ ReleaseLocks(c)
    /\ Forget(c)
    /\ UNCHANGED told
    /\ UNCHANGED dbVars

\* An owner archives the group, under the same row lock.
Archive ==
    /\ groupLock = Nobody
    /\ ~archived
    /\ archived' = TRUE
    /\ UNCHANGED <<pc, replayed, reply, record, reservedBy, resources, deleted,
                   groupLock, feed, told, faults>>
    /\ UNCHANGED members

\* A member leaves or is removed, under the row lock of the group.
Leave(u) ==
    /\ groupLock = Nobody
    /\ u \notin away
    /\ away' = away \union {u}
    /\ departed' = departed \union {u}
    /\ UNCHANGED <<pc, replayed, reply, record, reservedBy, resources, deleted,
                   groupLock, archived, feed, told, faults>>

\* A former member is added again or accepts an invitation, which takes no
\* lock on the group.
Rejoin(u) ==
    /\ u \in away
    /\ away' = away \ {u}
    /\ UNCHANGED <<pc, replayed, reply, record, reservedBy, resources, deleted,
                   groupLock, archived, departed, feed, told, faults>>

\* A member with the right to do so deletes an expense that exists (the
\* financial lock that may refuse it is the subject of ExpenseLedger).
DeleteExpense(k) ==
    /\ k \notin Settlement
    /\ k \notin deleted
    /\ resources[k] # <<>>
    /\ deleted' = deleted \union {k}
    /\ UNCHANGED <<pc, replayed, reply, record, reservedBy, resources, groupLock,
                   archived, feed, told, faults>>
    /\ UNCHANGED members

Work(c) ==
    \/ CheckMembership(c)
    \/ Lookup(c)
    \/ Reserve(c)
    \/ LockGroup(c)
    \/ CommitCreate(c)
    \/ RejectCreate(c)
    \/ Replay(c)
    \/ Invalidate(c)
    \/ CheckFeed(c)
    \/ InsertChange(c)

Others ==
    \/ Archive
    \/ \E k \in Key : DeleteExpense(k)
    \/ \E u \in User : Leave(u) \/ Rejoin(u)

Next ==
    \/ \E c \in Call : \/ Send(c)
                       \/ Work(c)
                       \/ InvalidateFails(c)
                       \/ Deliver(c)
                       \/ Crash(c)
    \/ Others

Spec == Init /\ [][Next]_vars

\* Fairness.  A handler that can run is run by the event loop, a session that
\* waits for a row is woken in turn by PostgreSQL's lock queue (only Reserve
\* and LockGroup can be disabled before they are taken, so it is for these
\* two that the fairness is strong), and a client hears answers and keeps
\* sending an intent that has no final one.
Fairness ==
    /\ \A c \in Call : SF_vars(Work(c) \/ Deliver(c))
    /\ \A i \in Intent : SF_vars(\E c \in Call : IntentOf(c) = i /\ Send(c))

FairSpec == Spec /\ Fairness
-----------------------------------------------------------------------------
(* Correctness.                                                            *)

\* However calls of a key interleave, crash and retry, at most one expense or
\* settlement is ever committed under it (the point of the reservation).
AtMostOneEffect == \A k \in Key : Len(resources[k]) <= 1

\* A committed idempotency record and its resource commit together: the
\* record names exactly the body that was applied.
RecordMatchesResource ==
    \A k \in Key : IF record[k] = Absent THEN resources[k] = <<>>
                                         ELSE resources[k] = <<record[k]>>

\* A caller told of success has its body in the ledger, and a record pushed
\* by the offline queue is also in the change feed other devices read.
AppliedIsDurable ==
    \A i \in Intent :
        "applied" \in told[i] => /\ resources[i.key] = <<i.payload>>
                                 /\ i.key \in Queued => i.key \in feed

\* Whatever was lost, delayed or retried, no caller of an intent is told that
\* it failed when another was told that it was applied, unless a membership
\* ended on the way: a 403 then speaks of the sender, a validation error of
\* the users the body names.
NoMixedAnswers ==
    \A i \in Intent : "applied" \in told[i] =>
        \A a \in told[i] \ {"applied"} :
            \/ a = "forbidden" /\ Sender[i.key] \in departed
            \/ a = "rejected" /\ Names[i.payload] \intersect departed # {}

\* The feed never announces a record that the ledger does not hold.
FeedOnlyCommitted == \A k \in feed : resources[k] # <<>>

\* One call at a time validates and writes a group's ledger, and it holds
\* the reservation of its key while it does.
LedgerIsSerialised ==
    \A c, d \in Call :
        /\ pc[c] = "create" => reservedBy[c.key] = c
        /\ pc[c] = "create" /\ pc[d] = "create" => c = d

\* A committed record is never replaced and a committed resource never
\* withdrawn, by any call, crash or rollback.
CommittedIsPermanent ==
    [][\A k \in Key : record[k] # Absent => /\ record'[k] = record[k]
                                            /\ resources'[k] = resources[k]]_vars

\* A client that keeps retrying is told an outcome, unless its expense was
\* deleted by someone in between.
EveryIntentIsAnswered ==
    <>(\A c \in Call : told[IntentOf(c)] # {} \/ c.key \in deleted)

\* A record of the offline queue that is committed reaches the feed even if
\* the handler died between its two transactions, thanks to the retries,
\* unless it is deleted or its sender leaves the group first: his retry is
\* refused before the repair, and no other device ever hears of the record.
CommittedReachesFeed ==
    \A k \in Queued :
        resources[k] # <<>> ~> \/ k \in feed
                               \/ k \in deleted
                               \/ Sender[k] \in departed

-----------------------------------------------------------------------------
(* The inductive invariant behind the safety properties: what holding a     *)
(* lock, standing at a statement, and having answered say of the database.  *)

\* The uncommitted row of a key belongs to the call between Reserve and the
\* end of its transaction, and exists only while no record is committed.
ReservationInv ==
    /\ \A c \in Call : pc[c] \in {"lock", "create"} <=> reservedBy[c.key] = c
    /\ \A k \in Key : reservedBy[k] # Nobody => /\ reservedBy[k].key = k
                                               /\ record[k] = Absent

GroupLockInv == \A c \in Call : pc[c] = "create" <=> groupLock = c

\* Past Reserve or Lookup a call has seen a record; past Replay or the commit
\* it is the record of its own body.
PositionInv ==
    \A c \in Call :
        /\ pc[c] = "replay" => record[c.key] # Absent
        /\ pc[c] \in {"invalidate", "append", "insert"} =>
               record[c.key] = c.payload

\* An answer is true of the committed state, and stays true.
TrueOf(k, p, a) ==
    CASE a = "applied"  -> /\ record[k] = p
                           /\ k \in Queued => k \in feed
      [] a = "conflict" -> record[k] \notin {Absent, p}
      [] a = "rejected" -> \/ Names[p] \intersect departed # {}
                           \/ /\ record[k] # p
                              /\ archived \/ p \in Invalid
      [] a = "forbidden" -> Sender[k] \in departed

\* Who is away has left.
MembershipInv == away \subseteq departed

AnswerInv ==
    /\ \A c \in Call : pc[c] = "answered" =>
           \A a \in FinalAnswers(reply[c]) : TrueOf(c.key, c.payload, a)
    /\ \A i \in Intent : \A a \in told[i] : TrueOf(i.key, i.payload, a)

IInv ==
    /\ TypeOK
    /\ RecordMatchesResource
    /\ FeedOnlyCommitted
    /\ ReservationInv
    /\ GroupLockInv
    /\ PositionInv
    /\ MembershipInv
    /\ AnswerInv

-----------------------------------------------------------------------------
\* What a caller can observe is what CreateOnce allows.
Abstract == INSTANCE CreateOnce WITH applied <- resources, closed <- archived
ImplementsCreateOnce == Abstract!AbsSpec

\* docs/group_api_contract.md: the same key with the same body returns the
\* same expense record again.  The replay of a deleted expense does not.
SameKeySameBodySameRecord ==
    \A c \in Call : pc[c] = "answered" => reply[c] # "unavailable"
=============================================================================
