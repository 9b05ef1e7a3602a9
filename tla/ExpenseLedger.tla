--------------------------- MODULE ExpenseLedger ---------------------------
(***************************************************************************)
(* What happens to an expense after it exists: the offline operations that *)
(* change or delete it (_push_group_expense_mutation), the ones that touch *)
(* a single share (_push_expense_share), the settlements that lock it, and *)
(* the change feed that tells the other devices.                           *)
(*                                                                         *)
(* A call is one push request in its own READ COMMITTED session.  An       *)
(* update or a delete selects the expense row FOR UPDATE and holds it to   *)
(* the end of its transaction; a share operation reads it without a lock   *)
(* and only waits for it when it writes.  Settlements are inserted under   *)
(* the group lock, which none of these operations takes.                   *)
(*                                                                         *)
(* updated_at is a reading of the server's clock, of which only the order   *)
(* within one expense matters: clock[e] counts the readings made for e, no *)
(* two of which are equal.  An update or a delete reads it while it holds  *)
(* the row; a share operation reads it before its flush, which may have to *)
(* wait, so that the row a share operation writes can carry an older       *)
(* updated_at than the row it replaces.                                    *)
(* Left out: titles and notes, currencies, itemized expenses, permissions  *)
(* and membership checks, which refuse a request before any of this state  *)
(* is read.                                                                *)
(***************************************************************************)
EXTENDS Integers, Sequences, FiniteSets, Functions

CONSTANTS
    Expense,        \* expenses of one group
    Member,         \* who can have a share
    Initial,        \* Initial[e]: the financial details e is created with
    Op,             \* client_record_ids of offline operations
    Body,           \* Body[o]: what operation o asks for
    Copy,           \* tells retransmissions of one operation apart
    Workload,       \* bound: the sets of calls that may be sent together
    Nobody,         \* the owner of a free row
    Creation,       \* the client_record_id of the push that created an expense
    MaxFaults       \* bound: crashes and lost answers

Kind      == {"update", "delete", "shareCreate", "shareUpdate", "shareDelete"}
Mutation  == {"update", "delete"}
Absent    == -1      \* the member has no share
Details   == [total: Nat, shares: [Member -> Nat \union {Absent}]]
Call      == [op: Op, copy: Copy]

ASSUME LedgerAssumption ==
    /\ \A e \in Expense : Initial[e] \in Details
    /\ \A o \in Op : /\ Body[o].kind \in Kind
                     /\ Body[o].expense \in Expense
                     /\ Body[o].details \in Details
                     /\ Body[o].versioned \in BOOLEAN
    /\ Workload \subseteq SUBSET Call
    /\ Nobody \notin Call
    /\ Creation \notin Op
    /\ MaxFaults \in Nat

VARIABLES
    ledger,     \* ledger[e]: the committed row of e and its shares
    settled,    \* the expenses that a later settlement locks
    receipts,   \* the operations with a row in group_sync_operations
    feed,       \* group_sync_changes in sequence order
    announce,   \* announce[e]: where the creation's own feed row stands
    rowLock,    \* rowLock[e]: the call that holds the expense row
    pc,         \* pc[c]: the statement call c executes next
    clock,      \* clock[e]: the last reading of the clock for updated_at of e
    sawLock,    \* the calls that found a settlement newer than their expense
    stamp,      \* stamp[c]: the updated_at share operation c will write
    reply,      \* reply[c]: the HTTP answer c has produced
    expected,   \* expected[o]: the updated_at the client sends with o
    told,       \* told[o]: the final answers the client of o received
    planned,    \* the calls of this behaviour (a bound, not program state)
    faults

dbVars     == <<ledger, settled, receipts, feed, announce, clock>>
clientVars == <<expected, told, planned>>
vars       == <<ledger, settled, receipts, feed, announce, clock, rowLock, pc,
                sawLock, stamp, reply, expected, told, planned, faults>>

Unsent == -1    \* the operation has not been queued
Unversioned == 0    \* the request carries no expected_updated_at

Row(version, deleted, details) ==
    [version |-> version, deleted |-> deleted, details |-> details]

Created(e) == ledger[e].version > 0
Live(e)    == Created(e) /\ ~ledger[e].deleted

Holders(shares) == {m \in Member : shares[m] # Absent}
Sum(shares)     == FoldFunctionOnSet(+, 0, shares, Holders(shares))

TypeOK ==
    /\ ledger \in [Expense -> [version: Nat, deleted: BOOLEAN, details: Details]]
    /\ settled \subseteq Expense
    /\ receipts \subseteq Op
    /\ feed \in Seq([op: Op \union {Creation}, expense: Expense, version: Nat,
                     kind: {"snapshot", "tombstone", "share"}, details: Details])
    /\ announce \in [Expense -> {"none", "pending", "lost", "done"}]
    /\ rowLock \in [Expense -> Call \union {Nobody}]
    /\ pc \in [Call -> {"idle", "receipt", "row", "settlements", "apply",
                        "expense", "share", "stamp", "write", "answered"}]
    /\ clock \in [Expense -> Nat]
    /\ sawLock \subseteq Call
    /\ stamp \in [Call -> Nat]
    /\ reply \in [Call -> {"none", "accepted", "duplicate", "conflict",
                           "rejected", "error"}]
    /\ expected \in [Op -> Nat \union {Unsent}]
    /\ told \in [Op -> SUBSET {"applied", "conflict", "rejected"}]
    /\ planned \subseteq Call
    /\ faults \in Nat

Init ==
    /\ ledger = [e \in Expense |-> Row(0, FALSE, Initial[e])]
    /\ settled = {}
    /\ receipts = {}
    /\ feed = <<>>
    /\ announce = [e \in Expense |-> "none"]
    /\ rowLock = [e \in Expense |-> Nobody]
    /\ pc = [c \in Call |-> "idle"]
    /\ clock = [e \in Expense |-> 0]
    /\ sawLock = {}
    /\ stamp = [c \in Call |-> 0]
    /\ reply = [c \in Call |-> "none"]
    /\ expected = [o \in Op |-> Unsent]
    /\ told = [o \in Op |-> {}]
    /\ planned \in Workload
    /\ faults = 0

-----------------------------------------------------------------------------
(* Expenses come into being and are settled.                               *)

\* The first transaction of the push that creates e.
Create(e) ==
    /\ ~Created(e)
    /\ ledger' = [ledger EXCEPT ![e] = Row(1, FALSE, Initial[e])]
    /\ clock' = [clock EXCEPT ![e] = 1]
    /\ announce' = [announce EXCEPT ![e] = "pending"]
    /\ UNCHANGED <<settled, receipts, feed, rowLock, pc, sawLock, stamp, reply, faults>>
    /\ UNCHANGED clientVars

\* Mutant of Change: the time of the change is taken before the row is written.
EarlyStamp(o, e, kind, row) ==
    [op |-> o, expense |-> e, version |-> row.version - 1, kind |-> kind,
     details |-> row.details]

Change(o, e, kind, row) ==
    [op |-> o, expense |-> e, version |-> row.version, kind |-> kind,
     details |-> row.details]

\* Its second transaction: the creation's answer goes to the feed.  If the
\* handler died in between, a retry announces the expense as it is by then,
\* unless it has been deleted.
Announce(e) ==
    /\ \/ /\ announce[e] = "pending"
          /\ feed' = Append(feed, Change(Creation, e, "snapshot",
                                         Row(1, FALSE, Initial[e])))
       \/ /\ announce[e] = "lost"
          /\ Live(e)
          /\ feed' = Append(feed, Change(Creation, e, "snapshot", ledger[e]))
    /\ announce' = [announce EXCEPT ![e] = "done"]
    /\ UNCHANGED <<ledger, settled, receipts, rowLock, pc, sawLock, stamp, reply,
                   faults>>
    /\ UNCHANGED clock
    /\ UNCHANGED clientVars

CreatorDies(e) ==
    /\ announce[e] = "pending"
    /\ faults < MaxFaults
    /\ faults' = faults + 1
    /\ announce' = [announce EXCEPT ![e] = "lost"]
    /\ UNCHANGED <<ledger, settled, receipts, feed, rowLock, pc, sawLock, stamp, reply>>
    /\ UNCHANGED clock
    /\ UNCHANGED clientVars

\* A settlement locks every expense created before it.
Settle ==
    /\ settled # {e \in Expense : Created(e)}
    /\ settled' = {e \in Expense : Created(e)}
    /\ UNCHANGED <<ledger, receipts, feed, announce, rowLock, pc, sawLock, stamp, reply,
                   faults>>
    /\ UNCHANGED clock
    /\ UNCHANGED clientVars

-----------------------------------------------------------------------------
(* The push of an operation, up to where the two handlers part.            *)

Target(c) == Body[c.op].expense
Asked(c)  == Body[c.op].details
KindOf(c) == Body[c.op].kind

Goto(c, label) == pc' = [pc EXCEPT ![c] = label]

Respond(c, r) ==
    /\ Goto(c, "answered")
    /\ reply' = [reply EXCEPT ![c] = r]

Release(c) ==
    rowLock' = [e \in Expense |-> IF rowLock[e] = c THEN Nobody ELSE rowLock[e]]

\* The user edits a live local copy: the operation enters the queue with the
\* updated_at of that copy, if the client sends one.
Enqueue(o) ==
    LET e == Body[o].expense IN
    /\ \E c \in planned : c.op = o
    /\ expected[o] = Unsent
    /\ Live(e)
    /\ expected' = [expected EXCEPT ![o] =
                        IF Body[o].versioned THEN ledger[e].version ELSE Unversioned]
    /\ UNCHANGED <<rowLock, pc, sawLock, stamp, reply, told, planned, faults>>
    /\ UNCHANGED dbVars

Send(c) ==
    /\ c \in planned
    /\ pc[c] = "idle"
    /\ expected[c.op] # Unsent
    /\ told[c.op] = {}
    /\ Goto(c, "receipt")
    /\ UNCHANGED <<rowLock, sawLock, stamp, reply, faults>>
    /\ UNCHANGED clientVars
    /\ UNCHANGED dbVars

\* An operation with a receipt is answered from it.
CheckReceipt(c) ==
    /\ pc[c] = "receipt"
    /\ \/ c.op \in receipts /\ Respond(c, "duplicate")
       \/ /\ c.op \notin receipts
          /\ Goto(c, IF KindOf(c) \in Mutation THEN "row" ELSE "expense")
          /\ UNCHANGED reply
    /\ UNCHANGED <<rowLock, sawLock, stamp, faults>>
    /\ UNCHANGED clientVars
    /\ UNCHANGED dbVars

\* Mutant of Overtaken: deleted_at is not looked at.
IgnoreDeletion(c) == expected[c.op] \notin {Unversioned, ledger[Target(c)].version}

\* The row the request is based on is gone or is no longer what it was.
Overtaken(c) ==
    LET row == ledger[Target(c)] IN
    row.deleted \/ expected[c.op] \notin {Unversioned, row.version}

-----------------------------------------------------------------------------
(* Update and delete.                                                      *)

\* Mutant of LockRow: the row is read without FOR UPDATE.
ReadRow(c) ==
    /\ pc[c] = "row"
    /\ \/ Overtaken(c) /\ Respond(c, "conflict")
       \/ ~Overtaken(c) /\ Goto(c, "settlements") /\ UNCHANGED reply
    /\ UNCHANGED <<sawLock, stamp, rowLock, faults>>
    /\ UNCHANGED clientVars
    /\ UNCHANGED dbVars

\* SELECT ... FOR UPDATE of the expense, then the checks on what it returned.
LockRow(c) ==
    /\ pc[c] = "row"
    /\ rowLock[Target(c)] = Nobody
    /\ \/ /\ Overtaken(c)
          /\ Respond(c, "conflict")
          /\ UNCHANGED rowLock
       \/ /\ ~Overtaken(c)
          /\ rowLock' = [rowLock EXCEPT ![Target(c)] = c]
          /\ Goto(c, "settlements")
          /\ UNCHANGED reply
    /\ UNCHANGED <<sawLock, stamp, faults>>
    /\ UNCHANGED clientVars
    /\ UNCHANGED dbVars

\* Mutant of ReadSettlements: the financial lock is not consulted.
IgnoreSettlements(c) ==
    /\ pc[c] = "settlements"
    /\ Goto(c, "apply")
    /\ UNCHANGED <<rowLock, sawLock, stamp, reply, faults>>
    /\ UNCHANGED clientVars
    /\ UNCHANGED dbVars

\* is_financially_locked: one SELECT, no lock on the group.
ReadSettlements(c) ==
    /\ pc[c] = "settlements"
    /\ sawLock' = IF Target(c) \in settled THEN sawLock \union {c} ELSE sawLock
    /\ Goto(c, "apply")
    /\ UNCHANGED <<rowLock, stamp, reply, faults>>
    /\ UNCHANGED clientVars
    /\ UNCHANGED dbVars

Invalid(c) == KindOf(c) = "update" /\ Sum(Asked(c).shares) # Asked(c).total

ChangesFinancials(c) ==
    KindOf(c) = "delete" \/ Asked(c) # ledger[Target(c)].details

\* The clock is read once more for e.
Tick(e) == clock' = [clock EXCEPT ![e] = @ + 1]

\* The row after the operation of c, stamped while c holds it.
After(c) ==
    LET row == ledger[Target(c)]
        now == clock[Target(c)] + 1
    IN  IF KindOf(c) = "delete" THEN Row(now, TRUE, row.details)
                                ELSE Row(now, FALSE, Asked(c))

Refuse(c) ==
    /\ pc[c] = "apply"
    /\ \/ Invalid(c) /\ Respond(c, "rejected")
       \/ /\ ~Invalid(c)
          /\ c \in sawLock
          /\ ChangesFinancials(c)
          /\ Respond(c, "conflict")
       \/ /\ ~Invalid(c)
          /\ ~(c \in sawLock /\ ChangesFinancials(c))
          /\ c.op \in receipts      \* the unique key of the receipts
          /\ Respond(c, "error")
    /\ Release(c)
    /\ UNCHANGED <<sawLock, stamp, faults>>
    /\ UNCHANGED clientVars
    /\ UNCHANGED dbVars

\* Mutant of CommitMutation: a delete leaves no trace in the feed.
CommitQuietly(c) ==
    /\ pc[c] = "apply"
    /\ ~Invalid(c)
    /\ ~(c \in sawLock /\ ChangesFinancials(c))
    /\ c.op \notin receipts
    /\ ledger' = [ledger EXCEPT ![Target(c)] = After(c)]
    /\ Tick(Target(c))
    /\ receipts' = receipts \union {c.op}
    /\ feed' = IF KindOf(c) = "delete" THEN feed
               ELSE Append(feed, Change(c.op, Target(c), "snapshot", After(c)))
    /\ Release(c)
    /\ Respond(c, "accepted")
    /\ UNCHANGED <<settled, announce, sawLock, stamp, faults>>
    /\ UNCHANGED clientVars

\* Mutant of CommitMutation: the receipts have no unique key.
CommitAgain(c) ==
    /\ pc[c] = "apply"
    /\ ~Invalid(c)
    /\ ~(c \in sawLock /\ ChangesFinancials(c))
    /\ ledger' = [ledger EXCEPT ![Target(c)] = After(c)]
    /\ Tick(Target(c))
    /\ receipts' = receipts \union {c.op}
    /\ feed' = Append(feed, Change(c.op, Target(c), "snapshot", After(c)))
    /\ Release(c)
    /\ Respond(c, "accepted")
    /\ UNCHANGED <<settled, announce, sawLock, stamp, faults>>
    /\ UNCHANGED clientVars

\* The expense, the receipt and the feed row commit together.
CommitMutation(c) ==
    /\ pc[c] = "apply"
    /\ ~Invalid(c)
    /\ ~(c \in sawLock /\ ChangesFinancials(c))
    /\ c.op \notin receipts
    /\ ledger' = [ledger EXCEPT ![Target(c)] = After(c)]
    /\ Tick(Target(c))
    /\ receipts' = receipts \union {c.op}
    /\ feed' = Append(feed, Change(c.op, Target(c),
                          IF KindOf(c) = "delete" THEN "tombstone" ELSE "snapshot",
                          After(c)))
    /\ Release(c)
    /\ Respond(c, "accepted")
    /\ UNCHANGED <<settled, announce, sawLock, stamp, faults>>
    /\ UNCHANGED clientVars

-----------------------------------------------------------------------------
(* Operations on one share: no lock on the expense, no look at the total    *)
(* or at the settlements.                                                  *)

CheckExpense(c) ==
    /\ pc[c] = "expense"
    /\ \/ Overtaken(c) /\ Respond(c, "conflict")
       \/ ~Overtaken(c) /\ Goto(c, "share") /\ UNCHANGED reply
    /\ UNCHANGED <<rowLock, sawLock, stamp, faults>>
    /\ UNCHANGED clientVars
    /\ UNCHANGED dbVars

\* The share's owner is the one holder in the body's shares.
ShareExists(c) ==
    Holders(Asked(c).shares) \subseteq Holders(ledger[Target(c)].details.shares)

ReadShare(c) ==
    /\ pc[c] = "share"
    /\ \/ (KindOf(c) = "shareCreate") = ShareExists(c) /\ Respond(c, "conflict")
       \/ /\ (KindOf(c) = "shareCreate") # ShareExists(c)
          /\ Goto(c, "stamp")
          /\ UNCHANGED reply
    /\ UNCHANGED <<rowLock, sawLock, stamp, faults>>
    /\ UNCHANGED clientVars
    /\ UNCHANGED dbVars

\* updated_at is set on the object; nothing is flushed before the SELECT of
\* _append_group_change.
Stamp(c) ==
    /\ pc[c] = "stamp"
    /\ Tick(Target(c))
    /\ stamp' = [stamp EXCEPT ![c] = clock[Target(c)] + 1]
    /\ Goto(c, "write")
    /\ UNCHANGED <<ledger, settled, receipts, feed, announce, rowLock, sawLock,
                   reply, faults>>
    /\ UNCHANGED clientVars

SharesAfter(c) ==
    LET old == ledger[Target(c)].details.shares
        new == Asked(c).shares
    IN  [m \in Member |->
            IF m \notin Holders(new) THEN old[m]
            ELSE IF KindOf(c) = "shareDelete" THEN Absent ELSE new[m]]

\* The flush: the UPDATE of the expense waits for a mutation that holds it;
\* an INSERT of a share that exists by now, an UPDATE of one that is gone and
\* a second receipt fail; a DELETE of a share that is gone does not.
Stale(c) ==
    \/ c.op \in receipts
    \/ KindOf(c) = "shareCreate" /\ ShareExists(c)
    \/ KindOf(c) = "shareUpdate" /\ ~ShareExists(c)

\* The row as c leaves it, with the time c has read before it could write.
Patched(c) ==
    [ledger[Target(c)] EXCEPT !.version = stamp[c], !.details.shares = SharesAfter(c)]

\* Mutant of WriteShare: the receipt has no unique key.
WriteShareAgain(c) ==
    /\ pc[c] = "write"
    /\ rowLock[Target(c)] = Nobody
    /\ ledger' = [ledger EXCEPT ![Target(c)] = Patched(c)]
    /\ receipts' = receipts \union {c.op}
    /\ feed' = Append(feed, Change(c.op, Target(c), "share", Patched(c)))
    /\ Respond(c, "accepted")
    /\ UNCHANGED <<settled, announce, clock, rowLock, sawLock, stamp, faults>>
    /\ UNCHANGED clientVars

WriteShare(c) ==
    /\ pc[c] = "write"
    /\ rowLock[Target(c)] = Nobody
    /\ \/ Stale(c) /\ Respond(c, "error") /\ UNCHANGED <<ledger, receipts, feed>>
       \/ /\ ~Stale(c)
          /\ ledger' = [ledger EXCEPT ![Target(c)] = Patched(c)]
          /\ receipts' = receipts \union {c.op}
          /\ feed' = Append(feed, Change(c.op, Target(c), "share", Patched(c)))
          /\ Respond(c, "accepted")
    /\ UNCHANGED <<settled, announce, clock, rowLock, sawLock, stamp, faults>>
    /\ UNCHANGED clientVars

-----------------------------------------------------------------------------
(* Answers and faults.                                                     *)

FinalAnswers(r) ==
    CASE r \in {"accepted", "duplicate"} -> {"applied"}
      [] r \in {"conflict", "rejected"}  -> {r}
      [] OTHER                           -> {}

Forget(c) ==
    /\ Goto(c, "idle")
    /\ reply' = [reply EXCEPT ![c] = "none"]
    /\ sawLock' = sawLock \ {c}
    /\ stamp' = [stamp EXCEPT ![c] = 0]

Deliver(c) ==
    /\ pc[c] = "answered"
    /\ told' = [told EXCEPT ![c.op] = @ \union FinalAnswers(reply[c])]
    /\ Forget(c)
    /\ UNCHANGED <<rowLock, expected, planned, faults>>
    /\ UNCHANGED dbVars

\* The connection or the process dies: rollback, and no answer.
Crash(c) ==
    /\ pc[c] # "idle"
    /\ faults < MaxFaults
    /\ faults' = faults + 1
    /\ Release(c)
    /\ Forget(c)
    /\ UNCHANGED clientVars
    /\ UNCHANGED dbVars

ExpenseStep ==
    \E e \in Expense : Create(e) \/ Announce(e) \/ CreatorDies(e)

MutationStep(c) ==
    LockRow(c) \/ ReadSettlements(c) \/ Refuse(c) \/ CommitMutation(c)

ShareStep(c) == CheckExpense(c) \/ ReadShare(c) \/ Stamp(c) \/ WriteShare(c)

Next ==
    \/ ExpenseStep
    \/ Settle
    \/ \E o \in Op : Enqueue(o)
    \/ \E c \in Call : \/ Send(c)
                       \/ CheckReceipt(c)
                       \/ MutationStep(c)
                       \/ ShareStep(c)
                       \/ Deliver(c)
                       \/ Crash(c)

Spec == Init /\ [][Next]_vars

-----------------------------------------------------------------------------
(* Correctness.                                                            *)

\* A share operation has written to e.
Patch(ops, e) == \E o \in ops : Body[o].kind \notin Mutation /\ Body[o].expense = e

\* An update or a delete based on a version of an expense is applied to exactly
\* that version, whoever else wrote in the meantime, share operations included.
NoLostUpdate ==
    [][\A o \in Op :
          o \in receipts' \ receipts /\ Body[o].kind \in Mutation =>
              expected[o] \in {Unversioned, ledger[Body[o].expense].version}]_vars

\* The rows of the feed that tell of a write of e.
WriteRows(e) == {i \in DOMAIN feed : feed[i].expense = e /\ feed[i].op # Creation}

\* Every write of an expense is one operation applied once, however often the
\* operation was sent, and the feed tells each write once, with the updated_at
\* that was written.  An update or a delete carries a later updated_at than
\* every write the feed tells before it, so no device drops it as old; of a
\* share operation that is not true, its time is read before it waits.
AppliedOnce ==
    \A e \in Expense : Created(e) =>
        /\ {feed[i].op : i \in WriteRows(e)} = {o \in receipts : Body[o].expense = e}
        /\ \A i, j \in WriteRows(e) : i < j =>
               /\ feed[i].op # feed[j].op
               /\ Body[feed[j].op].kind \in Mutation =>
                      feed[i].version < feed[j].version
        /\ \A i \in WriteRows(e) :
               (\A j \in WriteRows(e) : j <= i) => feed[i].version = ledger[e].version

\* What a client that never edits makes of a pulled change: a snapshot older
\* than what it has is dropped, so is the tombstone of an unknown expense.
Apply(view, x) ==
    CASE x.kind = "snapshot" /\ view.version > x.version -> view
      [] x.kind = "snapshot" /\ view.version <= x.version ->
             Row(x.version, FALSE, x.details)
      [] x.kind = "tombstone" /\ view.version > 0 ->
             Row(x.version, TRUE, view.details)
      [] OTHER -> view

\* What it has of e when it has pulled the whole feed, row after row.
PulledView(e) ==
    LET view[n \in 0 .. Len(feed)] ==
            IF n = 0 THEN Row(0, FALSE, Initial[e])
            ELSE IF feed[n].expense = e THEN Apply(view[n - 1], feed[n])
            ELSE view[n - 1]
    IN  view[Len(feed)]

\* The first the feed tells of e is its creation.
CreationFirst(e) ==
    \E i \in DOMAIN feed :
        /\ feed[i].expense = e /\ feed[i].op = Creation
        /\ \A j \in DOMAIN feed : feed[j].expense = e => i <= j

\* A device that pulls the feed of an expense announced before it was changed
\* ends up with the ledger's version of it (a change of a share is not
\* something it can read).
FeedReproducesLedger ==
    \A e \in Expense :
        CreationFirst(e) /\ ~Patch(receipts, e) => PulledView(e) = ledger[e]

\* A settlement is recorded and the calls that had looked for settlements
\* before it are over.
Frozen(e) ==
    /\ e \in settled
    /\ \A c \in Call : Target(c) = e /\ pc[c] = "apply" => c \in sawLock

\* A deleted expense stays deleted and as it is, and from a settlement that is
\* Frozen on no update or delete gets past is_financially_locked and no amount
\* changes any more; only a share operation that had looked at the expense
\* before still writes to it.
ClosedStaysClosed ==
    [][\A e \in Expense :
          LET patched == Patch(receipts' \ receipts, e) IN
          /\ ledger[e].deleted => /\ ledger'[e].deleted
                                  /\ patched \/ ledger'[e] = ledger[e]
          /\ Frozen(e) => /\ Frozen(e)'
                          /\ \/ patched
                             \/ /\ ledger'[e].details = ledger[e].details
                                /\ ledger'[e].deleted = ledger[e].deleted]_vars

\* The inductive invariant.  Rows that are deleted or settled were created.
RowInv == \A e \in Expense : ledger[e].deleted \/ e \in settled => Created(e)

\* Where a call is tells which of the two handlers serves it.
PathInv ==
    \A c \in Call :
        /\ pc[c] \in {"row", "settlements", "apply"} => KindOf(c) \in Mutation
        /\ pc[c] \in {"expense", "share", "stamp", "write"} => KindOf(c) \notin Mutation

\* From its checks to its commit an update or delete holds the row, which is
\* as the checks have found it.
LockInv ==
    \A c \in Call :
        pc[c] \in {"settlements", "apply"} => rowLock[Target(c)] = c /\ ~Overtaken(c)

\* A share operation that is about to write has read the clock.
StampInv == \A c \in Call : pc[c] = "write" => stamp[c] > 0

IInv == TypeOK /\ RowInv /\ PathInv /\ LockInv /\ StampInv

\* docs/group_api_contract.md: after a settlement the amount, the payer and
\* the split of an expense cannot change, nor can it be deleted.  The lock is
\* read without locking the group, so a settlement can slip in.
SettledIsFrozen ==
    [][\A e \in settled :
          \/ Patch(receipts' \ receipts, e)
          \/ /\ ledger'[e].details = ledger[e].details
             /\ ledger'[e].deleted = ledger[e].deleted]_vars

\* PRD.md: pushes are idempotent.  Nobody who sent an operation that has been
\* applied is told that it conflicts.
RetriesAgree ==
    \A c \in Call : pc[c] = "answered" /\ c.op \in receipts => reply[c] # "conflict"
=============================================================================
