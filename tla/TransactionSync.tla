--------------------------- MODULE TransactionSync ---------------------------
(***************************************************************************)
(* Personal transactions of one user in the cloud (SyncService): devices   *)
(* push batches of changes, or claim what a guest had recorded, and pull   *)
(* what changed, page by page.  Each record keeps the newest version by    *)
(* the clock of the device that made it; the server's clock orders pulls.  *)
(*                                                                         *)
(* A request is one READ COMMITTED transaction of many statements: it      *)
(* keeps the rows it wrote locked until it commits, and reads the server's *)
(* clock before the statement that may have to wait for such a lock.       *)
(*                                                                         *)
(* Left out: what a record says, beyond whether two payloads differ, the   *)
(* encoding of cursors, and requests the schemas refuse.  A pull is taken  *)
(* when it is answered and applied; one whose answer is lost did nothing.  *)
(***************************************************************************)
EXTENDS Integers, Sequences

CONSTANTS
    Record,      \* client_record_id and, as the order of ids is arbitrary, id
    Body,        \* payloads
    Key,         \* idempotency keys of claims
    Request,     \* requests of a behaviour, each served once
    None,
    MaxClock,    \* bound: readings of the server's clock
    Scenario     \* bound: rows at first, and the calls that may arrive

\* An entry of a batch; a claim's entry may be one that is not valid.
Item == [action: {"upsert", "delete", "invalid"}, record: Record, time: Nat,
         body: Body \union {None}]
\* A claim has a key, a push none.
Call == [key: Key \union {None}, batch: Seq(Item)]

Status == {"created", "updated", "deleted", "unchanged", "conflict", "rejected"}

\* time is client_updated_at, at is updated_at.
Row == [state: {"none", "live", "deleted"}, time: Nat, body: Body \union {None},
        at: Nat]
NoRow == [state |-> "none", time |-> 0, body |-> None, at |-> 0]
NoRows == [rec \in Record |-> NoRow]

\* What a claim says of an entry.
ClaimStatus(status) ==
    CASE status \in {"created", "updated"} -> "accepted"
      [] status = "unchanged"             -> "duplicate"
      [] OTHER                            -> "rejected"

Claimed == [batch: Seq(Item), answer: Seq({"accepted", "duplicate", "rejected"})]

ASSUME SyncAssumption ==
    /\ Record \subseteq Nat /\ MaxClock \in Nat
    /\ None \notin Key \union Body
    /\ \A s \in Scenario : /\ s.rows \in [Record -> Row]
                           /\ s.calls \subseteq Call
                           /\ \A c \in s.calls : \A i \in DOMAIN c.batch :
                                c.batch[i].action \in
                                  {"upsert", IF c.key = None THEN "delete" ELSE "invalid"}
                           /\ s.closing \in BOOLEAN

VARIABLES
    alive,     \* the user's row exists
    cloud,     \* cloud[rec]: the committed row of rec
    claims,    \* claims[k]: the committed claim with key k
    clock,     \* the last reading of the server's clock
    tx,        \* tx[r]: the transaction of r
    cursor,    \* where a pulling device has come to
    view,      \* what that device has of each record
    answered,  \* items and the status they were answered with
    replies,   \* answers given to claims
    orphans,   \* records a delete looked for before they were there
    behind,    \* records whose last change was committed behind the cursor
    workload   \* the calls that may arrive

ghosts == <<answered, replies, orphans>>
device == <<cursor, view, behind>>
vars   == <<alive, cloud, claims, clock, tx, device, ghosts, workload>>

Position == [at: Int, id: Int]

\* results has one status per entry that is done; wrote the rows the
\* transaction holds uncommitted; holds says it has inserted its claim.
Transaction ==
    [call: Call, results: Seq(Status), now: Nat, wrote: [Record -> Row],
     holds: BOOLEAN,
     step: {"new", "claim", "insert", "update", "delete", "reject", "read",
            "commit", "done"}]

New == [call |-> [key |-> None, batch |-> <<>>], results |-> <<>>, now |-> 0,
        wrote |-> NoRows, holds |-> FALSE, step |-> "new"]
Done == [New EXCEPT !.step = "done"]

TypeOK ==
    /\ alive \in BOOLEAN
    /\ cloud \in [Record -> Row]
    /\ \A k \in DOMAIN claims : k \in Key /\ claims[k] \in Claimed
    /\ clock \in Nat
    /\ tx \in [Request -> Transaction]
    /\ cursor \in Position
    /\ view \in [Record -> Row]
    /\ answered \subseteq [item: Item, status: Status]
    /\ replies \subseteq [key: Key, batch: Seq(Item),
                        answer: Seq({"accepted", "duplicate", "rejected"})]
    /\ orphans \subseteq Record
    /\ behind \subseteq Record
    /\ workload.calls \subseteq Call

-----------------------------------------------------------------------------
(* Pages of changes.                                                       *)

Start == [at |-> -1, id |-> -1]
At(rec, rows) == [at |-> rows[rec].at, id |-> rec]

\* ORDER BY updated_at, id.
Before(p, q) == p.at < q.at \/ (p.at = q.at /\ p.id < q.id)

\* Mutant of After: rows of the same instant are not told apart.
AfterInstant(q, from) == q.at > from.at

\* The condition on rows that come after a cursor.
After(q, from) == q.at > from.at \/ (q.at = from.at /\ q.id > from.id)

Present(rows) == {rec \in Record : rows[rec].state # "none"}

\* list_changes: rows after the cursor, deleted ones included.
Changes == {rec \in Present(cloud) : After(At(rec, cloud), cursor)}

\* One page, up to and including the row of last: how far it goes is the
\* limit, which is the device's choice.
Page(last) == {rec \in Changes : ~Before(At(last, cloud), At(rec, cloud))}

Pull ==
    /\ alive
    /\ \E last \in Changes :
          /\ cursor' = At(last, cloud)
          /\ view' = [rec \in Record |-> IF rec \in Page(last) THEN cloud[rec]
                                         ELSE view[rec]]
    /\ UNCHANGED <<alive, cloud, claims, clock, tx, behind, ghosts, workload>>

-----------------------------------------------------------------------------
(* What a request is doing.                                                *)

Entry(t)  == t.call.batch[Len(t.results) + 1]
Target(t) == Entry(t).record

Wrote(r) == {rec \in Record : tx[r].wrote[rec] # NoRow}
\* What the transaction sees: its own rows, and what others have committed.
Seen(r) == [rec \in Record |-> IF rec \in Wrote(r) THEN tx[r].wrote[rec]
                               ELSE cloud[rec]]
Free(r, rec) == \A q \in Request \ {r} : rec \notin Wrote(q)

NextStep(t) ==
    IF Len(t.results) = Len(t.call.batch) THEN "commit"
    ELSE CASE Entry(t).action = "upsert" -> "insert"
           [] Entry(t).action = "delete" -> "delete"
           [] OTHER                      -> "reject"

\* An upsert and a delete begin with a reading of the clock.
Readings(t) ==
    IF NextStep(t) \in {"insert", "delete"} THEN (clock .. clock + 1) \intersect (0 .. MaxClock)
    ELSE {clock}

\* On to the next entry of the batch, or to its end.
Continue(r, t) ==
    /\ \E now \in Readings(t) :
          /\ clock' = now
          /\ tx' = [tx EXCEPT ![r] = [t EXCEPT !.step = NextStep(t), !.now = now]]
    /\ UNCHANGED <<alive, cloud, claims, device, answered, replies, workload>>

Answer(r, status) ==
    Continue(r, [tx[r] EXCEPT !.results = Append(@, status)])
Write(r, row, status) ==
    Continue(r, [tx[r] EXCEPT !.results = Append(@, status),
                              !.wrote[Target(tx[r])] = row])

Go(r, t) == /\ tx' = [tx EXCEPT ![r] = t]
            /\ UNCHANGED <<alive, cloud, claims, clock, device, answered, replies, workload>>
To(r, step) == Go(r, [tx[r] EXCEPT !.step = step])
Fail(r) == Go(r, Done) /\ UNCHANGED orphans

-----------------------------------------------------------------------------
(* The endpoints.                                                          *)

Push(r) == \E call \in workload.calls :
    /\ tx[r] = New /\ alive
    /\ call.key = None
    /\ Continue(r, [New EXCEPT !.call = call])
    /\ UNCHANGED orphans

Claim(r) == \E call \in workload.calls :
    /\ tx[r] = New /\ alive
    /\ call.key # None
    /\ Go(r, [New EXCEPT !.call = call, !.step = "claim"])
    /\ UNCHANGED orphans

Stored(k) == claims[k]

\* The hash of the request is the one that is stored.
SameRequest(call, stored) == stored.batch = call.batch

\* The stored answer, when the request is the same; 409 when it is not.
Replay(r) ==
    LET call == tx[r].call  stored == Stored(call.key) IN
    /\ tx' = [tx EXCEPT ![r] = Done]
    /\ replies' = replies \union
          IF SameRequest(call, stored)
          THEN {[key |-> call.key, batch |-> call.batch, answer |-> stored.answer]}
          ELSE {}
    /\ UNCHANGED <<alive, cloud, claims, clock, device, answered, orphans, workload>>

\* A claim under way has inserted the key k.
KeyHeld(r, k) == \E q \in Request \ {r} : tx[q].holds /\ tx[q].call.key = k

BeginClaim(r) ==
    IF alive THEN Continue(r, [tx[r] EXCEPT !.holds = TRUE]) /\ UNCHANGED orphans
    ELSE Fail(r)

\* Mutant of TryCreate: the key is looked up and not inserted first.
LookUp(r) ==
    /\ tx[r].step = "claim"
    /\ IF tx[r].call.key \in DOMAIN claims THEN Replay(r) ELSE BeginClaim(r)

\* INSERT .. ON CONFLICT DO NOTHING waits for whoever inserted the key.
TryCreate(r) ==
    /\ tx[r].step = "claim"
    /\ ~KeyHeld(r, tx[r].call.key)
    /\ IF tx[r].call.key \in DOMAIN claims THEN Replay(r) ELSE BeginClaim(r)

\* An entry that is not valid is rejected alone.
Reject(r) == tx[r].step = "reject" /\ Answer(r, "rejected") /\ UNCHANGED orphans

-----------------------------------------------------------------------------
(* The statements of _upsert and _delete.                                  *)

Upserted(item, now) ==
    [state |-> "live", time |-> item.time, body |-> item.body, at |-> now]
Deleted(row, item, now) ==
    [row EXCEPT !.state = "deleted", !.time = item.time, !.at = now]

\* try_insert: the row needs its user; the statement waits for a row that is
\* being inserted or changed.
TryInsert(r) ==
    LET t == tx[r] IN
    /\ t.step = "insert"
    /\ Free(r, Target(t))
    /\ IF Seen(r)[Target(t)].state # "none" THEN To(r, "update")
       ELSE IF alive THEN Write(r, Upserted(Entry(t), t.now), "created")
       ELSE Go(r, Done)
    /\ UNCHANGED orphans

\* Mutant of Newer: what is as old as the stored version replaces it.
NotOlder(item, row) == row.state # "none" /\ row.time <= item.time

\* The condition of update_if_newer and delete_if_newer.
Newer(item, row) == row.state # "none" /\ row.time < item.time

\* The statement picks the row from what is committed and then waits for it.
Unlocked(r) ==
    Newer(Entry(tx[r]), cloud[Target(tx[r])]) => Free(r, Target(tx[r]))

UpdateIfNewer(r) ==
    LET t == tx[r] IN
    /\ t.step = "update"
    /\ Unlocked(r)
    /\ IF Newer(Entry(t), Seen(r)[Target(t)])
       THEN Write(r, Upserted(Entry(t), t.now), "updated")
       ELSE To(r, "read")
    /\ UNCHANGED orphans

DeleteIfNewer(r) ==
    LET t == tx[r]  row == Seen(r)[Target(t)] IN
    /\ t.step = "delete"
    /\ Unlocked(r)
    /\ IF Newer(Entry(t), row) THEN Write(r, Deleted(row, Entry(t), t.now), "deleted")
       ELSE To(r, "read")
    /\ orphans' = orphans \union IF row.state = "none" THEN {Target(t)} ELSE {}

Matches(row, item) ==
    row.state = "live" /\ row.time = item.time /\ row.body = item.body

\* What the row that stood in the way says of an upsert, and of a delete;
\* what is newer than such a row is a conflict too.
UpsertVerdict(item, row) == IF Matches(row, item) THEN "unchanged" ELSE "conflict"
DeleteVerdict(item, row) ==
    IF row.state = "none" \/ (row.state = "deleted" /\ row.time = item.time)
    THEN "unchanged" ELSE "conflict"
Verdict(item, row) == IF item.action = "upsert" THEN UpsertVerdict(item, row)
                      ELSE DeleteVerdict(item, row)

ReadExisting(r) ==
    LET t == tx[r]  row == Seen(r)[Target(t)] IN
    /\ t.step = "read"
    /\ IF row.state = "none" /\ Entry(t).action = "upsert" THEN Go(r, Done)
       ELSE Answer(r, Verdict(Entry(t), row))
    /\ UNCHANGED orphans

-----------------------------------------------------------------------------
(* The end of a request.                                                   *)

Answers(t) == {[item |-> t.call.batch[i], status |-> t.results[i]] :
                 i \in DOMAIN t.results}

Response(t) == [i \in DOMAIN t.results |-> ClaimStatus(t.results[i])]

Commit(r) ==
    LET t == tx[r]  k == t.call.key IN
    /\ t.step = "commit"
    /\ cloud' = Seen(r)
    /\ claims' = IF k = None THEN claims
                 ELSE [j \in DOMAIN claims \union {k} |->
                         IF j = k THEN [batch |-> t.call.batch, answer |-> Response(t)]
                         ELSE claims[j]]
    /\ tx' = [tx EXCEPT ![r] = Done]
    /\ answered' = answered \union Answers(t)
    /\ replies' = replies \union
          IF k = None THEN {}
          ELSE {[key |-> k, batch |-> t.call.batch, answer |-> Response(t)]}
    /\ behind' = (behind \ Wrote(r)) \union
                 {rec \in Wrote(r) : ~After(At(rec, cloud'), cursor)}
    /\ UNCHANGED <<alive, clock, cursor, view, orphans, workload>>

\* A failure, or the end of a deadlock: nothing uncommitted stays.
Crash(r) == tx[r].step \notin {"new", "done"} /\ Fail(r)

\* The deletion of the account takes the user's rows with it; an insert that
\* refers to the user, or a row being changed, makes it wait.
DeleteAccount ==
    /\ alive /\ workload.closing
    /\ \A r \in Request : ~tx[r].holds /\ Wrote(r) = {}
    /\ alive' = FALSE
    /\ cloud' = NoRows /\ claims' = <<>>
    /\ cursor' = Start /\ view' = NoRows /\ behind' = {}
    /\ answered' = {} /\ replies' = {}
    /\ UNCHANGED <<clock, tx, orphans, workload>>

Init ==
    /\ alive = TRUE
    /\ \E s \in Scenario :
          /\ cloud = s.rows
          /\ workload = [calls |-> s.calls, closing |-> s.closing]
    /\ claims = <<>>
    /\ clock = 1
    /\ tx = [r \in Request |-> New]
    /\ cursor = Start /\ view = NoRows /\ behind = {}
    /\ answered = {} /\ replies = {} /\ orphans = {}

Serve(r) == \/ Push(r) \/ Claim(r) \/ TryCreate(r) \/ Reject(r)
            \/ TryInsert(r) \/ UpdateIfNewer(r) \/ DeleteIfNewer(r)
            \/ ReadExisting(r) \/ Commit(r) \/ Crash(r)

Next == Pull \/ DeleteAccount \/ \E r \in Request : Serve(r)

Spec == Init /\ [][Next]_vars

-----------------------------------------------------------------------------
(* Properties.                                                             *)

\* What is true of the row once an item has been answered.
Holds(item, status, row) ==
    CASE status = "rejected" -> TRUE
      [] status = "deleted"  -> \/ row.time > item.time
                                \/ row.state = "deleted" /\ row.time = item.time
      [] status = "conflict" -> \/ row.time > item.time
                                \/ row.time = item.time /\ Verdict(item, row) = "conflict"
      [] OTHER               -> row.time > item.time \/ Verdict(item, row) = "unchanged"

\* Every answer a device was given stays true, in whatever order requests,
\* retries and other devices' batches arrive: an item that was taken is
\* there unless a newer one replaced it, and one refused with a conflict
\* lost against a newer or a different version.  (A delete that arrives before its
\* record leaves no trace; those records are left out, as are deleted accounts.)
AnswersStayTrue ==
    alive => \A a \in answered :
        \/ a.status = "rejected" \/ a.item.record \in orphans
        \/ /\ a.item.record \in Present(cloud)
           /\ Holds(a.item, a.status, cloud[a.item.record])

\* One key has one answer, however often the claim is sent, whatever happens
\* to the records meanwhile.
ClaimAnsweredOnce == \A a, b \in replies : a.key = b.key => a = b

\* A device that pulls page by page has the committed version of every record its
\* cursor has passed, unless the change was committed behind the cursor.
OnlyOvertakenIsSkipped ==
    \A rec \in Present(cloud) \ behind :
        After(At(rec, cloud), cursor) \/ view[rec] = cloud[rec]

\* What implementation_plan.md:218 promises: pulling with the cursor returns
\* the changes other devices have made.
PullReturnsChanges ==
    \A rec \in Present(cloud) : After(At(rec, cloud), cursor) \/ view[rec] = cloud[rec]

-----------------------------------------------------------------------------
(* The inductive invariant.                                                *)

\* What the step of a transaction says of what it carries.
Placed(t) ==
    /\ Len(t.results) <= Len(t.call.batch)
    /\ t.step \in {"new", "claim", "done"} =>
           t.results = <<>> /\ t.wrote = NoRows /\ ~t.holds
    /\ t.step \in {"insert", "update", "delete", "reject", "read"} =>
           Len(t.results) < Len(t.call.batch)
    /\ t.step \in {"insert", "update"} => Entry(t).action = "upsert"
    /\ t.step = "delete" => Entry(t).action = "delete"
    /\ t.step = "read" => Entry(t).action \in {"upsert", "delete"}
    /\ t.step = "claim" \/ t.holds => t.call.key # None
    /\ t.step \notin {"new", "claim", "done"} /\ t.call.key # None => t.holds

PlaceInv == \A r \in Request : Placed(tx[r])

\* Whoever has inserted a key is alone with it, and every answer to a claim
\* is the stored one.
ClaimInv ==
    /\ \A r \in Request : tx[r].holds =>
           /\ tx[r].call.key \notin DOMAIN claims
           /\ ~KeyHeld(r, tx[r].call.key)
    /\ \A p \in replies :
           /\ p.key \in DOMAIN claims
           /\ claims[p.key] = [batch |-> p.batch, answer |-> p.answer]

\* A row gives way to a newer one only.
Later(old, new) ==
    \/ new = old
    \/ new.state # "none" /\ (old.state = "none" \/ new.time > old.time)

\* Uncommitted rows are held by one transaction and newer than committed ones.
WroteInv ==
    \A r \in Request : \A rec \in Wrote(r) :
        /\ Free(r, rec)
        /\ Later(cloud[rec], tx[r].wrote[rec])

\* An entry and its status agree with the row.
IsTrue(item, status, row) ==
    \/ status = "rejected" \/ item.record \in orphans
    \/ row.state # "none" /\ Holds(item, status, row)

\* What a transaction is going to answer is true of what it sees.
ResultInv ==
    alive => \A r \in Request : \A i \in 1 .. Len(tx[r].results) :
        LET item == tx[r].call.batch[i] IN
        IsTrue(item, tx[r].results[i], Seen(r)[item.record])

\* A row that has stood in the way of an upsert is there; one that was not
\* older is as new as the entry.
UnderwayInv ==
    alive => \A r \in Request :
        LET row == Seen(r)[Target(tx[r])] IN
        /\ tx[r].step = "update" => row.state # "none"
        /\ tx[r].step = "read" => \/ Target(tx[r]) \in orphans
                                  \/ row.state # "none" /\ row.time >= Entry(tx[r]).time

IInv ==
    /\ TypeOK /\ PlaceInv /\ ClaimInv /\ WroteInv /\ ResultInv /\ UnderwayInv
    /\ AnswersStayTrue /\ OnlyOvertakenIsSkipped
=============================================================================
