------------------------------ MODULE GroupSync ------------------------------
(***************************************************************************)
(* The expenses of a group on a device: what the user changes is stored    *)
(* and queued, GroupSyncCoordinator pushes the queue and then pulls the    *)
(* group's change feed, and what the server refuses as a conflict waits    *)
(* for the user.  Another member changes the same expenses.                *)
(*                                                                         *)
(* The server's side is the push endpoint as the feed sees it: an expense  *)
(* is created in one transaction and its change appended in a second one;  *)
(* an update or delete writes expense, receipt and change in one.  A       *)
(* change draws its place in the feed when it is inserted and is read      *)
(* there once it is committed.                                             *)
(*                                                                         *)
(* Left out: shares and settlements (the feed treats them alike, and they  *)
(* are never edited on the device), other accounts of the device, receipts *)
(* and permissions, except that a push may be refused for good.            *)
(***************************************************************************)
EXTENDS Integers, Sequences, FiniteSets

CONSTANTS
    Key,         \* client_record_id of operations
    None,
    MaxRetries,  \* maxRetries
    PageSize,    \* limit of a pull
    Scenario     \* bound: what may happen in a behaviour

Op == {"create", "update", "delete"}

\* An expense is known by the operation that created it: the device calls it
\* by the key of that operation, the server by an id of its own.
Id == {"local", "server"} \X Key
Local(k)  == <<"local", k>>
Remote(k) == <<"server", k>>

\* known: expenses another member has created before.  mine and others: operations the
\* user and another member may start, each once, and what they are.  spare:
\* keys for retrying conflicts.  skew: how far the device's clock is off, even, since
\* its stamps fall between the server's.
\* faults: crashes, lost answers and refusals together.
Plan == [known: Seq(Key), mine: SUBSET (Key \X Op), others: SUBSET (Key \X Op),
         spare: SUBSET Key, skew: Int, faults: Nat]

\* Keys are UUIDs: nothing else has the key of an operation to come.
New(p) == {x[1] : x \in p.mine \union p.others} \union p.spare

ASSUME GroupSyncAssumption ==
    /\ MaxRetries \in Nat \ {0} /\ PageSize \in Nat \ {0}
    /\ None \notin Key /\ Key \intersect Id = {} /\ Scenario \subseteq Plan
    /\ \A p \in Scenario :
          /\ \A x, y \in p.mine \union p.others : x[1] = y[1] => x = y
          /\ p.mine \intersect p.others = {}
          /\ \A x \in p.mine \union p.others : x[1] \notin p.spare
          /\ \A n \in DOMAIN p.known : p.known[n] \notin New(p)
          /\ p.skew % 2 = 0

VARIABLES
    plan,      \* what may still happen
    \* Server
    now,       \* its clock, even; the device's stamps are odd
    rows,      \* rows[k]: the committed expense created under k
    receipts,  \* keys of committed operations
    feed,      \* committed changes
    drawn,     \* the last sequence number drawn
    tx,        \* tx[s]: the push served for s
    \* Device, stored
    records,   \* expenses
    tasks,     \* offline tasks, in the order of their creation
    \* Device, in memory
    phase,     \* what the coordinator does
    attempt,   \* and how often it has tried the task it pushes
    asked,     \* what the next run has been asked for
    fresh,     \* tasks put back by this run
    cursor, page,
    listed,    \* expenses a refresh has fetched and not stored yet
    dialog,    \* the conflict being resolved and the server's expense
    \* What was observed
    missed,    \* expenses of which the device was given changes in vain
    given      \* operations the user has given up

vars == <<plan, now, rows, receipts, feed, drawn, tx, records, tasks, phase, attempt,
          asked, fresh, cursor, page, listed, dialog, missed, given>>

Slot == {"device", "late", "other"}

\* What is sent: expected is expected_updated_at, body names what the
\* operation writes (titles, amounts and shares) by the operation's key.
Wire == [key: Key, op: Op, target: Id, expected: Int, body: Key]

Row    == [state: {"none", "live", "deleted"}, time: Int, body: Key \union {None}]
Change == [seq: Nat, op: Op, expense: Key, client: Key, time: Int, body: Key]
Record == [id: Id, client: Key \union Id,
           state: {"synced", "pending", "pendingDelete", "failed"},
           time: Int, body: Key, deleted: BOOLEAN]
Task   == [key: Key, op: Op, target: Id, expected: Int, body: Key,
           status: {"pending", "failed", "conflict", "synced"}, retries: Nat,
           code: {"none", "version_mismatch", "record_soft_deleted"}]
Tx     == [stage: {"none", "begun", "looked", "appending", "drawn", "answered"},
           wire: Wire \union {None}, change: Change \union {None},
           answer: {"none", "done", "error", "refused", "version_mismatch",
                    "record_soft_deleted"}]

\* begun, looked (no receipt found), appending (a create whose expense is
\* committed), drawn (its change waits for the commit), answered
NoTx == [stage |-> "none", wire |-> None, change |-> None, answer |-> "none"]
NoRow == [state |-> "none", time |-> 0, body |-> None]
NoPage == [changes |-> <<>>, more |-> FALSE]

TypeOK ==
    /\ plan \in Plan /\ now \in Int /\ drawn \in Nat
    /\ rows \in [Key -> Row] /\ receipts \subseteq Key /\ feed \subseteq Change
    /\ tx \in [Slot -> Tx]
    /\ records \subseteq Record /\ tasks \in Seq(Task)
    /\ phase \in {"idle", "push", "wait", "pull", "apply"}
    /\ attempt \in Nat \union {None} /\ asked \subseteq {"run", "manual", "online"}
    /\ fresh \subseteq Key /\ cursor \in Nat
    /\ page \in [changes: Seq(Change), more: BOOLEAN]
    /\ listed \subseteq Record /\ dialog \in [task: Nat, row: Row] \union {None}
    /\ missed \subseteq Key /\ given \subseteq Key

-----------------------------------------------------------------------------
(* The server *)

Answered(s, answer) ==
    tx' = [tx EXCEPT ![s] = IF s = "device" THEN [NoTx EXCEPT !.stage = "answered", !.answer = answer]
                                            ELSE NoTx]

Begun(wire) == [NoTx EXCEPT !.stage = "begun", !.wire = wire]

Numbered(k, op, client, time, body) ==
    [seq |-> drawn + 1, op |-> op, expense |-> k, client |-> client, time |-> time,
     body |-> body]

device == <<records, tasks, phase, attempt, asked, fresh, cursor, page, listed, dialog, given>>

\* Commits the expense, or finds the one the key has created; the answer to be
\* is the change to append.  A deleted expense has no answer.
CreateExpense(s) ==
    LET w == tx[s].wire
        row == IF w.key \in receipts THEN rows[w.key]
               ELSE [state |-> "live", time |-> now + 2, body |-> w.body] IN
    /\ tx[s].stage = "begun" /\ w.op = "create"
    /\ rows' = [rows EXCEPT ![w.key] = row]
    /\ receipts' = receipts \union {w.key}
    /\ now' = IF w.key \in receipts THEN now ELSE now + 2
    /\ IF row.state = "deleted" THEN Answered(s, "error")
       ELSE tx' = [tx EXCEPT ![s].stage = "appending",
                             ![s].change = Numbered(w.key, "create", w.key, row.time, row.body)]
    /\ UNCHANGED <<plan, feed, drawn, device, missed>>

\* Appends the change of a create unless an earlier request has.
AppendChange(s) ==
    LET w == tx[s].wire IN
    /\ tx[s].stage = "appending"
    /\ \A t \in Slot : tx[t].stage = "drawn" => tx[t].wire.key # w.key
    /\ IF \E c \in feed : c.client = w.key THEN Answered(s, "done") /\ UNCHANGED drawn
       ELSE /\ drawn' = drawn + 1
            /\ tx' = [tx EXCEPT ![s].stage = "drawn", ![s].change.seq = drawn + 1]
    /\ UNCHANGED <<plan, now, rows, receipts, feed, device, missed>>

GetReceipt(s) ==
    /\ tx[s].stage = "begun" /\ tx[s].wire.op # "create"
    /\ IF tx[s].wire.key \in receipts THEN Answered(s, "done")
       ELSE tx' = [tx EXCEPT ![s].stage = "looked"]
    /\ UNCHANGED <<plan, now, rows, receipts, feed, drawn, device, missed>>

Locked(k) == \E t \in Slot : /\ tx[t].stage = "drawn" /\ tx[t].wire.op # "create"
                             /\ tx[t].change.expense = k

\* What the locked expense says to an update or delete.
Verdict(w) ==
    LET row == rows[w.target[2]] IN
    IF w.target[1] = "local" \/ row.state = "none" THEN "version_mismatch"
    ELSE IF row.state = "deleted" THEN "record_soft_deleted"
    ELSE IF row.time # w.expected THEN "version_mismatch"
    ELSE "none"

Mutate(s) ==
    LET w == tx[s].wire IN
    /\ tx[s].stage = "looked"
    /\ ~Locked(w.target[2])
    /\ IF Verdict(w) # "none" THEN Answered(s, Verdict(w)) /\ UNCHANGED <<now, drawn>>
       ELSE /\ now' = now + 2 /\ drawn' = drawn + 1
            /\ tx' = [tx EXCEPT ![s].stage = "drawn",
                        ![s].change = Numbered(w.target[2], w.op, w.key, now + 2, w.body)]
    /\ UNCHANGED <<plan, rows, receipts, feed, device, missed>>

\* Where the device has come to: a page it has read counts.
Horizon == IF page.changes = <<>> THEN cursor ELSE page.changes[Len(page.changes)].seq

Commit(s) ==
    LET c == tx[s].change IN
    /\ tx[s].stage = "drawn"
    /\ feed' = feed \union {c}
    /\ receipts' = receipts \union {c.client}
    /\ rows' = IF c.op = "create" THEN rows
               ELSE [rows EXCEPT ![c.expense] =
                       [state |-> IF c.op = "delete" THEN "deleted" ELSE "live",
                        time |-> c.time, body |-> IF c.op = "delete" THEN @.body ELSE c.body]]
    /\ missed' = IF c.seq < Horizon THEN missed \union {c.expense} ELSE missed
    /\ Answered(s, "done")
    /\ UNCHANGED <<plan, now, drawn, device>>

\* The request ends without an answer of its own, or is refused with a 4xx.
Fail(s, answer) ==
    /\ plan.faults > 0
    /\ tx[s].stage \in {"begun", "looked", "appending", "drawn"}
    /\ answer = "refused" => s = "device" /\ tx[s].stage = "begun"
    /\ plan' = [plan EXCEPT !.faults = @ - 1]
    /\ Answered(s, answer)
    /\ UNCHANGED <<now, rows, receipts, feed, drawn, device, missed>>

\* Another member creates an expense, or changes one as it is now.
OtherPushes(k, op) ==
    /\ <<k, op>> \in plan.others /\ tx["other"] = NoTx
    /\ plan' = [plan EXCEPT !.others = @ \ {<<k, op>>}]
    /\ \E e \in Key :
         /\ IF op = "create" THEN e = k ELSE rows[e].state = "live"
         /\ tx' = [tx EXCEPT !["other"] = Begun([key |-> k, op |-> op, target |-> Remote(e),
                                                 expected |-> rows[e].time, body |-> k])]
    /\ UNCHANGED <<now, rows, receipts, feed, drawn, device, missed>>

-----------------------------------------------------------------------------
(* What is stored on the device *)

server == <<now, rows, receipts, feed, drawn>>
run    == <<phase, attempt, fresh, cursor, page>>

\* The device's clock between two writes of the server.
Clock == now + 1 + plan.skew

NewTask(k, op, target, expected, body) ==
    [key |-> k, op |-> op, target |-> target, expected |-> expected, body |-> body,
     status |-> "pending", retries |-> 0, code |-> "none"]

Saved(k, op) ==
    /\ <<k, op>> \in plan.mine
    /\ plan' = [plan EXCEPT !.mine = @ \ {<<k, op>>}]
    /\ asked' \in {asked, asked \union {"run"}}   \* offline or online
    /\ UNCHANGED <<server, tx, run, listed, dialog, missed, given>>

SaveCreate(k) ==
    /\ Saved(k, "create")
    /\ records' = records \union {[id |-> Local(k), client |-> k, state |-> "pending",
                                   time |-> Clock, body |-> k, deleted |-> FALSE]}
    /\ tasks' = Append(tasks, NewTask(k, "create", Local(k), 0, k))

Shown == {r \in records : ~r.deleted}

\* updateMetadata: the record takes the key of its update.
SaveUpdate(k, r) ==
    /\ Saved(k, "update") /\ r.state = "synced"
    /\ records' = (records \ {r}) \union
                    {[r EXCEPT !.client = k, !.state = "pending", !.time = Clock, !.body = k]}
    /\ tasks' = Append(tasks, NewTask(k, "update", r.id, r.time, k))

SaveDelete(k, r) ==
    /\ Saved(k, "delete") /\ r.state = "synced"
    /\ records' = (records \ {r}) \union
                    {[r EXCEPT !.state = "pendingDelete", !.time = Clock, !.deleted = TRUE]}
    /\ tasks' = Append(tasks, NewTask(k, "delete", r.id, r.time, k))

\* The expense a task is about: the one with its key, else the one it names.
Of(task) ==
    IF \E r \in records : r.client = task.key
    THEN {r \in records : r.client = task.key}
    ELSE {r \in records : task.op = "delete" /\ r.id = task.target}

PendingState(task) == IF task.op = "delete" THEN "pendingDelete" ELSE "pending"

\* The task at i becomes task, and its expense takes state.
Mark(i, task, state) ==
    /\ tasks' = [tasks EXCEPT ![i] = task]
    /\ records' = (records \ Of(task)) \union {[r EXCEPT !.state = state] : r \in Of(task)}

\* A change looked up by the id only, which an own expense does not have yet.
MatchingId(new) == {r \in records : r.id = new.id}

\* saveSyncedFromPull: nothing that waits or is newer is overwritten; a record
\* found by the id and one found by the key become one.
Matching(new) == {r \in records : r.id = new.id \/ r.client = new.client}
KeepsWaiting(new) == \E r \in Matching(new) : r.state # "synced"
KeepsNewer(new) == \E r \in Matching(new) : r.time > new.time
Keeps(new) == KeepsWaiting(new) \/ KeepsNewer(new)
StoreSnapshot(new) ==
    records' = IF Keeps(new) THEN records ELSE (records \ Matching(new)) \union {new}

\* applyPulledTombstone
StoreTombstone(c) ==
    LET found == {r \in records : r.id = Remote(c.expense) /\ r.state = "synced"} IN
    records' = (records \ found) \union
                 {[r EXCEPT !.deleted = TRUE, !.time = c.time] : r \in found}

Snapshot(k, client, time, body) ==
    [id |-> Remote(k), client |-> client, state |-> "synced", time |-> time,
     body |-> body, deleted |-> FALSE]

-----------------------------------------------------------------------------
(* GroupSyncCoordinator: one run at a time, another when it was asked for *)

Unfinished == {i \in DOMAIN tasks : tasks[i].status # "synced"}
InState(status) == {i \in DOMAIN tasks : tasks[i].status = status}

Ask(kind) == asked' = asked \union {"run", kind}

\* The user taps retry, or the device is online again.
RetryFailed ==
    /\ InState("failed") \union InState("conflict") # {} /\ "manual" \notin asked
    /\ Ask("manual")
    /\ UNCHANGED <<plan, server, tx, records, tasks, run, listed, dialog, missed, given>>
ConnectivityRestored ==
    /\ "online" \notin asked
    /\ InState("pending") \union {i \in InState("failed") : tasks[i].retries > 0} # {}
    /\ Ask("online")
    /\ UNCHANGED <<plan, server, tx, records, tasks, run, listed, dialog, missed, given>>

\* syncPendingAndPull does nothing while a run is active.
SyncNow ==
    /\ phase = "idle" /\ asked = {} /\ \E c \in feed : c.seq > cursor
    /\ Ask("run")
    /\ UNCHANGED <<plan, server, tx, records, tasks, run, listed, dialog, missed, given>>

\* What a run puts back into the queue before it pushes.
Requeued ==
    IF "manual" \in asked THEN InState("failed") \union InState("conflict")
    ELSE IF "online" \in asked THEN {i \in InState("failed") : tasks[i].retries > 0}
    ELSE {}

StartRun ==
    LET again == {tasks[i] : i \in Requeued}
        state(r) == PendingState(CHOOSE t \in again : r \in Of(t)) IN
    /\ phase = "idle" /\ asked # {}
    /\ phase' = "push" /\ asked' = {} /\ attempt' = None
    /\ fresh' = {t.key : t \in again}
    /\ tasks' = [i \in DOMAIN tasks |->
                   IF i \in Requeued THEN [tasks[i] EXCEPT !.status = "pending"] ELSE tasks[i]]
    /\ records' = {IF \E t \in again : r \in Of(t) THEN [r EXCEPT !.state = state(r)] ELSE r
                     : r \in records}
    /\ UNCHANGED <<plan, server, tx, cursor, page, listed, dialog, missed, given>>

IsNext(i) == i \in InState("pending") /\ \A j \in InState("pending") : i <= j

Tries(i) == IF attempt # None THEN attempt
            ELSE IF tasks[i].key \in fresh THEN 0 ELSE tasks[i].retries

Sent(task) == [key |-> task.key, op |-> task.op, target |-> task.target,
               expected |-> task.expected, body |-> task.body]

SendTask ==
    \E i \in InState("pending") :
        /\ phase = "push" /\ IsNext(i) /\ Tries(i) < MaxRetries
        /\ phase' = "wait" /\ attempt' = Tries(i)
        /\ tx' = [tx EXCEPT !["device"] = Begun(Sent(tasks[i]))]
        /\ UNCHANGED <<plan, server, records, tasks, asked, fresh, cursor, page, listed,
                       dialog, missed, given>>

\* The task is done with: the next one starts with its own attempts.
Settle(i, status, code, state) ==
    /\ Mark(i, [tasks[i] EXCEPT !.status = status, !.code = code], state)
    /\ phase' = "push" /\ attempt' = None

UsedUp(i) == phase = "push" /\ IsNext(i) /\ Tries(i) >= MaxRetries
LeaveUsedUp == (\E i \in InState("pending") : UsedUp(i)) /\ UNCHANGED vars

\* The attempts were used up by an earlier run, which ended before it said so.
GiveUp ==
    \E i \in InState("pending") :
        /\ UsedUp(i)
        /\ Settle(i, "failed", "none", "failed")
        /\ UNCHANGED <<plan, server, tx, asked, fresh, cursor, page, listed, dialog, missed, given>>

\* A temporary error: another attempt, unless it was the last.  Retries are
\* counted as far as anything asks: whether there were any, or enough.
CountError(i) ==
    LET task == [tasks[i] EXCEPT !.retries = IF @ < MaxRetries THEN @ + 1 ELSE @] IN
    IF attempt + 1 >= MaxRetries
    THEN /\ Mark(i, [task EXCEPT !.status = "failed"], "failed")
         /\ attempt' = None /\ phase' = "push"
    ELSE /\ Mark(i, task, PendingState(task))
         /\ attempt' = attempt + 1 /\ phase' = "push"

Outcome(i, answer) ==
    CASE answer = "done"    -> Settle(i, "synced", "none", "synced")
      [] answer = "refused" -> Settle(i, "failed", "none", "failed")
      [] answer = "error"   -> CountError(i)
      [] OTHER              -> Settle(i, "conflict", answer, "failed")

TakeAnswer ==
    \E i \in InState("pending") :
        /\ phase = "wait" /\ IsNext(i) /\ tx["device"].stage = "answered"
        /\ Outcome(i, tx["device"].answer)
        /\ tx' = [tx EXCEPT !["device"] = NoTx]
        /\ UNCHANGED <<plan, server, asked, fresh, cursor, page, listed, dialog, missed, given>>

\* The request goes on without its sender.
Abandoned == IF tx["device"].stage \in {"none", "answered"}
             THEN [tx EXCEPT !["device"] = NoTx]
             ELSE [tx EXCEPT !["device"] = NoTx, !["late"] = tx["device"]]

TimeOut ==
    \E i \in InState("pending") :
        /\ plan.faults > 0 /\ phase = "wait" /\ IsNext(i) /\ tx["late"] = NoTx
        /\ plan' = [plan EXCEPT !.faults = @ - 1]
        /\ tx' = Abandoned
        /\ CountError(i)
        /\ UNCHANGED <<server, asked, fresh, cursor, page, listed, dialog, missed, given>>

After(c) == Cardinality({d \in feed : d.seq > cursor /\ d.seq <= c.seq})

Pulling == phase = "pull" \/ (phase = "push" /\ InState("pending") = {})

\* The changes after the cursor, in order, as far as they fit on a page.
FetchPage ==
    LET rest == {c \in feed : c.seq > cursor} IN
    \E size \in 0..PageSize : \E changes \in [1..size -> rest] :
        LET read == {changes[n] : n \in 1..size} IN
        /\ Pulling
        /\ \A n \in 1..size : After(changes[n]) = n
        /\ size = PageSize \/ read = rest
        /\ page' = [changes |-> changes, more |-> read # rest]
        /\ phase' = IF size = 0 THEN "idle" ELSE "apply"
        /\ UNCHANGED <<plan, server, tx, records, tasks, attempt, asked, fresh, cursor,
                       listed, dialog, missed, given>>

\* The device has been given change c.
Passed(c) == IF phase = "apply" THEN c.seq < Head(page.changes).seq ELSE c.seq <= cursor

\* It has been given a change of expense k that is newer than time.
Outdated(k, time) == \E c \in feed : c.expense = k /\ c.time > time /\ Passed(c)

\* An expense is stored as it was before a change the device has been given: a
\* list that was fetched earlier, or a creation whose change was appended late,
\* over the tombstone or over an own change stamped by a slow clock.
TurnsBack(new) == Outdated(new.id[2], new.time) /\ ~Keeps(new)

\* A change that is not stored and, being the newest of its expense or its
\* creation, not made up for by another: the record waits for an operation the
\* server has committed already, has a newer stamp of the device's clock, or
\* is the own creation of an expense that is there a second time.
InVain(c, new) ==
    /\ c.op = "create" \/ c.time = rows[c.expense].time
    /\ \/ \E i \in Unfinished : /\ tasks[i].key \in receipts
                                /\ (tasks[i].key = c.client => c.op = "create")
                                /\ Of(tasks[i]) \intersect Matching(new) # {}
       \/ /\ c.op # "delete" /\ Keeps(new)
          /\ \/ \E r \in Matching(new) : r.time > c.time /\ r.time % 2 = 1
             \/ Cardinality(Matching(new)) = 2

\* The changes of a page are stored one by one, the cursor after the last.
ApplyChange ==
    LET c == Head(page.changes)
        new == Snapshot(c.expense, c.client, c.time, c.body) IN
    /\ phase = "apply"
    /\ IF c.op = "delete" THEN StoreTombstone(c) ELSE StoreSnapshot(new)
    /\ missed' = IF InVain(c, new) \/ (c.op # "delete" /\ TurnsBack(new))
                 THEN missed \union {c.expense} ELSE missed
    /\ page' = [page EXCEPT !.changes = Tail(@)]
    /\ IF Len(page.changes) > 1 THEN UNCHANGED <<phase, cursor>>
       ELSE /\ cursor' = c.seq
            /\ phase' = IF page.more THEN "pull" ELSE "idle"
    /\ UNCHANGED <<plan, server, tx, tasks, attempt, asked, fresh, listed, dialog, given>>

PullFails ==
    /\ plan.faults > 0 /\ Pulling
    /\ plan' = [plan EXCEPT !.faults = @ - 1]
    /\ phase' = "idle"
    /\ UNCHANGED <<server, tx, records, tasks, attempt, asked, fresh, cursor, page, listed,
                   dialog, missed, given>>

-----------------------------------------------------------------------------
(* The list of expenses, conflicts and restarts *)

\* refresh: the server's list is fetched, then stored expense by expense.
Refresh ==
    /\ listed = {} /\ \E k \in Key : rows[k].state = "live"
    /\ listed' = {Snapshot(k, Remote(k), rows[k].time, rows[k].body)
                    : k \in {e \in Key : rows[e].state = "live"}}
    /\ UNCHANGED <<plan, server, tx, records, tasks, run, asked, dialog, missed, given>>

StoreListed ==
    \E new \in listed :
        /\ StoreSnapshot(new)
        /\ listed' = listed \ {new}
        /\ missed' = IF TurnsBack(new) THEN missed \union {new.id[2]} ELSE missed
        /\ UNCHANGED <<plan, server, tx, tasks, run, asked, dialog, given>>

\* The user decides on a conflict; the server's expense is fetched first.
Decide(i) ==
    LET k == tasks[i].target[2] IN
    /\ dialog = None /\ tasks[i].status = "conflict"
    /\ dialog' = [task |-> i,
                  row |-> IF tasks[i].target[1] = "server" THEN rows[k] ELSE NoRow]
    /\ UNCHANGED <<plan, server, tx, records, tasks, run, asked, listed, missed, given>>

\* Either choice fails if the task is no conflict any more.
Closed ==
    /\ dialog # None /\ tasks[dialog.task].status # "conflict"
    /\ dialog' = None
    /\ UNCHANGED <<plan, server, tx, records, tasks, run, asked, listed, missed, given>>

UseServer ==
    /\ dialog # None
    /\ LET i == dialog.task
           k == tasks[i].target[2]
           found == Of(tasks[i])
           new == IF dialog.row.state = "live"
                  THEN {Snapshot(k, Remote(k), dialog.row.time, dialog.row.body)}
                  ELSE {[r EXCEPT !.state = "synced", !.deleted = TRUE, !.time = Clock] : r \in found} IN
       /\ tasks[i].status = "conflict" /\ found # {}
       /\ records' = (records \ found) \union new
       /\ tasks' = [tasks EXCEPT ![i].status = "synced"]
       /\ given' = given \union {tasks[i].key}
       /\ asked' = asked \union {"run"} /\ dialog' = None
       /\ missed' = IF Outdated(k, dialog.row.time) THEN missed \union {k} ELSE missed
       /\ UNCHANGED <<plan, server, tx, run, listed>>

\* The operation is queued again under a new key, on the version just read.
KeepLocal(n) ==
    /\ dialog # None /\ n \in plan.spare
    /\ LET i == dialog.task
           old == tasks[i]
           found == {r \in records : r.id = old.target}
           time(r) == IF old.op = "delete" THEN Clock ELSE r.time IN
       /\ old.status = "conflict" /\ found # {}
       /\ old.code # "record_soft_deleted" /\ dialog.row.state = "live"
       /\ records' = (records \ found) \union
                       {[r EXCEPT !.client = n, !.state = PendingState(old), !.time = time(r)] : r \in found}
       /\ tasks' = Append([tasks EXCEPT ![i].status = "synced"],
                          NewTask(n, old.op, old.target, dialog.row.time, old.body))
       /\ given' = given \union {old.key}
       /\ plan' = [plan EXCEPT !.spare = @ \ {n}]
       /\ asked' = asked \union {"run"} /\ dialog' = None
       /\ UNCHANGED <<server, tx, run, listed, missed>>

\* The app ends and is started again: what was in memory is gone.
Restart ==
    /\ plan.faults > 0 /\ tx["late"] = NoTx
    /\ plan' = [plan EXCEPT !.faults = @ - 1]
    /\ tx' = Abandoned
    /\ phase' = "idle" /\ attempt' = None /\ asked' = {"run", "online"} /\ fresh' = {}
    /\ cursor' = 0 /\ page' = NoPage /\ listed' = {} /\ dialog' = None /\ missed' = {}
    /\ UNCHANGED <<server, records, tasks, given>>

-----------------------------------------------------------------------------
Init ==
    /\ plan \in Scenario
    /\ now = 2 /\ drawn = Len(plan.known)
    /\ LET made(k) == \E n \in DOMAIN plan.known : plan.known[n] = k IN
       /\ rows = [k \in Key |-> IF made(k) THEN [state |-> "live", time |-> 2, body |-> k] ELSE NoRow]
       /\ receipts = {k \in Key : made(k)}
    /\ feed = {[seq |-> n, op |-> "create", expense |-> plan.known[n], client |-> plan.known[n],
                time |-> 2, body |-> plan.known[n]] : n \in DOMAIN plan.known}
    /\ tx = [s \in Slot |-> NoTx]
    /\ records = {} /\ tasks = <<>>
    /\ phase = "idle" /\ attempt = None /\ asked = {"run", "online"} /\ fresh = {}
    /\ cursor = 0 /\ page = NoPage /\ listed = {} /\ dialog = None /\ missed = {} /\ given = {}

Serve(s) == CreateExpense(s) \/ AppendChange(s) \/ GetReceipt(s) \/ Mutate(s) \/ Commit(s)

Coordinate == \/ StartRun \/ SendTask \/ TakeAnswer \/ GiveUp \/ FetchPage \/ ApplyChange

User == \/ \E k \in Key : SaveCreate(k)
        \/ \E k \in Key, r \in Shown : SaveUpdate(k, r) \/ SaveDelete(k, r)
        \/ SyncNow \/ RetryFailed \/ Refresh \/ StoreListed
        \/ \E i \in DOMAIN tasks : Decide(i)
        \/ Closed \/ UseServer \/ \E n \in Key : KeepLocal(n)

Next == \/ \E s \in Slot : Serve(s) \/ Fail(s, "error") \/ Fail(s, "refused")
        \/ \E k \in Key, op \in Op : OtherPushes(k, op)
        \/ Coordinate \/ ConnectivityRestored \/ TimeOut \/ PullFails \/ Restart
        \/ User

Spec == Init /\ [][Next]_vars

\* The server works, the app runs and the device is online now and then.
FairSpec == /\ Spec
            /\ WF_vars(\E s \in Slot : Serve(s))
            /\ WF_vars(Coordinate) /\ WF_vars(ConnectivityRestored)

-----------------------------------------------------------------------------
(* Properties *)

\* What the user has changed is safe until the server has it: an operation
\* leaves the queue only when the server has committed it or the user has
\* decided against it, and an expense waits exactly as long as one operation
\* of it is in the queue, whatever pulls, lists and retries write meanwhile.
NoEditIsLost ==
    /\ \A i \in DOMAIN tasks : tasks[i].status = "synced" => tasks[i].key \in receipts \union given
    /\ \A r \in records : r.state # "synced" =>
         Cardinality({i \in Unfinished : r \in Of(tasks[i])}) = 1
    /\ \A i \in Unfinished : \E r \in Of(tasks[i]) :
         /\ r.state # "synced" /\ r.deleted = (tasks[i].op = "delete")
         /\ tasks[i].op # "delete" => r.body = tasks[i].body

Quiet == /\ phase = "idle" /\ asked = {} /\ listed = {} /\ dialog = None
         /\ \A s \in Slot : tx[s] = NoTx
         /\ \A c \in feed : c.seq <= cursor
         /\ Unfinished = {}

\* When all is pushed and pulled the device shows the server's expenses, each
\* as the server has it; one whose creation was never appended may be absent.
\* Left out are the expenses the code fails (missed): a change committed behind
\* the cursor, a list or a late creation stored after a change it has not seen,
\* an own creation that comes after its expense, a change that comes while an
\* operation waits that was committed already, and a clock that is ahead.
PulledIsCurrent ==
    Quiet =>
        \A k \in Key : k \in missed \/
            LET shown == {r \in Shown : r.id \in {Remote(k), Local(k)}} IN
            IF rows[k].state # "live" THEN shown = {}
            ELSE \/ shown = {} /\ ~\E c \in feed : c.client = k
                 \/ \E r \in shown : shown = {r} /\ r.id = Remote(k) /\ r.body = rows[k].body

\* What is queued is decided: applied, refused or given back to the user.
EveryEditIsDecided == InState("pending") # {} ~> InState("pending") = {}
=============================================================================
