--------------------------- MODULE GroupSyncProofs ---------------------------
(***************************************************************************)
(* NoEditIsLost and PulledIsCurrent of GroupSync, for any expenses,        *)
(* members, edits, faults and clocks.                                      *)
(*                                                                         *)
(* IInv ties each operation in the queue to the one record of its expense, *)
(* and the answer the device waits for to the operation it has sent.       *)
(* PullInv, on top of it, ties the feed to the expenses (ServerInv), an    *)
(* operation to what it is about wherever it occurs (ClaimInv), and the    *)
(* records of the device to the changes it has been given (DeviceInv).     *)
(***************************************************************************)
EXTENDS GroupSync, FiniteSetTheorems, TLAPS

-----------------------------------------------------------------------------
(* Keys: an operation has one kind wherever it occurs, and a key still to  *)
(* be used occurs nowhere.                                                 *)

Busy == {"begun", "looked", "appending", "drawn"}
Underway == {s \in Slot : tx[s].stage \in Busy}

Uses == {<<tasks[i].key, tasks[i].op>> : i \in DOMAIN tasks}
        \union {<<tx[s].wire.key, tx[s].wire.op>> : s \in Underway}
        \union {<<c.client, c.op>> : c \in feed}

PlanInv ==
    /\ \A x, y \in plan.mine \union plan.others : x[1] = y[1] => x = y
    /\ plan.mine \intersect plan.others = {}
    /\ \A x \in plan.mine \union plan.others : x[1] \notin plan.spare

UsesInv ==
    /\ \A p, q \in Uses : p[1] = q[1] => p[2] = q[2]
    /\ \A i, j \in DOMAIN tasks : tasks[i].key = tasks[j].key => i = j
    /\ \A p \in Uses : p[2] = "create" /\ p[1] \in receipts => rows[p[1]].state # "none"

Unused(k) ==
    /\ k \notin receipts
    /\ \A p \in Uses : p[1] # k
    /\ \A r \in records : r.client # k /\ r.id # Local(k)

NewInv == \A k \in New(plan) : Unused(k)

-----------------------------------------------------------------------------
(* The server and what the device has read of it.                          *)

TxOk(t) ==
    /\ t.stage \in Busy => t.wire \in Wire
    /\ t.stage \in {"appending", "drawn"} =>
          /\ t.change \in Change /\ t.change.client = t.wire.key /\ t.change.op = t.wire.op
    /\ t.stage = "looked" => t.wire.op # "create"
    /\ t.stage = "appending" => t.wire.op = "create"
    /\ t.stage \in {"appending", "drawn"} /\ t.wire.op = "create" => t.wire.key \in receipts

TxInv == \A s \in Slot : TxOk(tx[s])

RowInv == \A k \in Key : rows[k].state = "live" => rows[k].body \in Key

ReadInv ==
    /\ \A c \in feed : c.client \in receipts
    /\ \A n \in DOMAIN page.changes : page.changes[n] \in feed
    /\ phase = "apply" => page.changes # <<>>
    /\ \A new \in listed : /\ new.state = "synced" /\ new.client = new.id
                           /\ new.id[1] = "server"
    /\ dialog # None =>
          /\ dialog.task \in DOMAIN tasks
          /\ dialog.row.state = "live" => /\ tasks[dialog.task].target[1] = "server"
                                          /\ dialog.row.body \in Key

-----------------------------------------------------------------------------
(* The queue and the records of the device.                                *)

\* A record is known by its id and by its client key.
RecordInv ==
    /\ \A r, s \in records : r.id = s.id \/ r.client = s.client => r = s
    /\ \A r \in records : r.client \in Id => r.client = r.id

\* The expense of task is r, which waits as the task has left it.
Waits(r, task) ==
    /\ Of(task) = {r}
    /\ r.id = task.target /\ r.state # "synced" /\ r.deleted = (task.op = "delete")
    /\ task.op # "delete" => r.body = task.body

QueueInv ==
    /\ \A i \in Unfinished : \E r \in records : Waits(r, tasks[i])
    /\ \A i, j \in Unfinished : tasks[i].target = tasks[j].target => i = j
    /\ \A r \in records : r.state # "synced" => \E i \in Unfinished : tasks[i].target = r.id

SyncedInv ==
    \A i \in DOMAIN tasks : tasks[i].status = "synced" => tasks[i].key \in receipts \union given

\* The answer that is waited for is the answer to the task that is next.
Expects(i) ==
    LET t == tx["device"] IN
    /\ t.stage \in Busy => t.wire.key = tasks[i].key
    /\ t.stage = "answered" /\ t.answer = "done" => tasks[i].key \in receipts

PushInv ==
    phase = "wait" => /\ attempt \in Nat
                      /\ \E i \in InState("pending") : IsNext(i) /\ Expects(i)

IInv == /\ TypeOK /\ PlanInv /\ UsesInv /\ NewInv /\ TxInv /\ RowInv /\ ReadInv
        /\ RecordInv /\ QueueInv /\ SyncedInv /\ PushInv

-----------------------------------------------------------------------------
(* What a change of the records does to the record of a task.              *)

\* The record of task stays, and no other takes its id or the task's key.
LEMMA OfKept ==
    ASSUME NEW task, NEW r, Of(task) = {r}, r.id = task.target, r \in records',
           \A x \in records' \ records : x.client # task.key /\ x.id # task.target
    PROVE  Of(task)' = {r}
<1>1. CASE \E x \in records : x.client = task.key
  <2>1. Of(task) = {x \in records : x.client = task.key}
    BY <1>1 DEF Of
  <2>2. r.client = task.key /\ \A x \in records : x.client = task.key => x = r
    BY <2>1
  <2>3. {x \in records' : x.client = task.key} = {r}
    BY <2>2
  <2>4. QED
    BY <2>2, <2>3 DEF Of
<1>2. CASE ~\E x \in records : x.client = task.key
  <2>1. Of(task) = {x \in records : task.op = "delete" /\ x.id = task.target}
    BY <1>2 DEF Of
  <2>2. task.op = "delete" /\ \A x \in records : x.id = task.target => x = r
    BY <2>1
  <2>3. ~\E x \in records' : x.client = task.key
    BY <1>2
  <2>4. {x \in records' : task.op = "delete" /\ x.id = task.target} = {r}
    BY <2>2
  <2>5. QED
    BY <2>3, <2>4 DEF Of
<1>3. QED
  BY <1>1, <1>2

\* Records that keep their id and client remain the records of their tasks.
Renewed(f) ==
    /\ records' = {f[x] : x \in records}
    /\ \A x \in records : f[x].id = x.id /\ f[x].client = x.client

LEMMA OfRenewed ==
    ASSUME NEW task, NEW f, Renewed(f)
    PROVE  Of(task)' = {f[x] : x \in Of(task)}
<1>1. CASE \E x \in records : x.client = task.key
  <2>1. Of(task) = {x \in records : x.client = task.key}
    BY <1>1 DEF Of
  <2>2. \E x \in records' : x.client = task.key
    BY <1>1 DEF Renewed
  <2>3. Of(task)' = {x \in records' : x.client = task.key}
    BY <2>2 DEF Of
  <2>4. QED
    BY <2>1, <2>3 DEF Renewed
<1>2. CASE ~\E x \in records : x.client = task.key
  <2>1. Of(task) = {x \in records : task.op = "delete" /\ x.id = task.target}
    BY <1>2 DEF Of
  <2>2. ~\E x \in records' : x.client = task.key
    BY <1>2 DEF Renewed
  <2>3. Of(task)' = {x \in records' : task.op = "delete" /\ x.id = task.target}
    BY <2>2 DEF Of
  <2>4. QED
    BY <2>1, <2>3 DEF Renewed
<1>3. QED
  BY <1>1, <1>2

\* What a task refers to: its key, kind and record.
LEMMA SameOf ==
    ASSUME NEW t, NEW u, t.key = u.key, t.op = u.op, t.target = u.target
    PROVE  Of(t) = Of(u)
  BY DEF Of

\* Two tasks in the queue have different records.
LEMMA OwnRecord ==
    ASSUME RecordInv, QueueInv, NEW i \in Unfinished, NEW r \in records, Waits(r, tasks[i]),
           NEW j \in Unfinished, j # i, NEW s \in records, Waits(s, tasks[j])
    PROVE  s.id # r.id /\ s # r /\ s.client # r.client
  BY DEF RecordInv, QueueInv, Waits

\* A record that does not wait is no task's.
LEMMA FreeRecord ==
    ASSUME RecordInv, QueueInv, NEW i \in Unfinished, NEW r \in records,
           r.state = "synced"
    PROVE  r.id # tasks[i].target
  BY DEF RecordInv, QueueInv, Waits

LEMMA ByKeyOrId ==
    ASSUME NEW t, NEW r, Waits(r, t)
    PROVE  r.client = t.key \/ t.op = "delete"
  BY DEF Waits, Of

\* The tasks are what they were, but for their status, code and retries.
SameTasks ==
    /\ DOMAIN tasks' = DOMAIN tasks
    /\ \A i \in DOMAIN tasks :
          /\ tasks'[i].key = tasks[i].key /\ tasks'[i].op = tasks[i].op
          /\ tasks'[i].target = tasks[i].target /\ tasks'[i].body = tasks[i].body

\* Records change their state, and still wait exactly if a task of theirs does.
LEMMA Renewing ==
    ASSUME RecordInv, QueueInv, NEW f, Renewed(f), SameTasks, Unfinished' \subseteq Unfinished,
           \A r \in records, i \in Unfinished' : tasks[i].target = r.id =>
               f[r].state # "synced" /\ f[r].deleted = r.deleted /\ f[r].body = r.body,
           \A r \in records : f[r].state # "synced" =>
               \E i \in Unfinished' : tasks[i].target = r.id
    PROVE  RecordInv' /\ QueueInv'
<1>1. RecordInv'
  BY DEF Renewed, RecordInv
<1>2. ASSUME NEW i \in Unfinished'
      PROVE  \E r \in records' : Waits(r, tasks[i])'
  <2>1. i \in Unfinished /\ i \in DOMAIN tasks
    BY <1>2 DEF Unfinished
  <2>2. PICK r \in records : Waits(r, tasks[i])
    BY <2>1 DEF QueueInv
  <2>3. Of(tasks[i])' = {f[r]}
    <3>1. PICK t : t = tasks'[i]
      OBVIOUS
    <3>2. Of(t) = {r}
      BY <2>1, <2>2, <3>1, SameOf DEF SameTasks, Waits
    <3>3. Of(t)' = {f[r]}
      BY <3>2, OfRenewed
    <3>4. QED
      BY <3>1, <3>3 DEF Of
  <2>4. f[r] \in records' /\ f[r].id = r.id
    BY DEF Renewed
  <2>5. f[r].state # "synced" /\ f[r].deleted = r.deleted /\ f[r].body = r.body
    BY <1>2, <2>2 DEF Waits
  <2>6. PICK s \in records' : s = f[r]
    BY <2>4
  <2>7. Waits(s, tasks[i])'
    BY <2>1, <2>2, <2>3, <2>4, <2>5, <2>6 DEF Waits, SameTasks
  <2>8. QED
    BY <2>7
<1>3. \A i, j \in Unfinished' : tasks'[i].target = tasks'[j].target => i = j
  BY DEF Unfinished, SameTasks, QueueInv
<1>4. ASSUME NEW s \in records', s.state # "synced"
      PROVE  \E i \in Unfinished' : tasks'[i].target = s.id
  <2>1. PICK r \in records : s = f[r] /\ s.id = r.id
    BY DEF Renewed
  <2>2. QED
    BY <1>4, <2>1 DEF Unfinished, SameTasks
<1>5. QED
  BY <1>1, <1>2, <1>3, <1>4 DEF QueueInv

\* What is stored from a pull or a list overwrites nothing that waits.
LEMMA Storing ==
    ASSUME RecordInv, QueueInv, tasks' = tasks, NEW new, StoreSnapshot(new),
           new.state = "synced", new.client \in Id => new.client = new.id,
           \A i \in Unfinished : tasks[i].op = "delete" => new.client # tasks[i].key
    PROVE  RecordInv' /\ QueueInv'
<1>1. CASE records' = records
  BY <1>1 DEF RecordInv, QueueInv, Waits, Of, Unfinished
<1>2. CASE records' # records
  <2>1. /\ records' = (records \ Matching(new)) \union {new}
        /\ \A r \in Matching(new) : r.state = "synced"
    BY <1>2 DEF StoreSnapshot, Keeps, KeepsWaiting
  <2>2. \A r \in records' : r # new => r \in records /\ r.id # new.id /\ r.client # new.client
    BY <2>1 DEF Matching
  <2>3. RecordInv'
    BY <2>2 DEF RecordInv
  <2>4. ASSUME NEW i \in Unfinished, NEW r \in records, Waits(r, tasks[i])
        PROVE  r \in records' /\ Waits(r, tasks[i])'
    <3>1. r.state # "synced" /\ Of(tasks[i]) = {r} /\ r.id = tasks[i].target
      BY <2>4 DEF Waits
    <3>2. r \notin Matching(new)
      BY <2>1, <3>1
    <3>3. r \in records' /\ new.id # tasks[i].target /\ r.client # new.client
      BY <2>1, <3>1, <3>2 DEF Matching
    <3>4. new.client # tasks[i].key
      BY <2>4, <3>3, ByKeyOrId
    <3>5. \A x \in records' \ records : x.client # tasks[i].key /\ x.id # tasks[i].target
      BY <2>1, <3>3, <3>4
    <3>6. PICK t : t = tasks[i]
      OBVIOUS
    <3>7. Of(t)' = {r}
      BY <3>1, <3>3, <3>5, <3>6, OfKept
    <3>8. QED
      BY <2>4, <3>3, <3>6, <3>7 DEF Waits, Of
  <2>5. \A i \in Unfinished : \E r \in records' : Waits(r, tasks[i])'
    BY <2>4 DEF QueueInv
  <2>6. \A r \in records' : r.state # "synced" => \E i \in Unfinished : tasks[i].target = r.id
    BY <2>2 DEF QueueInv
  <2>7. QED
    BY <2>3, <2>5, <2>6 DEF QueueInv, Unfinished
<1>3. QED
  BY <1>1, <1>2

-----------------------------------------------------------------------------
(* What may still happen, and the keys it takes.                           *)

\* The plan shrinks: its invariant stays and no key is new that was not.
Shrinks ==
    /\ plan' \in Plan /\ PlanInv' /\ New(plan') \subseteq New(plan)

LEMMA PlanSame ==
    ASSUME TypeOK, PlanInv, plan' = plan
    PROVE  Shrinks
  BY DEF Shrinks, TypeOK, PlanInv

LEMMA PlanFault ==
    ASSUME TypeOK, PlanInv, plan.faults > 0, plan' = [plan EXCEPT !.faults = @ - 1]
    PROVE  Shrinks
<1>1. plan \in Plan /\ plan.faults \in Nat
  BY DEF TypeOK, Plan
<1>2. /\ plan'.mine = plan.mine /\ plan'.others = plan.others /\ plan'.spare = plan.spare
      /\ plan' \in Plan
  BY <1>1 DEF Plan
<1>3. PlanInv'
  BY <1>2 DEF PlanInv
<1>4. New(plan') = New(plan)
  BY <1>2 DEF New
<1>5. QED
  BY <1>2, <1>3, <1>4 DEF Shrinks

LEMMA PlanTakes ==
    ASSUME TypeOK, PlanInv, NEW k, NEW op,
           \/ <<k, op>> \in plan.mine /\ plan' = [plan EXCEPT !.mine = @ \ {<<k, op>>}]
           \/ <<k, op>> \in plan.others /\ plan' = [plan EXCEPT !.others = @ \ {<<k, op>>}]
    PROVE  /\ Shrinks /\ k \in New(plan) \ New(plan') /\ k \in Key /\ op \in Op
<1>1. plan \in Plan /\ plan.mine \subseteq Key \X Op /\ plan.others \subseteq Key \X Op
  BY DEF TypeOK, Plan
<1>2. /\ plan'.spare = plan.spare /\ plan' \in Plan
      /\ \/ /\ <<k, op>> \in plan.mine
            /\ plan'.mine = plan.mine \ {<<k, op>>} /\ plan'.others = plan.others
         \/ /\ <<k, op>> \in plan.others
            /\ plan'.mine = plan.mine /\ plan'.others = plan.others \ {<<k, op>>}
  BY <1>1 DEF Plan
<1>3. <<k, op>> \in plan.mine \union plan.others /\ k \in Key /\ op \in Op
  BY <1>1
<1>4. plan'.mine \union plan'.others = (plan.mine \union plan.others) \ {<<k, op>>}
  <2>1. PICK p : p = <<k, op>>
    OBVIOUS
  <2>2. plan.mine \intersect plan.others = {}
    BY DEF PlanInv
  <2>3. plan'.mine \union plan'.others = (plan.mine \union plan.others) \ {p}
    BY <1>2, <2>1, <2>2
  <2>4. QED
    BY <2>1, <2>3
<1>5. PlanInv'
  BY <1>2, <1>4 DEF PlanInv
<1>6. New(plan') \subseteq New(plan) /\ k \in New(plan)
  BY <1>2, <1>3, <1>4 DEF New
<1>7. k \notin New(plan')
  <2>1. k \notin plan.spare
    BY <1>3 DEF PlanInv
  <2>2. \A x \in plan.mine \union plan.others : x # <<k, op>> => x[1] # k
    BY <1>3 DEF PlanInv
  <2>3. QED
    BY <1>2, <1>4, <2>1, <2>2 DEF New
<1>8. QED
  BY <1>2, <1>3, <1>5, <1>6, <1>7 DEF Shrinks

LEMMA PlanSpares ==
    ASSUME TypeOK, PlanInv, NEW n \in plan.spare, plan' = [plan EXCEPT !.spare = @ \ {n}]
    PROVE  /\ Shrinks /\ n \in New(plan) \ New(plan') /\ n \in Key
<1>1. plan \in Plan /\ n \in Key
  BY DEF TypeOK, Plan
<1>2. /\ plan'.mine = plan.mine /\ plan'.others = plan.others
      /\ plan'.spare = plan.spare \ {n} /\ plan' \in Plan
  BY <1>1 DEF Plan
<1>3. PlanInv'
  BY <1>2 DEF PlanInv
<1>4. New(plan') \subseteq New(plan) /\ n \in New(plan)
  BY <1>2 DEF New
<1>5. n \notin New(plan')
  BY <1>2 DEF New, PlanInv
<1>6. QED
  BY <1>1, <1>2, <1>3, <1>4, <1>5 DEF Shrinks

\* Operation op comes into use under key k, which was new, or none does.
LEMMA KeysKept ==
    ASSUME UsesInv, NewInv, New(plan') \subseteq New(plan), NEW k, NEW op,
           \/ Uses' \subseteq Uses
           \/ k \in New(plan) \ New(plan') /\ Uses' \subseteq Uses \union {<<k, op>>},
           \A i, j \in DOMAIN tasks' : tasks'[i].key = tasks'[j].key => i = j,
           \A x \in New(plan') : x \notin receipts',
           \A p \in Uses' : p[2] = "create" /\ p[1] \in receipts' =>
               rows'[p[1]].state # "none",
           \A r \in records' \ records, x \in New(plan') : r.client # x /\ r.id # Local(x)
    PROVE  UsesInv' /\ NewInv'
<1>1. ASSUME k \in New(plan) \ New(plan'), Uses' \subseteq Uses \union {<<k, op>>}
      PROVE  /\ \A p, q \in Uses' : p[1] = q[1] => p[2] = q[2]
             /\ \A x \in New(plan') : \A p \in Uses' : p[1] # x
  <2>1. \A p \in Uses : p[1] # k
    BY <1>1 DEF NewInv, Unused
  <2>2. \A p \in Uses' : p \in Uses \/ (p[1] = k /\ p[2] = op)
    BY <1>1
  <2>3. \A p, q \in Uses' : p[1] = q[1] => p[2] = q[2]
    BY <2>1, <2>2 DEF UsesInv
  <2>4. \A x \in New(plan') : \A p \in Uses' : p[1] # x
    BY <1>1, <2>2 DEF NewInv, Unused
  <2>5. QED
    BY <2>3, <2>4
<1>2. ASSUME Uses' \subseteq Uses
      PROVE  /\ \A p, q \in Uses' : p[1] = q[1] => p[2] = q[2]
             /\ \A x \in New(plan') : \A p \in Uses' : p[1] # x
  BY <1>2 DEF UsesInv, NewInv, Unused
<1>3. UsesInv'
  BY <1>1, <1>2 DEF UsesInv
<1>4. ASSUME NEW x \in New(plan')
      PROVE  \A r \in records' : r.client # x /\ r.id # Local(x)
  BY DEF NewInv, Unused
<1>5. ASSUME NEW x \in New(plan') PROVE Unused(x)'
  BY <1>1, <1>2, <1>4 DEF Unused, Local
<1>6. QED
  BY <1>3, <1>5 DEF NewInv

-----------------------------------------------------------------------------
(* Steps of the server.                                                    *)

ServerTypes ==
    /\ now' \in Int /\ drawn' \in Nat /\ rows' \in [Key -> Row] /\ receipts' \subseteq Key
    /\ feed' \subseteq Change /\ missed' \subseteq Key

LEMMA TypesOfServer ==
    ASSUME TypeOK, UNCHANGED device, plan' \in Plan, ServerTypes, tx' \in [Slot -> Tx]
    PROVE  TypeOK'
  BY DEF TypeOK, device, ServerTypes

\* What the queue and the records are about does not concern the server.
LEMMA DeviceKept ==
    ASSUME IInv, UNCHANGED device, receipts \subseteq receipts', feed \subseteq feed'
    PROVE  /\ RecordInv' /\ QueueInv' /\ SyncedInv'
           /\ Unfinished' = Unfinished /\ InState("pending")' = InState("pending")
           /\ \A i : IsNext(i)' = IsNext(i)
<1>1. RecordInv'
  BY DEF IInv, RecordInv, device
<1>2. QueueInv'
  BY DEF IInv, QueueInv, device, Waits, Of, Unfinished
<1>3. SyncedInv'
  BY DEF IInv, SyncedInv, device
<1>4. /\ Unfinished' = Unfinished /\ InState("pending")' = InState("pending")
      /\ \A i : IsNext(i)' = IsNext(i)
  BY DEF Unfinished, InState, IsNext, device
<1>5. QED
  BY <1>1, <1>2, <1>3, <1>4

\* The push served for s goes on as u.
Serves(s, u) ==
    LET w == tx[s].wire IN
    /\ UNCHANGED device /\ Shrinks /\ ServerTypes
    /\ tx' = [tx EXCEPT ![s] = u]
    /\ tx[s].stage \in Busy
    /\ u.stage \in Busy => u.wire = w
    /\ u.stage = "answered" /\ u.answer = "done" => w.key \in receipts'
    /\ receipts \subseteq receipts' /\ receipts' \subseteq receipts \union {w.key}
    /\ \A k \in Key : rows[k].state # "none" => rows'[k].state # "none"
    /\ w.op = "create" /\ w.key \in receipts' => rows'[w.key].state # "none"
    /\ feed \subseteq feed'
    /\ \A c \in feed' \ feed : c.client = w.key /\ c.op = w.op /\ c.client \in receipts'

LEMMA Serving ==
    ASSUME IInv, NEW s \in Slot, NEW u \in Tx, Serves(s, u), TxOk(u)', RowInv'
    PROVE  IInv'
<1> DEFINE w == tx[s].wire
<1>1. /\ TypeOK /\ UsesInv /\ NewInv /\ TxInv /\ ReadInv /\ PushInv
      /\ tx \in [Slot -> Tx]
  BY DEF IInv, TypeOK
<1>2. /\ tx'[s] = u /\ \A t \in Slot : t # s => tx'[t] = tx[t]
      /\ tx' \in [Slot -> Tx] /\ tx[s].stage \in Busy
  BY <1>1 DEF Serves
<1>3. TypeOK'
  BY <1>1, <1>2, TypesOfServer DEF Serves, Shrinks
<1>4. /\ RecordInv' /\ QueueInv' /\ SyncedInv' /\ UNCHANGED device
      /\ InState("pending")' = InState("pending") /\ \A i : IsNext(i)' = IsNext(i)
  BY DeviceKept DEF Serves
<1>5. /\ receipts \subseteq receipts' /\ receipts' \subseteq receipts \union {w.key}
      /\ w \in Wire /\ <<w.key, w.op>> \in Uses
  BY <1>1, <1>2 DEF Serves, TxInv, TxOk, Uses, Underway
<1>6. TxInv'
  <2>1. ASSUME NEW t \in Slot, t # s PROVE TxOk(tx[t])'
    <3>1. PICK v : v = tx[t]
      OBVIOUS
    <3>2. TxOk(v)'
      BY <1>1, <1>5, <3>1 DEF TxInv, TxOk
    <3>3. QED
      BY <1>2, <2>1, <3>1, <3>2 DEF TxOk
  <2>2. TxOk(tx[s])'
    BY <1>2 DEF TxOk
  <2>3. QED
    BY <2>1, <2>2 DEF TxInv, TxOk
<1>7. UsesInv' /\ NewInv'
  <2>1. Uses' \subseteq Uses
    <3>1. \A i \in DOMAIN tasks' : <<tasks'[i].key, tasks'[i].op>> \in Uses
      BY <1>4 DEF device, Uses
    <3>2. \A c \in feed' : <<c.client, c.op>> \in Uses
      <4>1. \A c \in feed : <<c.client, c.op>> \in Uses
        BY DEF Uses
      <4>2. \A c \in feed' \ feed : <<c.client, c.op>> = <<w.key, w.op>>
        BY DEF Serves
      <4>3. QED
        BY <1>5, <4>1, <4>2
    <3>3. ASSUME NEW t \in Slot, tx'[t].stage \in Busy
          PROVE  <<tx'[t].wire.key, tx'[t].wire.op>> \in Uses
      <4>1. tx[t].stage \in Busy /\ tx'[t].wire = tx[t].wire
        BY <1>2, <3>3 DEF Serves
      <4>2. QED
        BY <4>1 DEF Uses, Underway
    <3>4. QED
      BY <3>1, <3>2, <3>3 DEF Uses, Underway
  <2>2. New(plan') \subseteq New(plan)
    BY DEF Serves, Shrinks
  <2>3. \A i, j \in DOMAIN tasks' : tasks'[i].key = tasks'[j].key => i = j
    BY <1>1, <1>4 DEF UsesInv, device
  <2>4. \A x \in New(plan') : x \notin receipts'
    BY <1>1, <1>5, <2>2 DEF NewInv, Unused
  <2>5. ASSUME NEW p \in Uses', p[2] = "create", p[1] \in receipts'
        PROVE  rows'[p[1]].state # "none"
    <3>1. CASE p[1] = w.key
      <4>1. w.op = "create"
        BY <1>1, <1>5, <2>1, <2>5, <3>1 DEF UsesInv
      <4>2. QED
        BY <2>5, <3>1, <4>1 DEF Serves
    <3>2. CASE p[1] # w.key
      <4>1. p[1] \in receipts /\ p \in Uses
        BY <1>5, <2>1, <2>5, <3>2
      <4>2. p[1] \in Key /\ rows[p[1]].state # "none"
        BY <1>1, <2>5, <4>1 DEF UsesInv, TypeOK
      <4>3. QED
        BY <4>2 DEF Serves
    <3>3. QED
      BY <3>1, <3>2
  <2>6. records' = records
    BY <1>4 DEF device
  <2>7. QED
    BY <1>1, <2>1, <2>2, <2>3, <2>4, <2>5, <2>6, KeysKept
<1>8. ReadInv'
  <2>1. feed \subseteq feed' /\ \A c \in feed' : c.client \in receipts'
    BY <1>1, <1>5 DEF Serves, ReadInv
  <2>2. QED
    BY <1>1, <1>4, <2>1 DEF ReadInv, device
<1>9. PushInv'
  <2>1. SUFFICES ASSUME phase' = "wait"
                 PROVE  /\ attempt' \in Nat
                        /\ \E i \in InState("pending")' : IsNext(i)' /\ Expects(i)'
    BY DEF PushInv
  <2>2. PICK i \in InState("pending") : IsNext(i) /\ Expects(i) /\ attempt \in Nat
    BY <1>1, <1>4, <2>1 DEF PushInv, device
  <2>3. Expects(i)'
    <3>1. CASE s = "device"
      BY <1>2, <1>4, <2>2, <3>1 DEF Expects, Serves, device
    <3>2. CASE s # "device"
      BY <1>2, <1>4, <1>5, <2>2, <3>2 DEF Expects, device, Slot
    <3>3. QED
      BY <3>1, <3>2
  <2>4. QED
    BY <1>4, <2>2, <2>3 DEF device
<1>10. QED
  BY <1>3, <1>4, <1>6, <1>7, <1>8, <1>9 DEF IInv, Serves, Shrinks

Answers == {"none", "done", "error", "refused", "version_mismatch", "record_soft_deleted"}

LEMMA AnswerTx ==
    ASSUME NEW s \in Slot, NEW answer \in Answers, Answered(s, answer)
    PROVE  \E u \in Tx : /\ tx' = [tx EXCEPT ![s] = u]
                         /\ u.stage \notin Busy /\ TxOk(u)'
                         /\ u.stage = "answered" => u.answer = answer
<1>1. PICK a : a = [NoTx EXCEPT !.stage = "answered", !.answer = answer]
  OBVIOUS
<1>2. a \in Tx /\ a.stage = "answered" /\ a.answer = answer
  BY <1>1 DEF NoTx, Tx, Answers
<1>3. NoTx \in Tx /\ NoTx.stage = "none"
  BY DEF NoTx, Tx
<1>4. PICK u \in Tx : /\ u = IF s = "device" THEN a ELSE NoTx
                      /\ u.stage \in {"none", "answered"}
                      /\ u.stage = "answered" => u.answer = answer
  BY <1>2, <1>3
<1>5. tx' = [tx EXCEPT ![s] = u]
  BY <1>1, <1>4 DEF Answered
<1>6. u.stage \notin Busy /\ TxOk(u)'
  BY <1>4 DEF TxOk, Busy
<1>7. QED
  BY <1>4, <1>5, <1>6

\* A push that ends leaves the tables as they are, or commits what it has.
LEMMA Ending ==
    ASSUME IInv, NEW s \in Slot, NEW answer \in Answers, Answered(s, answer),
           UNCHANGED device, Shrinks, ServerTypes, RowInv', tx[s].stage \in Busy,
           answer = "done" => tx[s].wire.key \in receipts',
           receipts \subseteq receipts', receipts' \subseteq receipts \union {tx[s].wire.key},
           \A k \in Key : rows[k].state # "none" => rows'[k].state # "none",
           tx[s].wire.op = "create" /\ tx[s].wire.key \in receipts' =>
               rows'[tx[s].wire.key].state # "none",
           feed \subseteq feed',
           \A c \in feed' \ feed : /\ c.client = tx[s].wire.key /\ c.op = tx[s].wire.op
                                   /\ c.client \in receipts'
    PROVE  IInv'
<1>1. PICK u \in Tx : /\ tx' = [tx EXCEPT ![s] = u]
                      /\ u.stage \notin Busy /\ TxOk(u)'
                      /\ u.stage = "answered" => u.answer = answer
  BY AnswerTx
<1>2. Serves(s, u)
  BY <1>1 DEF Serves
<1>3. QED
  BY <1>1, <1>2, Serving

\* What is known of the push that a step of s is about.
LEMMA Wired ==
    ASSUME IInv, NEW s \in Slot, tx[s].stage \in Busy
    PROVE  /\ tx[s] \in Tx /\ tx[s].wire \in Wire /\ TxOk(tx[s])
           /\ tx[s].wire.key \in Key /\ tx[s].wire.target[2] \in Key
           /\ tx[s].wire.op = "create" /\ tx[s].wire.key \in receipts =>
                  rows[tx[s].wire.key].state # "none"
<1>1. tx[s] \in Tx /\ TxOk(tx[s]) /\ tx[s].wire \in Wire
  BY DEF IInv, TypeOK, TxInv, TxOk
<1>2. tx[s].wire.key \in Key /\ tx[s].wire.target \in Id
  BY <1>1 DEF Wire
<1>3. <<tx[s].wire.key, tx[s].wire.op>> \in Uses
  BY DEF Uses, Underway
<1>4. QED
  BY <1>1, <1>2, <1>3 DEF IInv, UsesInv, Id

LEMMA StepGetReceipt == ASSUME IInv, NEW s \in Slot, GetReceipt(s) PROVE IInv'
<1>1. /\ UNCHANGED <<plan, now, rows, receipts, feed, drawn, device, missed>>
      /\ tx[s].stage = "begun" /\ tx[s].wire.op # "create"
  BY DEF GetReceipt
<1>2. /\ Shrinks /\ ServerTypes /\ RowInv' /\ UNCHANGED device
      /\ receipts' = receipts /\ rows' = rows /\ feed' = feed /\ tx[s].stage \in Busy
  BY <1>1, PlanSame DEF IInv, TypeOK, ServerTypes, RowInv, Busy
<1>3. CASE Answered(s, "done") /\ tx[s].wire.key \in receipts
  BY <1>1, <1>2, <1>3, Ending DEF Answers
<1>4. CASE tx' = [tx EXCEPT ![s].stage = "looked"]
  <2>1. /\ tx[s] \in Tx /\ tx[s].wire \in Wire
    BY <1>2, Wired
  <2>2. PICK u : u = [tx[s] EXCEPT !.stage = "looked"]
    OBVIOUS
  <2>3. u \in Tx /\ u.stage = "looked" /\ u.wire = tx[s].wire
    BY <2>1, <2>2 DEF Tx
  <2>4. tx' = [tx EXCEPT ![s] = u]
    BY <1>4, <2>2 DEF IInv, TypeOK
  <2>5. Serves(s, u) /\ TxOk(u)'
    BY <1>1, <1>2, <2>1, <2>3, <2>4 DEF Serves, TxOk
  <2>6. QED
    BY <1>2, <2>3, <2>5, Serving
<1>5. QED
  BY <1>3, <1>4 DEF GetReceipt

LEMMA StepFail ==
    ASSUME IInv, NEW s \in Slot, NEW answer \in {"error", "refused"}, Fail(s, answer)
    PROVE  IInv'
<1>1. /\ UNCHANGED <<now, rows, receipts, feed, drawn, device, missed>>
      /\ plan.faults > 0 /\ plan' = [plan EXCEPT !.faults = @ - 1]
      /\ tx[s].stage \in Busy /\ Answered(s, answer)
  BY DEF Fail, Busy
<1>2. /\ Shrinks /\ ServerTypes /\ RowInv' /\ UNCHANGED device
      /\ receipts' = receipts /\ rows' = rows /\ feed' = feed
  BY <1>1, PlanFault DEF IInv, TypeOK, ServerTypes, RowInv
<1>3. tx[s].wire.op = "create" /\ tx[s].wire.key \in receipts =>
          rows[tx[s].wire.key].state # "none"
  BY <1>1, Wired
<1>4. QED
  BY <1>1, <1>2, <1>3, Ending DEF Answers

LEMMA StepCreateExpense == ASSUME IInv, NEW s \in Slot, CreateExpense(s) PROVE IInv'
<1> DEFINE w == tx[s].wire
<1>1. PICK row : row = IF w.key \in receipts THEN rows[w.key]
                       ELSE [state |-> "live", time |-> now + 2, body |-> w.body]
  OBVIOUS
<1>2. /\ tx[s].stage = "begun" /\ w.op = "create"
      /\ rows' = [rows EXCEPT ![w.key] = row]
      /\ receipts' = receipts \union {w.key}
      /\ now' = IF w.key \in receipts THEN now ELSE now + 2
      /\ UNCHANGED <<plan, feed, drawn, device, missed>>
      /\ \/ row.state = "deleted" /\ Answered(s, "error")
         \/ /\ row.state # "deleted"
            /\ tx' = [tx EXCEPT ![s].stage = "appending",
                                ![s].change = Numbered(w.key, "create", w.key, row.time, row.body)]
  BY <1>1 DEF CreateExpense
<1>3. /\ tx[s] \in Tx /\ w \in Wire /\ w.key \in Key /\ w.body \in Key
      /\ w.key \in receipts => rows[w.key].state # "none"
      /\ tx[s].stage \in Busy
  BY <1>2, Wired DEF Busy, Wire
<1>4. /\ now \in Int /\ drawn \in Nat /\ rows \in [Key -> Row] /\ receipts \subseteq Key
      /\ feed \subseteq Change /\ missed \subseteq Key /\ RowInv /\ tx \in [Slot -> Tx]
  BY DEF IInv, TypeOK
<1>5. row \in Row /\ row.state # "none" /\ (row.state = "live" => row.body \in Key)
  BY <1>1, <1>3, <1>4 DEF Row, RowInv
<1>6. rows' \in [Key -> Row] /\ rows'[w.key] = row /\ \A k \in Key : k # w.key => rows'[k] = rows[k]
  BY <1>2, <1>3, <1>4, <1>5
<1>7. ServerTypes
  BY <1>2, <1>3, <1>4, <1>6 DEF ServerTypes
<1>8. RowInv'
  BY <1>4, <1>5, <1>6 DEF RowInv
<1>9. /\ Shrinks /\ UNCHANGED device /\ feed' = feed
      /\ receipts \subseteq receipts' /\ receipts' \subseteq receipts \union {w.key}
      /\ \A k \in Key : rows[k].state # "none" => rows'[k].state # "none"
      /\ rows'[w.key].state # "none" /\ w.key \in receipts'
  BY <1>2, <1>5, <1>6, PlanSame DEF IInv
<1>10. CASE row.state = "deleted" /\ Answered(s, "error")
  BY <1>3, <1>7, <1>8, <1>9, <1>10, Ending DEF Answers
<1>11. CASE row.state # "deleted" /\
            tx' = [tx EXCEPT ![s].stage = "appending",
                             ![s].change = Numbered(w.key, "create", w.key, row.time, row.body)]
  <2>1. PICK c : c = Numbered(w.key, "create", w.key, row.time, row.body)
    OBVIOUS
  <2>2. row.time \in Int /\ row.body \in Key
    BY <1>5, <1>11 DEF Row
  <2>3. c \in Change /\ c.client = w.key /\ c.op = "create"
    BY <1>3, <1>4, <2>1, <2>2 DEF Numbered, Change, Op
  <2>4. PICK u : u = [tx[s] EXCEPT !.stage = "appending", !.change = c]
    OBVIOUS
  <2>5. u \in Tx /\ u.stage = "appending" /\ u.change = c /\ u.wire = w
    BY <1>3, <2>3, <2>4 DEF Tx
  <2>6. tx' = [tx EXCEPT ![s] = u]
    BY <1>4, <1>11, <2>1, <2>4
  <2>7. TxOk(u)'
    BY <1>2, <1>3, <1>9, <2>3, <2>5 DEF TxOk
  <2>8. Serves(s, u)
    BY <1>3, <1>7, <1>9, <2>5, <2>6 DEF Serves
  <2>9. QED
    BY <1>8, <2>5, <2>7, <2>8, Serving
<1>12. QED
  BY <1>2, <1>10, <1>11

LEMMA StepAppendChange == ASSUME IInv, NEW s \in Slot, AppendChange(s) PROVE IInv'
<1> DEFINE w == tx[s].wire
<1>1. /\ tx[s].stage = "appending"
      /\ UNCHANGED <<plan, now, rows, receipts, feed, device, missed>>
      /\ \/ (\E c \in feed : c.client = w.key) /\ Answered(s, "done") /\ UNCHANGED drawn
         \/ /\ drawn' = drawn + 1
            /\ tx' = [tx EXCEPT ![s].stage = "drawn", ![s].change.seq = drawn + 1]
  BY DEF AppendChange
<1>2. /\ tx[s] \in Tx /\ w \in Wire /\ TxOk(tx[s]) /\ tx[s].stage \in Busy
      /\ w.op = "create" /\ w.key \in receipts => rows[w.key].state # "none"
  BY <1>1, Wired DEF Busy
<1>3. /\ Shrinks /\ ServerTypes /\ RowInv' /\ UNCHANGED device /\ drawn \in Nat
      /\ receipts' = receipts /\ rows' = rows /\ feed' = feed /\ tx \in [Slot -> Tx]
  BY <1>1, PlanSame DEF IInv, TypeOK, ServerTypes, RowInv
<1>4. CASE (\E c \in feed : c.client = w.key) /\ Answered(s, "done")
  <2>1. w.key \in receipts
    BY <1>4 DEF IInv, ReadInv
  <2>2. QED
    BY <1>2, <1>3, <1>4, <2>1, Ending DEF Answers
<1>5. CASE tx' = [tx EXCEPT ![s].stage = "drawn", ![s].change.seq = drawn + 1]
  <2>1. tx[s].change \in Change /\ tx[s].change.client = w.key /\ tx[s].change.op = w.op
    BY <1>1, <1>2 DEF TxOk
  <2>2. PICK c : c = [tx[s].change EXCEPT !.seq = drawn + 1]
    OBVIOUS
  <2>3. c \in Change /\ c.client = w.key /\ c.op = w.op
    BY <1>3, <2>1, <2>2 DEF Change
  <2>4. PICK u : u = [tx[s] EXCEPT !.stage = "drawn", !.change = c]
    OBVIOUS
  <2>5. u \in Tx /\ u.stage = "drawn" /\ u.change = c /\ u.wire = w
    BY <1>2, <2>3, <2>4 DEF Tx
  <2>6. tx' = [tx EXCEPT ![s] = u]
    BY <1>2, <1>3, <1>5, <2>2, <2>4 DEF Tx
  <2>7. TxOk(u)'
    BY <1>1, <1>2, <1>3, <2>3, <2>5 DEF TxOk
  <2>8. Serves(s, u)
    BY <1>2, <1>3, <2>5, <2>6 DEF Serves
  <2>9. QED
    BY <1>3, <2>5, <2>7, <2>8, Serving
<1>6. QED
  BY <1>1, <1>4, <1>5

LEMMA StepMutate == ASSUME IInv, NEW s \in Slot, Mutate(s) PROVE IInv'
<1> DEFINE w == tx[s].wire
<1>1. /\ tx[s].stage = "looked"
      /\ UNCHANGED <<plan, rows, receipts, feed, device, missed>>
      /\ \/ Verdict(w) # "none" /\ Answered(s, Verdict(w)) /\ UNCHANGED <<now, drawn>>
         \/ /\ now' = now + 2 /\ drawn' = drawn + 1
            /\ tx' = [tx EXCEPT ![s].stage = "drawn",
                        ![s].change = Numbered(w.target[2], w.op, w.key, now + 2, w.body)]
  BY DEF Mutate
<1>2. /\ tx[s] \in Tx /\ w \in Wire /\ TxOk(tx[s]) /\ tx[s].stage \in Busy
      /\ w.key \in Key /\ w.target[2] \in Key /\ w.body \in Key /\ w.op \in Op
      /\ w.op # "create"
  BY <1>1, Wired DEF Busy, Wire, TxOk
<1>3. /\ Shrinks /\ RowInv' /\ UNCHANGED device /\ now \in Int /\ drawn \in Nat
      /\ receipts' = receipts /\ rows' = rows /\ feed' = feed /\ tx \in [Slot -> Tx]
  BY <1>1, PlanSame DEF IInv, TypeOK, RowInv
<1>4. ServerTypes
  <2>1. now' \in Int /\ drawn' \in Nat
    BY <1>1, <1>3
  <2>2. QED
    BY <1>1, <2>1 DEF IInv, TypeOK, ServerTypes
<1>5. CASE Verdict(w) # "none" /\ Answered(s, Verdict(w))
  <2>1. Verdict(w) \in Answers /\ Verdict(w) # "done"
    BY DEF Verdict, Answers
  <2>2. QED
    BY <1>2, <1>3, <1>4, <1>5, <2>1, Ending
<1>6. CASE tx' = [tx EXCEPT ![s].stage = "drawn",
                    ![s].change = Numbered(w.target[2], w.op, w.key, now + 2, w.body)]
  <2>1. PICK c : c = Numbered(w.target[2], w.op, w.key, now + 2, w.body)
    OBVIOUS
  <2>2. c \in Change /\ c.client = w.key /\ c.op = w.op
    BY <1>2, <1>3, <2>1 DEF Numbered, Change
  <2>3. PICK u : u = [tx[s] EXCEPT !.stage = "drawn", !.change = c]
    OBVIOUS
  <2>4. u \in Tx /\ u.stage = "drawn" /\ u.change = c /\ u.wire = w
    BY <1>2, <2>2, <2>3 DEF Tx
  <2>5. tx' = [tx EXCEPT ![s] = u]
    BY <1>3, <1>6, <2>1, <2>3
  <2>6. TxOk(u)'
    BY <1>2, <2>2, <2>4 DEF TxOk
  <2>7. Serves(s, u)
    BY <1>2, <1>3, <1>4, <2>4, <2>5 DEF Serves
  <2>8. QED
    BY <1>3, <2>4, <2>6, <2>7, Serving
<1>7. QED
  BY <1>1, <1>5, <1>6

LEMMA StepCommit == ASSUME IInv, NEW s \in Slot, Commit(s) PROVE IInv'
<1> DEFINE w == tx[s].wire
           c == tx[s].change
<1>1. PICK row : row = [state |-> IF c.op = "delete" THEN "deleted" ELSE "live", time |-> c.time,
                        body |-> IF c.op = "delete" THEN rows[c.expense].body ELSE c.body]
  OBVIOUS
<1>2. /\ tx[s].stage = "drawn"
      /\ feed' = feed \union {c} /\ receipts' = receipts \union {c.client}
      /\ rows' = IF c.op = "create" THEN rows ELSE [rows EXCEPT ![c.expense] = row]
      /\ missed' \in {missed, missed \union {c.expense}}
      /\ Answered(s, "done")
      /\ UNCHANGED <<plan, now, drawn, device>>
  BY <1>1 DEF Commit
<1>3. /\ w \in Wire /\ TxOk(tx[s]) /\ tx[s].stage \in Busy /\ w.key \in Key
      /\ w.op = "create" /\ w.key \in receipts => rows[w.key].state # "none"
  BY <1>2, Wired DEF Busy
<1>4. /\ c \in Change /\ c.client = w.key /\ c.op = w.op
      /\ w.op = "create" => w.key \in receipts
  BY <1>2, <1>3 DEF TxOk
<1>5. /\ now \in Int /\ drawn \in Nat /\ rows \in [Key -> Row] /\ receipts \subseteq Key
      /\ feed \subseteq Change /\ missed \subseteq Key /\ RowInv
  BY DEF IInv, TypeOK
<1>6. c.expense \in Key /\ c.time \in Int /\ c.body \in Key
  BY <1>4 DEF Change
<1>7. row \in Row /\ row.state # "none" /\ (row.state = "live" => row.body \in Key)
  <2>1. rows[c.expense].body \in Key \union {None}
    BY <1>5, <1>6 DEF Row
  <2>2. QED
    BY <1>1, <1>6, <2>1 DEF Row
<1>8. /\ rows' \in [Key -> Row]
      /\ \A k \in Key : rows'[k] \in {rows[k], row}
  BY <1>2, <1>5, <1>6, <1>7
<1>9. ServerTypes
  BY <1>2, <1>4, <1>5, <1>6, <1>8, <1>3 DEF ServerTypes
<1>10. RowInv'
  BY <1>5, <1>7, <1>8 DEF RowInv
<1>11. /\ Shrinks /\ UNCHANGED device
       /\ \A k \in Key : rows[k].state # "none" => rows'[k].state # "none"
       /\ w.op = "create" => rows'[w.key].state # "none"
  BY <1>2, <1>3, <1>4, <1>7, <1>8, PlanSame DEF IInv
<1>12. QED
  BY <1>2, <1>3, <1>4, <1>9, <1>10, <1>11, Ending DEF Answers

LEMMA BeginTx ==
    ASSUME NEW wire \in Wire
    PROVE  /\ Begun(wire) \in Tx /\ Begun(wire).stage = "begun" /\ Begun(wire).wire = wire
           /\ TxOk(Begun(wire))'
<1>1. PICK u : u = Begun(wire)
  OBVIOUS
<1>2. u \in Tx /\ u.stage = "begun" /\ u.wire = wire
  BY <1>1 DEF Begun, NoTx, Tx
<1>3. TxOk(u)'
  BY <1>2 DEF TxOk
<1>4. QED
  BY <1>1, <1>2, <1>3

LEMMA StepOtherPushes ==
    ASSUME IInv, NEW k \in Key, NEW op \in Op, OtherPushes(k, op)
    PROVE  IInv'
<1>1. PICK e \in Key :
        tx' = [tx EXCEPT !["other"] = Begun([key |-> k, op |-> op, target |-> Remote(e),
                                             expected |-> rows[e].time, body |-> k])]
  BY DEF OtherPushes
<1>2. PICK w : w = [key |-> k, op |-> op, target |-> Remote(e), expected |-> rows[e].time, body |-> k]
  OBVIOUS
<1>3. /\ UNCHANGED <<now, rows, receipts, feed, drawn, device, missed>>
      /\ <<k, op>> \in plan.others /\ plan' = [plan EXCEPT !.others = @ \ {<<k, op>>}]
  BY DEF OtherPushes
<1>4. rows[e].time \in Int /\ Remote(e) \in Id
  BY DEF IInv, TypeOK, Row, Remote, Id
<1>5. w \in Wire /\ w.key = k /\ w.op = op
  BY <1>2, <1>4 DEF Wire
<1>6. Shrinks /\ k \in New(plan) \ New(plan')
  BY <1>3, PlanTakes DEF IInv
<1>7. PICK u \in Tx : /\ tx' = [tx EXCEPT !["other"] = u]
                      /\ u.stage = "begun" /\ u.wire = w /\ TxOk(u)'
  BY <1>1, <1>2, <1>5, BeginTx
<1>8. /\ tx \in [Slot -> Tx] /\ tx' \in [Slot -> Tx] /\ tx'["other"] = u
      /\ \A t \in Slot : t # "other" => tx'[t] = tx[t]
      /\ tx'["device"] = tx["device"]
  BY <1>7 DEF IInv, TypeOK, Slot
<1>9. TypeOK'
  <2>1. ServerTypes
    BY <1>3 DEF IInv, TypeOK, ServerTypes
  <2>2. QED
    BY <1>3, <1>6, <1>8, <2>1, TypesOfServer DEF IInv, Shrinks
<1>10. TxInv'
  <2>1. ASSUME NEW t \in Slot, t # "other" PROVE TxOk(tx[t])'
    BY <1>3, <1>8, <2>1 DEF IInv, TxInv, TxOk
  <2>2. TxOk(tx["other"])'
    BY <1>7, <1>8 DEF TxOk
  <2>3. QED
    BY <2>1, <2>2 DEF TxInv, TxOk
<1>11. Uses' \subseteq Uses \union {<<k, op>>}
  <2>1. ASSUME NEW t \in Slot, tx'[t].stage \in Busy
        PROVE  <<tx'[t].wire.key, tx'[t].wire.op>> \in Uses \union {<<k, op>>}
    BY <1>5, <1>7, <1>8, <2>1 DEF Uses, Underway
  <2>2. QED
    BY <1>3, <2>1 DEF Uses, Underway, device
<1>12. UsesInv' /\ NewInv'
  <2>1. /\ UsesInv /\ NewInv /\ tasks' = tasks /\ receipts' = receipts /\ rows' = rows
        /\ records' = records
    BY <1>3 DEF IInv, device
  <2>2. \A i, j \in DOMAIN tasks' : tasks'[i].key = tasks'[j].key => i = j
    BY <2>1 DEF UsesInv
  <2>3. \A x \in New(plan) : x \notin receipts
    BY <2>1 DEF NewInv, Unused
  <2>4. \A p \in Uses' : p[2] = "create" /\ p[1] \in receipts' => rows'[p[1]].state # "none"
    BY <1>6, <1>11, <2>1, <2>3 DEF UsesInv
  <2>5. QED
    BY <1>6, <1>11, <2>1, <2>2, <2>3, <2>4, KeysKept DEF Shrinks
<1>13. RecordInv' /\ QueueInv' /\ SyncedInv'
  BY <1>3, DeviceKept
<1>14. ReadInv' /\ RowInv'
  BY <1>3 DEF IInv, ReadInv, RowInv, device
<1>15. PushInv'
  BY <1>3, <1>8 DEF IInv, PushInv, InState, IsNext, Expects, device
<1>16. QED
  BY <1>6, <1>9, <1>10, <1>12, <1>13, <1>14, <1>15 DEF IInv, Shrinks

-----------------------------------------------------------------------------
(* Steps of the device that change neither queue nor records.              *)

RunTypes ==
    /\ phase' \in {"idle", "push", "wait", "pull", "apply"}
    /\ attempt' \in Nat \union {None} /\ asked' \subseteq {"run", "manual", "online"}
    /\ fresh' \subseteq Key /\ cursor' \in Nat
    /\ page' \in [changes: Seq(Change), more: BOOLEAN]
    /\ listed' \subseteq Record /\ dialog' \in [task: Nat, row: Row] \union {None}
    /\ missed' \subseteq Key

LEMMA RunTypesNow ==
    ASSUME IInv
    PROVE  /\ phase \in {"idle", "push", "wait", "pull", "apply"}
           /\ attempt \in Nat \union {None} /\ asked \subseteq {"run", "manual", "online"}
           /\ fresh \subseteq Key /\ cursor \in Nat
           /\ page \in [changes: Seq(Change), more: BOOLEAN]
           /\ listed \subseteq Record /\ dialog \in [task: Nat, row: Row] \union {None}
           /\ missed \subseteq Key /\ given \subseteq Key
  BY DEF IInv, TypeOK

LEMMA UsesKept ==
    ASSUME UNCHANGED <<tasks, tx, feed>>
    PROVE  Uses' = Uses
  BY DEF Uses, Underway

Looks ==
    /\ UNCHANGED <<server, tx, records, tasks, given>> /\ Shrinks /\ RunTypes
    /\ phase' = "wait" => phase = "wait" /\ attempt' = attempt

LEMMA Looking ==
    ASSUME IInv, Looks, ReadInv'
    PROVE  IInv'
<1>1. UNCHANGED <<now, rows, receipts, feed, drawn, tx, records, tasks, given>>
  BY DEF Looks, server
<1>2. TypeOK'
  BY <1>1 DEF IInv, TypeOK, Looks, Shrinks, RunTypes
<1>3. UsesInv' /\ NewInv'
  <2>1. Uses' = Uses /\ New(plan') \subseteq New(plan) /\ UsesInv /\ NewInv
    BY <1>1, UsesKept DEF Looks, Shrinks, IInv
  <2>2. UsesInv'
    BY <1>1, <2>1 DEF UsesInv
  <2>3. NewInv'
    BY <1>1, <2>1 DEF NewInv, Unused
  <2>4. QED
    BY <2>2, <2>3
<1>4. TxInv' /\ RowInv' /\ SyncedInv'
  BY <1>1 DEF IInv, TxInv, TxOk, RowInv, SyncedInv
<1>5. RecordInv' /\ QueueInv'
  BY <1>1 DEF IInv, RecordInv, QueueInv, Waits, Of, Unfinished
<1>6. PushInv'
  BY <1>1 DEF IInv, PushInv, InState, IsNext, Expects, Looks
<1>7. QED
  BY <1>2, <1>3, <1>4, <1>5, <1>6 DEF IInv, Looks, Shrinks

LEMMA StepAsk ==
    ASSUME IInv, RetryFailed \/ ConnectivityRestored \/ SyncNow
    PROVE  IInv'
<1>1. /\ UNCHANGED <<plan, server, tx, records, tasks, run, listed, dialog, missed, given>>
      /\ asked' \subseteq asked \union {"run", "manual", "online"}
  BY DEF RetryFailed, ConnectivityRestored, SyncNow, Ask
<1>2. Looks
  BY <1>1, PlanSame, RunTypesNow DEF Looks, RunTypes, run, IInv
<1>3. ReadInv'
  BY <1>1 DEF IInv, ReadInv, server, run
<1>4. QED
  BY <1>2, <1>3, Looking

LEMMA StepPullFails == ASSUME IInv, PullFails PROVE IInv'
<1>1. /\ UNCHANGED <<server, tx, records, tasks, attempt, asked, fresh, cursor, page, listed,
                     dialog, missed, given>>
      /\ phase' = "idle" /\ Shrinks
  BY PlanFault DEF PullFails, IInv
<1>2. Looks
  BY <1>1, RunTypesNow DEF Looks, RunTypes
<1>3. ReadInv'
  BY <1>1 DEF IInv, ReadInv, server
<1>4. QED
  BY <1>2, <1>3, Looking

LEMMA StepFetchPage == ASSUME IInv, FetchPage PROVE IInv'
<1>1. PICK size \in 0..PageSize :
        \E changes \in [1..size -> {c \in feed : c.seq > cursor}] :
            /\ page' = [changes |-> changes,
                        more |-> {changes[n] : n \in 1..size} # {c \in feed : c.seq > cursor}]
            /\ phase' = IF size = 0 THEN "idle" ELSE "apply"
            /\ UNCHANGED <<plan, server, tx, records, tasks, attempt, asked, fresh, cursor,
                           listed, dialog, missed, given>>
  BY DEF FetchPage
<1>2. PICK changes \in [1..size -> {c \in feed : c.seq > cursor}] :
            /\ page' = [changes |-> changes,
                        more |-> {changes[n] : n \in 1..size} # {c \in feed : c.seq > cursor}]
            /\ phase' = IF size = 0 THEN "idle" ELSE "apply"
            /\ UNCHANGED <<plan, server, tx, records, tasks, attempt, asked, fresh, cursor,
                           listed, dialog, missed, given>>
  BY <1>1
<1>3. feed \subseteq Change /\ size \in Nat
  BY GroupSyncAssumption DEF IInv, TypeOK
<1>4. changes \in [1..size -> Change]
  BY <1>2, <1>3
<1>5. changes \in Seq(Change) /\ Len(changes) = size /\ DOMAIN changes = 1..size
  BY <1>3, <1>4
<1>6. page'.changes = changes /\ page' \in [changes: Seq(Change), more: BOOLEAN]
  BY <1>2, <1>5
<1>7. Looks
  BY <1>2, <1>6, PlanSame, RunTypesNow DEF Looks, RunTypes, IInv
<1>8. ReadInv'
  <2>1. \A n \in DOMAIN page'.changes : page'.changes[n] \in feed
    BY <1>5, <1>6
  <2>2. phase' = "apply" => page'.changes # <<>>
    BY <1>2, <1>3, <1>5, <1>6
  <2>3. UNCHANGED <<feed, receipts, listed, dialog, tasks>>
    BY <1>2 DEF server
  <2>4. QED
    BY <2>1, <2>2, <2>3 DEF IInv, ReadInv
<1>9. QED
  BY <1>7, <1>8, Looking

LEMMA SnapshotType ==
    ASSUME NEW k \in Key, NEW client \in Key \union Id, NEW time \in Int, NEW body \in Key
    PROVE  /\ Snapshot(k, client, time, body) \in Record
           /\ Snapshot(k, client, time, body).id = Remote(k)
           /\ Snapshot(k, client, time, body).client = client
           /\ Snapshot(k, client, time, body).state = "synced"
           /\ Remote(k) \in Id /\ Remote(k)[1] = "server"
  BY DEF Snapshot, Record, Remote, Id

LEMMA StepRefresh == ASSUME IInv, Refresh PROVE IInv'
<1>1. /\ UNCHANGED <<plan, server, tx, records, tasks, run, asked, dialog, missed, given>>
      /\ listed' = {Snapshot(k, Remote(k), rows[k].time, rows[k].body)
                      : k \in {e \in Key : rows[e].state = "live"}}
  BY DEF Refresh
<1>2. ASSUME NEW k \in Key, rows[k].state = "live"
      PROVE  rows[k].time \in Int /\ rows[k].body \in Key /\ Remote(k) \in Id
  BY <1>2 DEF IInv, TypeOK, Row, RowInv, Remote, Id
<1>3. \A new \in listed' : /\ new \in Record /\ new.state = "synced" /\ new.client = new.id
                           /\ new.id[1] = "server"
  BY <1>1, <1>2, SnapshotType
<1>4. Looks
  BY <1>1, <1>3, PlanSame, RunTypesNow DEF Looks, RunTypes, run, IInv
<1>5. ReadInv'
  BY <1>1, <1>3 DEF IInv, ReadInv, server, run
<1>6. QED
  BY <1>4, <1>5, Looking

LEMMA StepDecide == ASSUME IInv, NEW i \in DOMAIN tasks, Decide(i) PROVE IInv'
<1>1. PICK d : d = [task |-> i, row |-> IF tasks[i].target[1] = "server"
                                          THEN rows[tasks[i].target[2]] ELSE NoRow]
  OBVIOUS
<1>2. /\ UNCHANGED <<plan, server, tx, records, tasks, run, asked, listed, missed, given>>
      /\ dialog' = d
  BY <1>1 DEF Decide
<1>3. i \in Nat /\ tasks[i].target[2] \in Key
  <2>1. tasks \in Seq(Task)
    BY DEF IInv, TypeOK
  <2>2. tasks[i] \in Task /\ i \in Nat
    BY <2>1
  <2>3. QED
    BY <2>2 DEF Task, Id
<1>4. /\ d \in [task: Nat, row: Row] /\ d.task = i
      /\ d.row.state = "live" => tasks[i].target[1] = "server" /\ d.row.body \in Key
  <2>1. NoRow \in Row /\ NoRow.state = "none"
    BY DEF NoRow, Row
  <2>2. rows \in [Key -> Row] /\ RowInv
    BY DEF IInv, TypeOK
  <2>3. QED
    BY <1>1, <1>3, <2>1, <2>2 DEF RowInv
<1>5. Looks
  BY <1>2, <1>4, PlanSame, RunTypesNow DEF Looks, RunTypes, run, IInv
<1>6. ReadInv'
  BY <1>2, <1>4 DEF IInv, ReadInv, server, run
<1>7. QED
  BY <1>5, <1>6, Looking

LEMMA StepClosed == ASSUME IInv, Closed PROVE IInv'
<1>1. /\ UNCHANGED <<plan, server, tx, records, tasks, run, asked, listed, missed, given>>
      /\ dialog' = None
  BY DEF Closed
<1>2. Looks
  BY <1>1, PlanSame, RunTypesNow DEF Looks, RunTypes, run, IInv
<1>3. ReadInv'
  BY <1>1 DEF IInv, ReadInv, server, run
<1>4. QED
  BY <1>2, <1>3, Looking

-----------------------------------------------------------------------------
(* Steps of the device that store something.                               *)

LEMMA Writing ==
    ASSUME IInv, UNCHANGED <<server, tx>>, Shrinks, RunTypes, records' \subseteq Record,
           tasks' \in Seq(Task), given' \subseteq Key, UsesInv', NewInv', ReadInv',
           RecordInv', QueueInv', SyncedInv', PushInv'
    PROVE  IInv'
<1>1. UNCHANGED <<now, rows, receipts, feed, drawn, tx>>
  BY DEF server
<1>2. TypeOK'
  BY <1>1 DEF IInv, TypeOK, Shrinks, RunTypes
<1>3. TxInv' /\ RowInv'
  BY <1>1 DEF IInv, TxInv, TxOk, RowInv
<1>4. QED
  BY <1>2, <1>3 DEF IInv, Shrinks

LEMMA TaskTypes ==
    ASSUME IInv, NEW i \in DOMAIN tasks
    PROVE  /\ i \in Nat /\ tasks[i] \in Task /\ tasks[i].key \in Key /\ tasks[i].op \in Op
           /\ tasks[i].target \in Id /\ tasks[i].retries \in Nat
<1>1. tasks \in Seq(Task)
  BY DEF IInv, TypeOK
<1>2. tasks[i] \in Task /\ i \in Nat
  BY <1>1
<1>3. QED
  BY <1>2 DEF Task

\* The records change and the queue does not.
LEMMA SameQueue ==
    ASSUME IInv, UNCHANGED <<server, tx, tasks, given>>, Shrinks,
           \A r \in records', x \in New(plan') : r.client # x /\ r.id # Local(x),
           phase' = "wait" => phase = "wait" /\ attempt' = attempt
    PROVE  UsesInv' /\ NewInv' /\ SyncedInv' /\ PushInv'
<1>1. UNCHANGED <<now, rows, receipts, feed, drawn, tx, tasks, given>>
  BY DEF server
<1>2. Uses' = Uses /\ New(plan') \subseteq New(plan) /\ UsesInv /\ NewInv
  BY <1>1, UsesKept DEF Shrinks, IInv
<1>3. UsesInv'
  BY <1>1, <1>2 DEF UsesInv
<1>4. ASSUME NEW x \in New(plan') PROVE Unused(x)'
  BY <1>1, <1>2 DEF NewInv, Unused, Local
<1>5. SyncedInv'
  BY <1>1 DEF IInv, SyncedInv
<1>6. PushInv'
  BY <1>1 DEF IInv, PushInv, InState, IsNext, Expects
<1>7. QED
  BY <1>3, <1>4, <1>5, <1>6 DEF NewInv

\* Records that keep their id and client are no new ones.
LEMMA OldRecords ==
    ASSUME IInv, Shrinks, NEW f, Renewed(f)
    PROVE  \A r \in records', x \in New(plan') : r.client # x /\ r.id # Local(x)
<1>1. ASSUME NEW r \in records', NEW x \in New(plan')
      PROVE  r.client # x /\ r.id # Local(x)
  <2>1. PICK s \in records : r = f[s] /\ r.id = s.id /\ r.client = s.client
    BY DEF Renewed
  <2>2. Unused(x)
    BY DEF IInv, NewInv, Shrinks
  <2>3. QED
    BY <2>1, <2>2 DEF Unused
<1>2. QED
  BY <1>1

LEMMA Snapshots ==
    ASSUME IInv, Shrinks, NEW new \in Record, StoreSnapshot(new),
           new.client \notin New(plan), new.id[1] = "server"
    PROVE  /\ records' \subseteq Record
           /\ \A r \in records', x \in New(plan') : r.client # x /\ r.id # Local(x)
<1>1. records' \subseteq records \union {new}
  BY DEF StoreSnapshot
<1>2. records \subseteq Record
  BY DEF IInv, TypeOK
<1>3. \A x \in New(plan') : Unused(x) /\ new.client # x /\ new.id # Local(x)
  BY DEF IInv, NewInv, Shrinks, Local
<1>4. QED
  BY <1>1, <1>2, <1>3 DEF Unused

LEMMA Tombstones ==
    ASSUME IInv, NEW c \in Change, StoreTombstone(c)
    PROVE  \E f : /\ Renewed(f) /\ records' \subseteq Record
                  /\ \A x \in records : f[x] = x \/ (x.state = "synced" /\ f[x].state = "synced")
<1>1. records \subseteq Record /\ c.time \in Int
  BY DEF IInv, TypeOK, Change
<1>2. PICK gone : /\ gone = {r \in records : r.id = Remote(c.expense) /\ r.state = "synced"}
                  /\ records' = (records \ gone) \union
                                   {[r EXCEPT !.deleted = TRUE, !.time = c.time] : r \in gone}
  BY DEF StoreTombstone
<1>3. PICK f : f = [x \in records |-> IF x \in gone THEN [x EXCEPT !.deleted = TRUE, !.time = c.time]
                                      ELSE x]
  OBVIOUS
<1>4. \A x \in gone : /\ x \in records /\ x.state = "synced"
                      /\ f[x] = [x EXCEPT !.deleted = TRUE, !.time = c.time]
  BY <1>2, <1>3
<1>5. \A x \in records \ gone : f[x] = x
  BY <1>3
<1>6. ASSUME NEW x \in gone
      PROVE  /\ f[x].id = x.id /\ f[x].client = x.client
             /\ f[x].state = "synced" /\ f[x] \in Record
  <2>1. x \in Record /\ x.state = "synced"
    BY <1>1, <1>4
  <2>2. f[x] = [x EXCEPT !.deleted = TRUE, !.time = c.time]
    BY <1>4
  <2>3. QED
    BY <1>1, <2>1, <2>2 DEF Record
<1>7. records' = {f[x] : x \in records}
  <2>1. {[r EXCEPT !.deleted = TRUE, !.time = c.time] : r \in gone} = {f[x] : x \in gone}
    <3>1. \A r \in gone : [r EXCEPT !.deleted = TRUE, !.time = c.time] = f[r]
      BY <1>4
    <3>2. QED
      BY <3>1, Zenon
  <2>2. gone \subseteq records /\ records \ gone = {f[x] : x \in records \ gone}
    <3>1. gone \subseteq records
      BY <1>2
    <3>2. QED
      BY <1>5, <3>1, Zenon
  <2>3. {f[x] : x \in records} = {f[x] : x \in records \ gone} \union {f[x] : x \in gone}
    BY <2>2
  <2>4. QED
    BY <1>2, <2>1, <2>2, <2>3
<1>8. Renewed(f)
  BY <1>5, <1>6, <1>7 DEF Renewed
<1>9. records' \subseteq Record
  BY <1>1, <1>5, <1>6, <1>7
<1>10. \A x \in records : f[x] = x \/ (x.state = "synced" /\ f[x].state = "synced")
  BY <1>4, <1>5, <1>6
<1>11. QED
  BY <1>8, <1>9, <1>10

LEMMA TombstoneQueue ==
    ASSUME RecordInv, QueueInv, NEW f, Renewed(f), tasks' = tasks,
           \A x \in records : f[x] = x \/ (x.state = "synced" /\ f[x].state = "synced")
    PROVE  RecordInv' /\ QueueInv'
<1>1. SameTasks /\ Unfinished' = Unfinished
  BY DEF SameTasks, Unfinished
<1>2. ASSUME NEW r \in records, NEW i \in Unfinished, tasks[i].target = r.id
      PROVE  f[r].state # "synced" /\ f[r].deleted = r.deleted /\ f[r].body = r.body
  BY <1>2, FreeRecord
<1>3. ASSUME NEW r \in records, f[r].state # "synced"
      PROVE  \E i \in Unfinished : tasks[i].target = r.id
  BY <1>3 DEF QueueInv
<1>4. QED
  BY <1>1, <1>2, <1>3, Renewing

LEMMA StepApplyChange == ASSUME IInv, ApplyChange PROVE IInv'
<1>1. PICK c, new : /\ c = Head(page.changes)
                    /\ new = Snapshot(c.expense, c.client, c.time, c.body)
  OBVIOUS
<1>2. /\ phase = "apply"
      /\ IF c.op = "delete" THEN StoreTombstone(c) ELSE StoreSnapshot(new)
      /\ missed' \in {missed, missed \union {c.expense}}
      /\ page' = [page EXCEPT !.changes = Tail(@)]
      /\ IF Len(page.changes) > 1 THEN UNCHANGED <<phase, cursor>>
         ELSE cursor' = c.seq /\ phase' \in {"pull", "idle"}
      /\ UNCHANGED <<plan, server, tx, tasks, attempt, asked, fresh, listed, dialog, given>>
  BY <1>1 DEF ApplyChange
<1>3. PICK s : s = page.changes
  OBVIOUS
<1>4. /\ s \in Seq(Change) /\ s # <<>> /\ page.more \in BOOLEAN
      /\ \A n \in DOMAIN s : s[n] \in feed
      /\ page' = [page EXCEPT !.changes = Tail(s)]
      /\ page \in [changes: Seq(Change), more: BOOLEAN]
  BY <1>2, <1>3 DEF IInv, TypeOK, ReadInv
<1>5. c \in feed /\ c \in Change /\ c.client \in Key /\ c.expense \in Key /\ c.time \in Int
      /\ c.body \in Key /\ c.seq \in Nat
  <2>1. c = s[1] /\ 1 \in DOMAIN s
    BY <1>1, <1>3, <1>4
  <2>2. c \in feed /\ c \in Change
    BY <1>4, <2>1 DEF IInv, TypeOK
  <2>3. QED
    BY <2>2 DEF Change
<1>6. /\ Tail(s) \in Seq(Change) /\ \A n \in DOMAIN Tail(s) : Tail(s)[n] \in feed
      /\ Len(s) > 1 => Tail(s) # <<>>
  <2>1. /\ Tail(s) \in Seq(Change) /\ Len(Tail(s)) = Len(s) - 1
        /\ \A n \in 1 .. Len(Tail(s)) : Tail(s)[n] = s[n + 1]
    BY <1>4
  <2>2. \A n \in DOMAIN Tail(s) : n + 1 \in DOMAIN s /\ Tail(s)[n] = s[n + 1]
    BY <1>4, <2>1
  <2>3. Len(s) > 1 => Tail(s) # <<>>
    BY <1>4, <2>1
  <2>4. QED
    BY <1>4, <2>1, <2>2, <2>3
<1>7. page' \in [changes: Seq(Change), more: BOOLEAN] /\ page'.changes = Tail(s)
  BY <1>4, <1>6
<1>8. Shrinks /\ RunTypes
  BY <1>2, <1>5, <1>7, PlanSame, RunTypesNow DEF RunTypes, IInv
<1>9. ReadInv'
  <2>1. phase' = "apply" => Len(s) > 1
    BY <1>2, <1>3
  <2>2. UNCHANGED <<feed, receipts, listed, dialog, tasks>>
    BY <1>2 DEF server
  <2>3. QED
    BY <1>6, <1>7, <2>1, <2>2 DEF IInv, ReadInv
<1>10. /\ records' \subseteq Record
       /\ \A r \in records', x \in New(plan') : r.client # x /\ r.id # Local(x)
       /\ RecordInv' /\ QueueInv'
  <2>1. CASE c.op = "delete"
    <3>1. PICK f : /\ Renewed(f) /\ records' \subseteq Record
                   /\ \A x \in records : f[x] = x \/ (x.state = "synced" /\ f[x].state = "synced")
      BY <1>2, <1>5, <2>1, Tombstones
    <3>2. RecordInv' /\ QueueInv'
      BY <1>2, <3>1, TombstoneQueue DEF IInv
    <3>3. QED
      BY <1>8, <3>1, <3>2, OldRecords
  <2>2. CASE c.op # "delete"
    <3>1. /\ new \in Record /\ new.client = c.client /\ new.state = "synced"
          /\ new.id[1] = "server"
      BY <1>1, <1>5, SnapshotType
    <3>2. <<c.client, c.op>> \in Uses
      BY <1>5 DEF Uses
    <3>3. c.client \notin New(plan)
      BY <3>2 DEF IInv, NewInv, Unused
    <3>4. c.client \notin Id
      BY <1>5, GroupSyncAssumption
    <3>5. ASSUME NEW i \in Unfinished, tasks[i].op = "delete"
          PROVE  new.client # tasks[i].key
      <4>1. <<tasks[i].key, tasks[i].op>> \in Uses
        BY DEF Uses, Unfinished
      <4>2. QED
        BY <2>2, <3>1, <3>2, <3>5, <4>1 DEF IInv, UsesInv
    <3>6. RecordInv' /\ QueueInv'
      BY <1>2, <2>2, <3>1, <3>4, <3>5, Storing DEF IInv
    <3>7. QED
      BY <1>2, <1>8, <2>2, <3>1, <3>3, <3>6, Snapshots
  <2>3. QED
    BY <2>1, <2>2
<1>11. UsesInv' /\ NewInv' /\ SyncedInv' /\ PushInv'
  BY <1>2, <1>8, <1>10, SameQueue
<1>12. QED
  BY <1>2, <1>8, <1>9, <1>10, <1>11, Writing DEF IInv, TypeOK

LEMMA StepStoreListed == ASSUME IInv, StoreListed PROVE IInv'
<1>1. PICK new \in listed :
        /\ StoreSnapshot(new) /\ listed' = listed \ {new}
        /\ missed' \in {missed, missed \union {new.id[2]}}
        /\ UNCHANGED <<plan, server, tx, tasks, run, asked, dialog, given>>
  BY DEF StoreListed
<1>2. /\ new \in Record /\ new.state = "synced" /\ new.client = new.id
      /\ new.id[1] = "server" /\ new.id \in Id /\ new.id[2] \in Key
  BY DEF IInv, TypeOK, ReadInv, Record, Id
<1>3. Shrinks /\ RunTypes
  BY <1>1, <1>2, PlanSame, RunTypesNow DEF RunTypes, run, IInv
<1>4. new.client \notin Key
  BY <1>2, GroupSyncAssumption
<1>5. /\ records' \subseteq Record
      /\ \A r \in records', x \in New(plan') : r.client # x /\ r.id # Local(x)
  <2>1. New(plan) \subseteq Key
    BY DEF New, IInv, TypeOK, Plan
  <2>2. QED
    BY <1>1, <1>2, <1>3, <1>4, <2>1, Snapshots
<1>6. RecordInv' /\ QueueInv'
  <2>1. \A i \in Unfinished : tasks[i].key \in Key
    BY TaskTypes DEF Unfinished
  <2>2. QED
    BY <1>1, <1>2, <1>4, <2>1, Storing DEF IInv
<1>7. UsesInv' /\ NewInv' /\ SyncedInv' /\ PushInv'
  BY <1>1, <1>3, <1>5, SameQueue DEF run
<1>8. ReadInv'
  BY <1>1 DEF IInv, ReadInv, server, run
<1>9. QED
  BY <1>1, <1>3, <1>5, <1>6, <1>7, <1>8, Writing DEF IInv, TypeOK

-----------------------------------------------------------------------------
(* One record takes the place of another, or comes new.                    *)

\* A task whose record is r is found by no other's key.
LEMMA TheRecord ==
    ASSUME RecordInv, QueueInv, NEW i \in Unfinished
    PROVE  \E r \in records : /\ Waits(r, tasks[i]) /\ Of(tasks[i]) = {r}
                              /\ {x \in records : x.id = tasks[i].target} = {r}
                              /\ \A j \in Unfinished : j # i => r.client # tasks[j].key
<1>1. PICK r \in records : Waits(r, tasks[i])
  BY DEF QueueInv
<1>2. Of(tasks[i]) = {r} /\ r.id = tasks[i].target
  BY <1>1 DEF Waits
<1>3. {x \in records : x.id = tasks[i].target} = {r}
  BY <1>2 DEF RecordInv
<1>4. ASSUME NEW j \in Unfinished, j # i, r.client = tasks[j].key
      PROVE  FALSE
  <2>1. PICK s \in records : Waits(s, tasks[j])
    BY DEF QueueInv
  <2>2. s # r
    BY <1>1, <1>4, <2>1, OwnRecord
  <2>3. r \in Of(tasks[j])
    BY <1>4 DEF Of
  <2>4. QED
    BY <2>1, <2>2, <2>3 DEF Waits
<1>5. QED
  BY <1>1, <1>2, <1>3, <1>4

\* No task waits for a synced record, nor is it found by a key in the queue.
LEMMA NotInQueue ==
    ASSUME RecordInv, QueueInv, NEW r \in records, r.state = "synced", NEW i \in Unfinished
    PROVE  r.client # tasks[i].key /\ r.id # tasks[i].target
<1>1. PICK s \in records : Waits(s, tasks[i])
  BY DEF QueueInv
<1>2. s # r /\ Of(tasks[i]) = {s}
  BY <1>1 DEF Waits
<1>3. r.client # tasks[i].key
  BY <1>2 DEF Of
<1>4. QED
  BY <1>3, FreeRecord

Replaces(new) ==
    /\ records' = {x \in records : x.id # new.id} \union {new}
    /\ \A x \in records : x.client = new.client => x.id = new.id
    /\ new.client \in Id => new.client = new.id
    /\ \A i \in Unfinished : tasks[i].target # new.id => new.client # tasks[i].key

LEMMA Replaced ==
    ASSUME RecordInv, QueueInv, NEW new, Replaces(new)
    PROVE  /\ RecordInv'
           /\ \A i \in Unfinished : \A t : t = tasks[i] /\ t.target # new.id =>
                  \E r \in records' : Waits(r, t)'
<1>1. RecordInv'
  BY DEF Replaces, RecordInv
<1>2. ASSUME NEW i \in Unfinished, NEW t, t = tasks[i], t.target # new.id
      PROVE  \E r \in records' : Waits(r, t)'
  <2>1. PICK r \in records : Waits(r, t)
    BY <1>2 DEF QueueInv
  <2>2. Of(t) = {r} /\ r.id = t.target
    BY <2>1 DEF Waits
  <2>3. r \in records'
    BY <1>2, <2>2 DEF Replaces
  <2>4. \A x \in records' \ records : x.client # t.key /\ x.id # t.target
    BY <1>2 DEF Replaces
  <2>5. Of(t)' = {r}
    BY <2>2, <2>3, <2>4, OfKept
  <2>6. Waits(r, t)'
    BY <2>1, <2>5 DEF Waits
  <2>7. QED
    BY <2>3, <2>6
<1>3. QED
  BY <1>1, <1>2

\* Task t is queued behind the others, which are q now; the record it is about
\* has become new, and a task that was about it is done with.
Queued(q, t, new) ==
    /\ tasks' = Append(q, t) /\ q \in Seq(Task) /\ Len(q) = Len(tasks) /\ t \in Task
    /\ \A j \in DOMAIN tasks :
          /\ q[j].key = tasks[j].key /\ q[j].op = tasks[j].op
          /\ q[j].target = tasks[j].target /\ q[j].body = tasks[j].body
          /\ q[j].status = "pending" <=> tasks[j].status = "pending"
          /\ q[j].status # "synced" <=> tasks[j].status # "synced" /\ tasks[j].target # new.id
          /\ q[j].status = "synced" => tasks[j].status = "synced" \/ tasks[j].key \in given'
    /\ t.status = "pending" /\ t.key \in New(plan) \ New(plan')
    /\ new.state # "synced" /\ new.id = t.target /\ new.deleted = (t.op = "delete")
    /\ t.op # "delete" => new.body = t.body
    /\ new.client = t.key \/ (t.op = "delete" /\ \E x \in records : x.client = new.client)

LEMMA Queue ==
    ASSUME IInv, NEW q, NEW t, NEW new, Queued(q, t, new)
    PROVE  /\ tasks \in Seq(Task) /\ tasks' \in Seq(Task)
           /\ DOMAIN tasks' = DOMAIN tasks \union {Len(tasks) + 1}
           /\ Len(tasks) + 1 \notin DOMAIN tasks
           /\ \A j \in DOMAIN tasks : tasks'[j] = q[j] /\ j <= Len(tasks) + 1
           /\ tasks'[Len(tasks) + 1] = t
<1>1. tasks \in Seq(Task) /\ q \in Seq(Task) /\ Len(q) = Len(tasks) /\ t \in Task
      /\ tasks' = Append(q, t)
  BY DEF IInv, TypeOK, Queued
<1>2. /\ Len(tasks) \in Nat /\ DOMAIN tasks = 1 .. Len(tasks) /\ tasks' \in Seq(Task)
      /\ DOMAIN tasks' = 1 .. Len(tasks) + 1
      /\ \A j \in 1 .. Len(tasks) : tasks'[j] = q[j]
      /\ tasks'[Len(tasks) + 1] = t
  BY <1>1
<1>3. QED
  BY <1>1, <1>2

LEMMA QueuedRecords ==
    ASSUME IInv, NEW q, NEW t, NEW new, Queued(q, t, new), Replaces(new)
    PROVE  RecordInv' /\ QueueInv'
<1> DEFINE n == Len(tasks) + 1
<1>1. /\ DOMAIN tasks' = DOMAIN tasks \union {n} /\ n \notin DOMAIN tasks
      /\ \A j \in DOMAIN tasks : tasks'[j] = q[j]
      /\ tasks'[n] = t
  BY Queue
<1>2. /\ RecordInv'
      /\ \A i \in Unfinished : \A u : u = tasks[i] /\ u.target # new.id =>
             \E r \in records' : Waits(r, u)'
  BY Replaced DEF IInv
<1>3. Unfinished' = {j \in Unfinished : tasks[j].target # new.id} \union {n}
  BY <1>1 DEF Unfinished, Queued
<1>4. Waits(new, t)'
  <2>1. new \in records' /\ \A x \in records' : x.id = new.id \/ x.client = new.client => x = new
    BY DEF Replaces
  <2>2. \A x \in records : x.client # t.key
    BY DEF Queued, IInv, NewInv, Unused
  <2>3. Of(t)' = {new}
    <3>1. CASE new.client = t.key
      BY <2>1, <3>1 DEF Of
    <3>2. CASE new.client # t.key /\ t.op = "delete"
      <4>1. ~\E x \in records' : x.client = t.key
        BY <2>2, <3>2 DEF Replaces
      <4>2. {x \in records' : t.op = "delete" /\ x.id = t.target} = {new}
        BY <2>1, <3>2 DEF Queued
      <4>3. QED
        BY <4>1, <4>2 DEF Of
    <3>3. QED
      BY <3>1, <3>2 DEF Queued
  <2>4. QED
    BY <2>3 DEF Waits, Queued
<1>5. ASSUME NEW i \in Unfinished' PROVE \E r \in records' : Waits(r, tasks[i])'
  <2>1. CASE i = n
    <3>1. new \in records'
      BY DEF Replaces
    <3>2. Waits(new, tasks[i])'
      BY <1>1, <1>4, <2>1 DEF Waits, Of
    <3>3. QED
      BY <3>1, <3>2
  <2>2. CASE i # n
    <3>1. i \in Unfinished /\ tasks[i].target # new.id /\ i \in DOMAIN tasks
      BY <1>3, <2>2 DEF Unfinished
    <3>2. PICK u : u = tasks[i]
      OBVIOUS
    <3>3. PICK r \in records' : Waits(r, u)'
      BY <1>2, <3>1, <3>2
    <3>4. /\ u.key = tasks'[i].key /\ u.op = tasks'[i].op /\ u.target = tasks'[i].target
          /\ u.body = tasks'[i].body
      BY <1>1, <3>1, <3>2 DEF Queued
    <3>5. Waits(r, tasks[i])'
      BY <3>3, <3>4 DEF Waits, Of
    <3>6. QED
      BY <3>5
  <2>3. QED
    BY <2>1, <2>2
<1>6. \A i, j \in Unfinished' : tasks'[i].target = tasks'[j].target => i = j
  <2>1. \A i \in Unfinished' : i # n => /\ i \in Unfinished /\ tasks[i].target # new.id
                                        /\ tasks'[i].target = tasks[i].target
    BY <1>1, <1>3 DEF Unfinished, Queued
  <2>2. tasks'[n].target = new.id
    BY <1>1 DEF Queued
  <2>3. QED
    BY <2>1, <2>2 DEF IInv, QueueInv
<1>7. ASSUME NEW r \in records', r.state # "synced"
      PROVE  \E i \in Unfinished' : tasks'[i].target = r.id
  <2>1. CASE r = new
    BY <1>1, <1>3, <2>1 DEF Queued
  <2>2. CASE r # new
    <3>1. r \in records /\ r.id # new.id
      BY <2>2 DEF Replaces
    <3>2. PICK i \in Unfinished : tasks[i].target = r.id
      BY <1>7, <3>1 DEF IInv, QueueInv
    <3>3. i \in Unfinished' /\ tasks'[i].target = r.id
      BY <1>1, <1>3, <3>1, <3>2 DEF Unfinished, Queued
    <3>4. QED
      BY <3>3
  <2>3. QED
    BY <2>1, <2>2
<1>8. QED
  BY <1>2, <1>5, <1>6, <1>7 DEF QueueInv

LEMMA QueuedKeys ==
    ASSUME IInv, NEW q, NEW t, NEW new, Queued(q, t, new), Replaces(new), Shrinks,
           UNCHANGED <<server, tx, phase, attempt>>, given \subseteq given',
           new.id = Local(t.key) \/ \E x \in records : x.id = new.id
    PROVE  UsesInv' /\ NewInv' /\ SyncedInv' /\ PushInv'
<1> DEFINE n == Len(tasks) + 1
<1>1. /\ DOMAIN tasks' = DOMAIN tasks \union {n} /\ n \notin DOMAIN tasks
      /\ \A j \in DOMAIN tasks : tasks'[j] = q[j] /\ j <= n
      /\ tasks'[n] = t
  BY Queue
<1>2. UNCHANGED <<now, rows, receipts, feed, tx, phase, attempt>>
  BY DEF server
<1>3. /\ UsesInv /\ NewInv /\ New(plan') \subseteq New(plan)
      /\ t.key \in New(plan) \ New(plan')
  BY DEF IInv, Shrinks, Queued
<1>4. Uses' \subseteq Uses \union {<<t.key, t.op>>}
  <2>1. \A i \in DOMAIN tasks' : <<tasks'[i].key, tasks'[i].op>> \in Uses \union {<<t.key, t.op>>}
    BY <1>1 DEF Uses, Queued
  <2>2. QED
    BY <1>2, <2>1 DEF Uses, Underway
<1>5. \A i, j \in DOMAIN tasks' : tasks'[i].key = tasks'[j].key => i = j
  <2>1. ASSUME NEW i \in DOMAIN tasks
        PROVE  tasks'[i].key = tasks[i].key /\ tasks[i].key # t.key
    <3>1. tasks'[i].key = tasks[i].key
      BY <1>1 DEF Queued
    <3>2. <<tasks[i].key, tasks[i].op>> \in Uses
      BY DEF Uses
    <3>3. tasks[i].key # t.key
      BY <1>3, <3>2 DEF NewInv, Unused
    <3>4. QED
      BY <3>1, <3>3
  <2>2. QED
    BY <1>1, <1>3, <2>1 DEF UsesInv
<1>6. \A x \in New(plan') : x \notin receipts' /\ Unused(x)
  BY <1>2, <1>3 DEF NewInv, Unused
<1>7. \A p \in Uses' : p[2] = "create" /\ p[1] \in receipts' => rows'[p[1]].state # "none"
  BY <1>2, <1>3, <1>4 DEF UsesInv, NewInv, Unused
<1>8. \A r \in records' \ records, x \in New(plan') : r.client # x /\ r.id # Local(x)
  <2>1. \A r \in records' \ records : r = new
    BY DEF Replaces
  <2>2. ASSUME NEW x \in New(plan') PROVE new.client # x /\ new.id # Local(x)
    BY <1>3, <1>6 DEF Unused, Queued, Local
  <2>3. QED
    BY <2>1, <2>2
<1>9. UsesInv' /\ NewInv'
  BY <1>3, <1>4, <1>5, <1>6, <1>7, <1>8, KeysKept
<1>10. SyncedInv'
  BY <1>1, <1>2 DEF IInv, SyncedInv, Queued
<1>11. PushInv'
  <2>1. SUFFICES ASSUME phase = "wait"
                 PROVE  attempt \in Nat /\ \E i \in InState("pending")' : IsNext(i)' /\ Expects(i)'
    BY <1>2 DEF PushInv
  <2>2. PICK i \in InState("pending") : IsNext(i) /\ Expects(i) /\ attempt \in Nat
    BY <2>1 DEF IInv, PushInv
  <2>3. InState("pending")' = InState("pending") \union {n} /\ i \in DOMAIN tasks
    BY <1>1 DEF InState, Queued
  <2>4. IsNext(i)'
    BY <1>1, <2>2, <2>3 DEF IsNext
  <2>5. Expects(i)'
    BY <1>1, <1>2, <2>2, <2>3 DEF Expects, Queued
  <2>6. QED
    BY <2>2, <2>3, <2>4, <2>5
<1>12. QED
  BY <1>9, <1>10, <1>11

\* What the three ways to save have in common.
\* The user saves operation k, on a record that becomes new.
Saves(k, op, target, expected, new) ==
    /\ Saved(k, op) /\ target \in Id /\ expected \in Int /\ new \in Record
    /\ tasks' = Append(tasks, NewTask(k, op, target, expected, k))
    /\ Replaces(new) /\ \A i \in Unfinished : tasks[i].target # new.id
    /\ new.state # "synced" /\ new.id = target /\ new.deleted = (op = "delete")
    /\ op # "delete" => new.body = k
    /\ IF op = "create" THEN new.id = Local(k) ELSE \E x \in records : x.id = new.id
    /\ IF op = "delete" THEN \E x \in records : x.id = new.id /\ x.client = new.client
       ELSE new.client = k
    /\ new.time = Clock

LEMMA SavedQueue ==
    ASSUME IInv, NEW k, NEW op, NEW target, NEW expected, NEW new, Saves(k, op, target, expected, new)
    PROVE  /\ plan' = [plan EXCEPT !.mine = @ \ {<<k, op>>}]
           /\ asked' \in {asked, asked \union {"run"}}
           /\ UNCHANGED <<server, tx, run, listed, dialog, missed, given>>
           /\ Shrinks
           /\ \E t : /\ Queued(tasks, t, new)
                    /\ t.key = k /\ t.op = op /\ t.target = target
<1>1. /\ <<k, op>> \in plan.mine /\ plan' = [plan EXCEPT !.mine = @ \ {<<k, op>>}]
      /\ asked' \in {asked, asked \union {"run"}}
      /\ UNCHANGED <<server, tx, run, listed, dialog, missed, given>>
  BY DEF Saves, Saved
<1>2. Shrinks /\ k \in New(plan) \ New(plan') /\ k \in Key /\ op \in Op
  BY <1>1, PlanTakes DEF IInv
<1>3. PICK t : t = NewTask(k, op, target, expected, k)
  OBVIOUS
<1>4. /\ t \in Task /\ t.key = k /\ t.op = op /\ t.target = target /\ t.body = k
      /\ t.status = "pending"
  BY <1>2, <1>3 DEF NewTask, Task, Saves
<1>5. Queued(tasks, t, new)
  <2>1. \A j \in DOMAIN tasks : tasks[j].status # "synced" => tasks[j].target # new.id
    BY DEF Unfinished, Saves
  <2>2. tasks \in Seq(Task)
    BY DEF IInv, TypeOK
  <2>3. new.client = t.key \/ (t.op = "delete" /\ \E x \in records : x.client = new.client)
    BY <1>4 DEF Saves
  <2>4. QED
    BY <1>2, <1>3, <1>4, <2>1, <2>2, <2>3 DEF Queued, Saves
<1>6. QED
  BY <1>1, <1>2, <1>4, <1>5

LEMMA SavedStep ==
    ASSUME IInv, NEW k, NEW op, NEW target, NEW expected, NEW new, Saves(k, op, target, expected, new)
    PROVE  IInv'
<1>1. /\ asked' \in {asked, asked \union {"run"}} /\ Shrinks
      /\ UNCHANGED <<server, tx, run, listed, dialog, missed, given>>
  BY SavedQueue
<1>2. PICK t : Queued(tasks, t, new) /\ t.key = k /\ t.op = op /\ t.target = target
  BY SavedQueue
<1>3. Replaces(new)
  BY DEF Saves
<1>4. new.id = Local(t.key) \/ \E x \in records : x.id = new.id
  BY <1>2 DEF Saves
<1>5. RecordInv' /\ QueueInv'
  BY <1>2, <1>3, QueuedRecords
<1>6. UsesInv' /\ NewInv' /\ SyncedInv' /\ PushInv'
  BY <1>1, <1>2, <1>3, <1>4, QueuedKeys DEF run
<1>7. /\ DOMAIN tasks \subseteq DOMAIN tasks' /\ tasks' \in Seq(Task)
      /\ \A j \in DOMAIN tasks : tasks'[j] = tasks[j]
  BY <1>2, Queue
<1>8. ReadInv'
  BY <1>1, <1>7 DEF IInv, ReadInv, server, run
<1>9. RunTypes
  BY <1>1, RunTypesNow DEF RunTypes, run
<1>10. records' \subseteq Record /\ given' \subseteq Key
  BY <1>1 DEF IInv, TypeOK, Replaces, Saves
<1>11. QED
  BY <1>1, <1>5, <1>6, <1>7, <1>8, <1>9, <1>10, Writing

LEMMA CreateSaves ==
    ASSUME IInv, NEW k \in Key, SaveCreate(k)
    PROVE  \E new : Saves(k, "create", Local(k), 0, new)
<1>1. PICK new : new = [id |-> Local(k), client |-> k, state |-> "pending",
                        time |-> Clock, body |-> k, deleted |-> FALSE]
  OBVIOUS
<1>2. /\ Saved(k, "create") /\ records' = records \union {new}
      /\ tasks' = Append(tasks, NewTask(k, "create", Local(k), 0, k))
  BY <1>1 DEF SaveCreate
<1>3. Unused(k)
  BY <1>2, PlanTakes DEF Saved, IInv, NewInv
<1>4. Local(k) \in Id /\ Clock \in Int
  BY DEF IInv, TypeOK, Plan, Clock, Local, Id
<1>5. /\ new \in Record /\ new.id = Local(k) /\ new.client = k /\ new.state # "synced"
      /\ new.deleted = FALSE /\ new.body = k /\ new.time = Clock
  BY <1>1, <1>4 DEF Record
<1>6. \A i \in Unfinished : tasks[i].target # Local(k)
  BY <1>3 DEF IInv, QueueInv, Waits, Unused
<1>7. \A i \in Unfinished : tasks[i].key # k
  <2>1. \A i \in Unfinished : <<tasks[i].key, tasks[i].op>> \in Uses
    BY DEF Uses, Unfinished
  <2>2. QED
    BY <1>3, <2>1 DEF Unused
<1>8. Replaces(new)
  <2>1. records' = {x \in records : x.id # new.id} \union {new}
    BY <1>2, <1>3, <1>5 DEF Unused
  <2>2. new.client \notin Id
    BY <1>5, GroupSyncAssumption
  <2>3. QED
    BY <1>3, <1>5, <1>7, <2>1, <2>2 DEF Replaces, Unused
<1>9. PICK op : op = "create"
  OBVIOUS
<1>10. PICK target \in Id : target = Local(k)
  BY <1>4
<1>11. PICK expected \in Int : expected = 0
  OBVIOUS
<1>12. Saves(k, op, target, expected, new)
  BY <1>2, <1>5, <1>6, <1>8, <1>9, <1>10, <1>11 DEF Saves
<1>13. QED
  BY <1>9, <1>10, <1>11, <1>12

LEMMA UpdateSaves ==
    ASSUME IInv, NEW k \in Key, NEW r \in Shown, SaveUpdate(k, r)
    PROVE  \E new : Saves(k, "update", r.id, r.time, new)
<1>1. PICK new : new = [r EXCEPT !.client = k, !.state = "pending", !.time = Clock, !.body = k]
  OBVIOUS
<1>2. /\ Saved(k, "update") /\ records' = (records \ {r}) \union {new} /\ r.state = "synced"
      /\ tasks' = Append(tasks, NewTask(k, "update", r.id, r.time, k))
  BY <1>1 DEF SaveUpdate
<1>3. Unused(k)
  BY <1>2, PlanTakes DEF Saved, IInv, NewInv
<1>4. r \in records /\ r \in Record /\ r.deleted = FALSE /\ Clock \in Int
  BY DEF IInv, TypeOK, Plan, Clock, Shown, Record
<1>5. r.id \in Id /\ r.time \in Int
  BY <1>4 DEF Record
<1>6. /\ new \in Record /\ new.id = r.id /\ new.client = k /\ new.state # "synced"
      /\ new.deleted = FALSE /\ new.body = k /\ new.time = Clock
  BY <1>1, <1>4 DEF Record
<1>7. \A i \in Unfinished : tasks[i].target # r.id
  BY <1>2, <1>4, NotInQueue DEF IInv
<1>8. \A i \in Unfinished : tasks[i].key # k
  <2>1. \A i \in Unfinished : <<tasks[i].key, tasks[i].op>> \in Uses
    BY DEF Uses, Unfinished
  <2>2. QED
    BY <1>3, <2>1 DEF Unused
<1>9. Replaces(new)
  <2>1. records' = {x \in records : x.id # new.id} \union {new}
    BY <1>2, <1>4, <1>6 DEF IInv, RecordInv
  <2>2. new.client \notin Id
    BY <1>6, GroupSyncAssumption
  <2>3. QED
    BY <1>3, <1>6, <1>8, <2>1, <2>2 DEF Replaces, Unused
<1>10. QED
  BY <1>2, <1>4, <1>5, <1>6, <1>7, <1>9 DEF Saves

LEMMA DeleteSaves ==
    ASSUME IInv, NEW k \in Key, NEW r \in Shown, SaveDelete(k, r)
    PROVE  \E new : Saves(k, "delete", r.id, r.time, new)
<1>1. PICK new : new = [r EXCEPT !.state = "pendingDelete", !.time = Clock, !.deleted = TRUE]
  OBVIOUS
<1>2. /\ Saved(k, "delete") /\ records' = (records \ {r}) \union {new} /\ r.state = "synced"
      /\ tasks' = Append(tasks, NewTask(k, "delete", r.id, r.time, k))
  BY <1>1 DEF SaveDelete
<1>3. r \in records /\ r \in Record /\ Clock \in Int
  BY DEF IInv, TypeOK, Plan, Clock, Shown, Record
<1>4. r.id \in Id /\ r.time \in Int
  BY <1>3 DEF Record
<1>5. /\ new \in Record /\ new.id = r.id /\ new.client = r.client /\ new.state # "synced"
      /\ new.deleted = TRUE /\ new.time = Clock
  BY <1>1, <1>3 DEF Record
<1>6. \A i \in Unfinished : tasks[i].target # r.id /\ tasks[i].key # r.client
  BY <1>2, <1>3, NotInQueue DEF IInv
<1>7. Replaces(new)
  BY <1>2, <1>3, <1>5, <1>6 DEF IInv, RecordInv, Replaces
<1>8. QED
  BY <1>2, <1>3, <1>4, <1>5, <1>6, <1>7 DEF Saves


LEMMA SaveSaves ==
    ASSUME IInv, NEW k \in Key, SaveCreate(k) \/ \E r \in Shown : SaveUpdate(k, r) \/ SaveDelete(k, r)
    PROVE  \E op, target, expected, new : Saves(k, op, target, expected, new)
  BY CreateSaves, UpdateSaves, DeleteSaves

LEMMA StepSave ==
    ASSUME IInv, NEW k \in Key, SaveCreate(k) \/ \E r \in Shown : SaveUpdate(k, r) \/ SaveDelete(k, r)
    PROVE  IInv'
  BY SaveSaves, SavedStep

\* The conflict of the dialog is in the queue, and its expense is one record.
LEMMA Conflict ==
    ASSUME IInv, dialog # None, tasks[dialog.task].status = "conflict"
    PROVE  /\ dialog.task \in Unfinished /\ dialog.task \in DOMAIN tasks
           /\ dialog.row \in Row /\ dialog.row.time \in Int
           /\ dialog.row.state = "live" => /\ tasks[dialog.task].target[1] = "server"
                                           /\ dialog.row.body \in Key
<1>1. dialog \in [task: Nat, row: Row] /\ dialog.task \in DOMAIN tasks
  BY DEF IInv, TypeOK, ReadInv
<1>2. dialog.row \in Row /\ dialog.row.time \in Int
  BY <1>1 DEF Row
<1>3. dialog.task \in Unfinished
  BY <1>1 DEF Unfinished
<1>4. QED
  BY <1>1, <1>2, <1>3 DEF IInv, ReadInv

LEMMA KeptLocal ==
    ASSUME IInv, NEW n \in Key, KeepLocal(n)
    PROVE  /\ dialog # None /\ dialog.row.state = "live"
           /\ plan' = [plan EXCEPT !.spare = @ \ {n}] /\ Shrinks
           /\ asked' = asked \union {"run"} /\ dialog' = None
           /\ UNCHANGED <<server, tx, run, listed, missed>>
           /\ \E i, q, t, new :
                /\ i = dialog.task /\ i \in Unfinished /\ i \in DOMAIN tasks
                /\ tasks[i].status = "conflict" /\ tasks[i].key \in Key
                /\ given' = given \union {tasks[i].key}
                /\ Queued(q, t, new) /\ Replaces(new) /\ new \in Record
                /\ t.key = n /\ t.op = tasks[i].op /\ t.target = tasks[i].target
                /\ new.client = n /\ new.id = tasks[i].target
                /\ \E x \in records : x.id = new.id /\ new.time \in {x.time, Clock}
                /\ \A j \in DOMAIN tasks : q[j].status \in {tasks[j].status, "synced"}
<1>1. PICK i, old : i = dialog.task /\ old = tasks[i]
  OBVIOUS
<1>2. dialog # None /\ old.status = "conflict" /\ n \in plan.spare
  BY <1>1 DEF KeepLocal
<1>3. /\ i \in Unfinished /\ i \in DOMAIN tasks /\ dialog.row.time \in Int
  BY <1>1, <1>2, Conflict
<1>4. PICK r \in records : /\ Waits(r, old)
                           /\ {x \in records : x.id = old.target} = {r}
                           /\ \A j \in Unfinished : j # i => r.client # tasks[j].key
  BY <1>1, <1>3, TheRecord DEF IInv
<1>5. PICK time : time = IF old.op = "delete" THEN Clock ELSE r.time
  OBVIOUS
<1>6. PICK new : new = [r EXCEPT !.client = n, !.state = PendingState(old), !.time = time]
  OBVIOUS
<1>7. /\ records' = (records \ {r}) \union {new}
      /\ tasks' = Append([tasks EXCEPT ![i].status = "synced"],
                         NewTask(n, old.op, old.target, dialog.row.time, old.body))
      /\ given' = given \union {old.key}
      /\ plan' = [plan EXCEPT !.spare = @ \ {n}]
      /\ asked' = asked \union {"run"} /\ dialog' = None
      /\ UNCHANGED <<server, tx, run, listed, missed>>
  <2>1. PICK found :
          /\ found = {x \in records : x.id = tasks[dialog.task].target}
          /\ records' = (records \ found) \union
               {[x EXCEPT !.client = n, !.state = PendingState(tasks[dialog.task]),
                          !.time = IF tasks[dialog.task].op = "delete" THEN Clock ELSE x.time]
                  : x \in found}
    BY Zenon DEF KeepLocal
  <2>2. found = {r}
    BY <1>1, <1>4, <2>1
  <2>3. \A x \in found :
          [x EXCEPT !.client = n, !.state = PendingState(tasks[dialog.task]),
                    !.time = IF tasks[dialog.task].op = "delete" THEN Clock ELSE x.time] = new
    BY <1>1, <1>5, <1>6, <2>2
  <2>4. {[x EXCEPT !.client = n, !.state = PendingState(tasks[dialog.task]),
                   !.time = IF tasks[dialog.task].op = "delete" THEN Clock ELSE x.time]
           : x \in found} = {new}
    BY <2>2, <2>3, Zenon
  <2>5. records' = (records \ {r}) \union {new}
    BY <2>1, <2>2, <2>4, Zenon
  <2>6. QED
    BY <1>1, <2>5 DEF KeepLocal
<1>8. Shrinks /\ n \in New(plan) \ New(plan')
  BY <1>2, <1>7, PlanSpares DEF IInv
<1>9. /\ r \in Record /\ Clock \in Int /\ time \in Int
  <2>1. r \in Record /\ Clock \in Int
    BY DEF IInv, TypeOK, Plan, Clock
  <2>2. QED
    BY <1>5, <2>1 DEF Record
<1>10. /\ new \in Record /\ new.id = r.id /\ new.client = n /\ new.state # "synced"
       /\ new.deleted = r.deleted /\ new.body = r.body /\ new.time \in {r.time, Clock}
  <2>1. PendingState(old) \in {"pending", "pendingDelete"}
    BY DEF PendingState
  <2>2. QED
    BY <1>5, <1>6, <1>9, <2>1 DEF Record
<1>11. /\ old \in Task /\ old.key \in Key /\ old.op \in Op /\ old.target \in Id /\ old.body \in Key
  <2>1. old \in Task
    BY <1>1, <1>3, TaskTypes
  <2>2. QED
    BY <2>1 DEF Task
<1>12. PICK t : t = NewTask(n, old.op, old.target, dialog.row.time, old.body)
  OBVIOUS
<1>13. /\ t \in Task /\ t.key = n /\ t.op = old.op /\ t.target = old.target /\ t.body = old.body
       /\ t.status = "pending"
  BY <1>3, <1>11, <1>12 DEF NewTask, Task
<1>14. PICK q : q = [tasks EXCEPT ![i].status = "synced"]
  OBVIOUS
<1>15. PICK u : u = [old EXCEPT !.status = "synced"]
  OBVIOUS
<1>16. /\ u \in Task /\ u.key = old.key /\ u.op = old.op /\ u.target = old.target
       /\ u.body = old.body /\ u.status = "synced"
  BY <1>11, <1>15 DEF Task
<1>17. /\ tasks \in Seq(Task) /\ q \in Seq(Task) /\ Len(q) = Len(tasks) /\ q[i] = u
       /\ \A j \in DOMAIN tasks : j # i => q[j] = tasks[j]
  <2>1. tasks \in Seq(Task)
    BY DEF IInv, TypeOK
  <2>2. q = [tasks EXCEPT ![i] = u]
    BY <1>1, <1>14, <1>15, <2>1
  <2>3. QED
    BY <1>3, <1>16, <2>1, <2>2
<1>18. new.id = old.target /\ r.deleted = (old.op = "delete") /\ (old.op # "delete" => r.body = old.body)
  BY <1>4, <1>10 DEF Waits
<1>19. Queued(q, t, new)
  <2>1. \A j \in DOMAIN tasks :
          tasks[j].status # "synced" /\ j # i => tasks[j].target # new.id
    BY <1>1, <1>3, <1>18 DEF IInv, QueueInv, Unfinished
  <2>2. ASSUME NEW j \in DOMAIN tasks
        PROVE  /\ q[j].key = tasks[j].key /\ q[j].op = tasks[j].op
               /\ q[j].target = tasks[j].target /\ q[j].body = tasks[j].body
               /\ q[j].status = "pending" <=> tasks[j].status = "pending"
               /\ q[j].status # "synced" <=> tasks[j].status # "synced" /\ tasks[j].target # new.id
               /\ q[j].status = "synced" => tasks[j].status = "synced" \/ tasks[j].key \in given'
    <3>1. CASE j = i
      BY <1>1, <1>2, <1>7, <1>16, <1>17, <1>18, <3>1
    <3>2. CASE j # i
      BY <1>17, <2>1, <3>2
    <3>3. QED
      BY <3>1, <3>2
  <2>3. QED
    BY <1>7, <1>8, <1>10, <1>12, <1>13, <1>14, <1>17, <1>18, <2>2 DEF Queued
<1>20. Replaces(new)
  <2>1. records' = {x \in records : x.id # new.id} \union {new}
    BY <1>4, <1>7, <1>18
  <2>2. Unused(n) /\ new.client \notin Id
    BY <1>8, <1>10, GroupSyncAssumption DEF IInv, NewInv
  <2>3. \A j \in Unfinished : tasks[j].key # n
    <3>1. \A j \in Unfinished : <<tasks[j].key, tasks[j].op>> \in Uses
      BY DEF Uses, Unfinished
    <3>2. QED
      BY <2>2, <3>1 DEF Unused
  <2>4. QED
    BY <1>10, <2>1, <2>2, <2>3 DEF Replaces, Unused
<1>21. \A j \in DOMAIN tasks : q[j].status \in {tasks[j].status, "synced"}
  BY <1>16, <1>17
<1>22. dialog.row.state = "live"
  BY DEF KeepLocal
<1>23. \E x \in records : x.id = new.id /\ new.time \in {x.time, Clock}
  BY <1>10
<1>24. QED
  BY <1>1, <1>2, <1>3, <1>7, <1>8, <1>10, <1>11, <1>13, <1>18, <1>19, <1>20, <1>21, <1>22, <1>23

LEMMA StepKeepLocal == ASSUME IInv, NEW n \in Key, KeepLocal(n) PROVE IInv'
<1>1. /\ dialog' = None /\ asked' = asked \union {"run"} /\ Shrinks
      /\ UNCHANGED <<server, tx, run, listed, missed>>
  BY KeptLocal
<1>2. PICK i, q, t, new :
        /\ tasks[i].key \in Key /\ given' = given \union {tasks[i].key}
        /\ Queued(q, t, new) /\ Replaces(new) /\ new \in Record
        /\ \E x \in records : x.id = new.id
  BY KeptLocal
<1>3. RecordInv' /\ QueueInv'
  BY <1>2, QueuedRecords
<1>4. UsesInv' /\ NewInv' /\ SyncedInv' /\ PushInv'
  <2>1. given \subseteq given' /\ UNCHANGED <<server, tx, phase, attempt>>
    BY <1>1, <1>2 DEF run
  <2>2. QED
    BY <1>1, <1>2, <2>1, QueuedKeys
<1>5. tasks' \in Seq(Task)
  BY <1>2, Queue
<1>6. ReadInv'
  BY <1>1 DEF IInv, ReadInv, server, run
<1>7. RunTypes
  BY <1>1, RunTypesNow DEF RunTypes, run
<1>8. records' \subseteq Record /\ given' \subseteq Key
  BY <1>2 DEF IInv, TypeOK, Replaces
<1>9. QED
  BY <1>1, <1>3, <1>4, <1>5, <1>6, <1>7, <1>8, Writing

\* The server's expense takes the place of the record, or marks its end.
LEMMA UsedServer ==
    ASSUME IInv, UseServer, NEW i, i = dialog.task
    PROVE  \E new \in Record :
             /\ Replaces(new) /\ new.state = "synced" /\ new.id = tasks[i].target
             /\ new.client = new.id \/ \E x \in records : x.client = new.client
             /\ \E x \in records : x.id = new.id
             /\ IF dialog.row.state = "live"
                THEN /\ ~new.deleted /\ new.client = new.id
                     /\ new.time = dialog.row.time /\ new.body = dialog.row.body
                ELSE /\ new.deleted /\ new.time = Clock
                     /\ \E x \in records : x.id = new.id /\ x.client = new.client
<1>1. dialog # None /\ tasks[i].status = "conflict"
  BY DEF UseServer
<1>2. /\ i \in Unfinished /\ i \in DOMAIN tasks /\ dialog.row.time \in Int
      /\ dialog.row.state = "live" => tasks[i].target[1] = "server" /\ dialog.row.body \in Key
  BY <1>1, Conflict
<1>3. PICK r \in records : /\ Of(tasks[i]) = {r} /\ r.id = tasks[i].target
                           /\ {x \in records : x.id = tasks[i].target} = {r}
                           /\ \A j \in Unfinished : j # i => r.client # tasks[j].key
  BY <1>2, TheRecord DEF IInv, Waits
<1>4. PICK k : k = tasks[i].target[2]
  OBVIOUS
<1>5. PICK snap, gone : /\ snap = Snapshot(k, Remote(k), dialog.row.time, dialog.row.body)
                        /\ gone = [r EXCEPT !.state = "synced", !.deleted = TRUE, !.time = Clock]
  OBVIOUS
<1>6. PICK new : new = IF dialog.row.state = "live" THEN snap ELSE gone
  OBVIOUS
<1>7. records' = (records \ {r}) \union {new}
  <2>1. PICK found :
          /\ found = Of(tasks[i])
          /\ records' = (records \ found) \union
               (IF dialog.row.state = "live" THEN {snap}
                ELSE {[x EXCEPT !.state = "synced", !.deleted = TRUE, !.time = Clock] : x \in found})
    BY <1>4, <1>5 DEF UseServer
  <2>2. found = {r}
    BY <1>3, <2>1
  <2>3. \A x \in found : [x EXCEPT !.state = "synced", !.deleted = TRUE, !.time = Clock] = gone
    BY <1>5, <2>2
  <2>4. {[x EXCEPT !.state = "synced", !.deleted = TRUE, !.time = Clock] : x \in found} = {gone}
    BY <2>2, <2>3, Zenon
  <2>5. QED
    BY <1>6, <2>1, <2>2, <2>4, Zenon
<1>8. r \in Record /\ Clock \in Int /\ tasks[i].target \in Id /\ k \in Key
  <2>1. r \in Record /\ Clock \in Int
    BY DEF IInv, TypeOK, Plan, Clock
  <2>2. tasks[i].target \in Id
    BY <1>2, TaskTypes
  <2>3. QED
    BY <1>4, <2>1, <2>2 DEF Id
<1>9. CASE dialog.row.state = "live"
  <2>1. Remote(k) \in Id /\ tasks[i].target = Remote(k)
    BY <1>2, <1>4, <1>8, <1>9 DEF Remote, Id
  <2>2. /\ snap \in Record /\ snap.id = Remote(k) /\ snap.client = Remote(k)
        /\ snap.state = "synced"
    BY <1>2, <1>5, <1>8, <1>9, <2>1, SnapshotType
  <2>3. ~snap.deleted /\ snap.time = dialog.row.time /\ snap.body = dialog.row.body
    BY <1>5 DEF Snapshot
  <2>4. new = snap
    BY <1>6, <1>9
  <2>5. Replaces(new)
    <3>1. records' = {x \in records : x.id # new.id} \union {new}
      BY <1>3, <1>7, <2>1, <2>2, <2>4
    <3>2. \A x \in records : x.client = new.client => x.id = new.id
      BY <2>1, <2>2, <2>4 DEF IInv, RecordInv
    <3>3. \A j \in Unfinished : new.client # tasks[j].key
      <4>1. \A j \in Unfinished : tasks[j].key \in Key
        BY TaskTypes DEF Unfinished
      <4>2. QED
        BY <2>1, <2>2, <2>4, <4>1, GroupSyncAssumption
    <3>4. QED
      BY <2>2, <2>4, <3>1, <3>2, <3>3 DEF Replaces
  <2>6. QED
    BY <1>3, <1>9, <2>1, <2>2, <2>3, <2>4, <2>5
<1>10. CASE dialog.row.state # "live"
  <2>1. new = gone
    BY <1>6, <1>10
  <2>2. /\ new \in Record /\ new.id = r.id /\ new.client = r.client /\ new.state = "synced"
        /\ new.deleted = TRUE /\ new.time = Clock
    BY <1>5, <1>8, <2>1 DEF Record
  <2>3. Replaces(new)
    <3>1. records' = {x \in records : x.id # new.id} \union {new}
      BY <1>3, <1>7, <2>2
    <3>2. \A j \in Unfinished : tasks[j].target # new.id => new.client # tasks[j].key
      BY <1>3, <2>2
    <3>3. QED
      BY <2>2, <3>1, <3>2 DEF Replaces, IInv, RecordInv
  <2>4. QED
    BY <1>3, <1>10, <2>2, <2>3
<1>11. QED
  BY <1>9, <1>10

LEMMA StepUseServer == ASSUME IInv, UseServer PROVE IInv'
<1>1. PICK i, old : i = dialog.task /\ old = tasks[i]
  OBVIOUS
<1>2. /\ dialog # None /\ old.status = "conflict"
      /\ tasks' = [tasks EXCEPT ![i].status = "synced"]
      /\ given' = given \union {old.key}
      /\ asked' = asked \union {"run"} /\ dialog' = None
      /\ missed' \in {missed, missed \union {old.target[2]}}
      /\ UNCHANGED <<plan, server, tx, run, listed>>
  BY <1>1, Zenon DEF UseServer
<1>3. PICK new \in Record :
         /\ Replaces(new) /\ new.state = "synced" /\ new.id = old.target
         /\ new.client = new.id \/ \E x \in records : x.client = new.client
         /\ \E x \in records : x.id = new.id
  BY <1>1, UsedServer
<1>4. i \in Unfinished /\ i \in DOMAIN tasks /\ tasks \in Seq(Task)
  BY <1>1, <1>2, Conflict DEF IInv, TypeOK
<1>5. old \in Task /\ old.key \in Key /\ old.target[2] \in Key
  <2>1. old \in Task
    BY <1>1, <1>4, TaskTypes
  <2>2. QED
    BY <2>1 DEF Task, Id
<1>6. PICK u : u = [old EXCEPT !.status = "synced"]
  OBVIOUS
<1>7. /\ u \in Task /\ u.key = old.key /\ u.op = old.op /\ u.target = old.target
      /\ u.body = old.body /\ u.status = "synced"
  BY <1>5, <1>6 DEF Task
<1>8. /\ tasks' \in Seq(Task) /\ DOMAIN tasks' = DOMAIN tasks /\ tasks'[i] = u
      /\ \A j \in DOMAIN tasks : j # i => tasks'[j] = tasks[j]
  <2>1. tasks' = [tasks EXCEPT ![i] = u]
    BY <1>1, <1>2, <1>4, <1>6
  <2>2. QED
    BY <1>4, <1>7, <2>1
<1>9. SameTasks
  BY <1>1, <1>7, <1>8 DEF SameTasks
<1>10. Unfinished' = Unfinished \ {i} /\ InState("pending")' = InState("pending")
  BY <1>1, <1>2, <1>7, <1>8 DEF Unfinished, InState
<1>11. Shrinks /\ RunTypes
  BY <1>2, <1>5, PlanSame, RunTypesNow DEF RunTypes, run, IInv
<1>12. RecordInv' /\ \A j \in Unfinished : \A t : t = tasks[j] /\ t.target # new.id =>
                         \E r \in records' : Waits(r, t)'
  BY <1>3, Replaced DEF IInv
<1>13. QueueInv'
  <2>1. ASSUME NEW j \in Unfinished' PROVE \E r \in records' : Waits(r, tasks[j])'
    <3>1. j \in Unfinished /\ j # i /\ j \in DOMAIN tasks
      BY <1>10 DEF Unfinished
    <3>2. PICK t : t = tasks[j]
      OBVIOUS
    <3>3. t.target # new.id
      BY <1>1, <1>3, <1>4, <3>1, <3>2 DEF IInv, QueueInv
    <3>4. PICK r \in records' : Waits(r, t)'
      BY <1>12, <3>1, <3>2, <3>3
    <3>5. Waits(r, tasks[j])'
      BY <1>8, <3>1, <3>2, <3>4 DEF Waits, Of
    <3>6. QED
      BY <3>5
  <2>2. \A j, l \in Unfinished' : tasks'[j].target = tasks'[l].target => j = l
    BY <1>8, <1>10 DEF IInv, QueueInv, Unfinished
  <2>3. ASSUME NEW r \in records', r.state # "synced"
        PROVE  \E j \in Unfinished' : tasks'[j].target = r.id
    <3>1. r \in records /\ r.id # new.id
      BY <1>3, <2>3 DEF Replaces
    <3>2. PICK j \in Unfinished : tasks[j].target = r.id
      BY <2>3, <3>1 DEF IInv, QueueInv
    <3>3. j # i
      BY <1>1, <1>3, <3>1, <3>2
    <3>4. QED
      BY <1>8, <1>10, <3>2, <3>3 DEF Unfinished
  <2>4. QED
    BY <2>1, <2>2, <2>3 DEF QueueInv
<1>14. UsesInv' /\ NewInv'
  <2>1. UNCHANGED <<now, rows, receipts, feed, tx, plan>>
    BY <1>2 DEF server
  <2>2. Uses' = Uses
    BY <1>9, <2>1 DEF Uses, Underway, SameTasks
  <2>3. UsesInv'
    BY <1>9, <2>1, <2>2 DEF IInv, UsesInv, SameTasks
  <2>4. ASSUME NEW x \in New(plan') PROVE Unused(x)'
    <3>1. Unused(x) /\ x \in Key
      BY <2>1 DEF IInv, NewInv, New, TypeOK, Plan
    <3>2. new.client # x /\ new.id # Local(x)
      BY <1>3, <3>1, GroupSyncAssumption DEF Unused, Record
    <3>3. QED
      BY <1>3, <2>1, <2>2, <3>1, <3>2 DEF Unused, Replaces
  <2>5. QED
    BY <2>3, <2>4 DEF NewInv
<1>15. SyncedInv'
  BY <1>1, <1>2, <1>7, <1>8 DEF IInv, SyncedInv, server
<1>16. PushInv'
  BY <1>2, <1>9, <1>10 DEF IInv, PushInv, IsNext, Expects, SameTasks, InState, run, server
<1>17. ReadInv'
  BY <1>2, <1>9 DEF IInv, ReadInv, server, run
<1>18. records' \subseteq Record /\ given' \subseteq Key
  BY <1>2, <1>3, <1>5 DEF IInv, TypeOK, Replaces
<1>19. QED
  BY <1>2, <1>8, <1>11, <1>12, <1>13, <1>14, <1>15, <1>16, <1>17, <1>18, Writing

-----------------------------------------------------------------------------
(* Steps of the coordinator that mark tasks and their records.             *)

\* The pushes are what they were, but for some that have ended or moved.
TxMoves ==
    /\ tx' \in [Slot -> Tx]
    /\ \A s \in Slot : \/ tx'[s].stage \in {"none", "answered"}
                       \/ \E t \in Slot : tx'[s] = tx[t]

\* Records and tasks keep their names, and no answer is waited for.
Marks ==
    /\ UNCHANGED <<server, given>> /\ Shrinks /\ RunTypes /\ TxMoves
    /\ phase' # "wait" /\ SameTasks /\ tasks' \in Seq(Task) /\ records' \subseteq Record
    /\ \E f : Renewed(f)

LEMMA Marked ==
    ASSUME IInv, Marks, RecordInv', QueueInv', ReadInv', SyncedInv'
    PROVE  IInv'
<1>1. UNCHANGED <<now, rows, receipts, feed, drawn, given>>
  BY DEF Marks, server
<1>2. TypeOK'
  BY <1>1 DEF IInv, TypeOK, Marks, Shrinks, RunTypes, TxMoves
<1>3. TxInv'
  <2>1. ASSUME NEW s \in Slot PROVE TxOk(tx[s])'
    <3>1. CASE tx'[s].stage \in {"none", "answered"}
      BY <3>1 DEF TxOk, Busy
    <3>2. CASE \E t \in Slot : tx'[s] = tx[t]
      BY <1>1, <3>2 DEF IInv, TxInv, TxOk
    <3>3. QED
      BY <3>1, <3>2 DEF Marks, TxMoves
  <2>2. QED
    BY <2>1 DEF TxInv
<1>4. Uses' \subseteq Uses
  <2>1. \A i \in DOMAIN tasks' : <<tasks'[i].key, tasks'[i].op>> \in Uses
    BY DEF Marks, SameTasks, Uses
  <2>2. ASSUME NEW s \in Slot, tx'[s].stage \in Busy
        PROVE  <<tx'[s].wire.key, tx'[s].wire.op>> \in Uses
    <3>1. PICK t \in Slot : tx'[s] = tx[t]
      BY <2>2 DEF Marks, TxMoves, Busy
    <3>2. QED
      BY <2>2, <3>1 DEF Uses, Underway
  <2>3. \A c \in feed' : <<c.client, c.op>> \in Uses
    BY <1>1 DEF Uses
  <2>4. QED
    BY <2>1, <2>2, <2>3 DEF Uses, Underway
<1>5. UsesInv' /\ NewInv'
  <2>1. UsesInv /\ NewInv /\ New(plan') \subseteq New(plan)
    BY DEF IInv, Marks, Shrinks
  <2>2. UsesInv'
    BY <1>1, <1>4, <2>1 DEF UsesInv, Marks, SameTasks
  <2>3. \A r \in records', x \in New(plan') : r.client # x /\ r.id # Local(x)
    BY OldRecords DEF Marks
  <2>4. ASSUME NEW x \in New(plan') PROVE Unused(x)'
    BY <1>1, <1>4, <2>1, <2>3 DEF NewInv, Unused, Local
  <2>5. QED
    BY <2>2, <2>4 DEF NewInv
<1>6. RowInv' /\ PushInv'
  BY <1>1 DEF IInv, RowInv, PushInv, Marks
<1>7. QED
  BY <1>2, <1>3, <1>5, <1>6 DEF IInv, Marks, Shrinks

LEMMA Unchanging ==
    ASSUME UNCHANGED page, phase' \in {phase, "push"},
           UNCHANGED <<server, listed, dialog>>, SameTasks, ReadInv
    PROVE  ReadInv'
  BY DEF ReadInv, server, SameTasks

\* The record of task i takes state, the others stay.
Remarks(i, state) ==
    \E f : \E r \in records :
        /\ Renewed(f) /\ Waits(r, tasks[i])
        /\ f[r].state = state /\ f[r].deleted = r.deleted
        /\ f[r].body = r.body /\ f[r].time = r.time
        /\ \A x \in records : x # r => f[x] = x

\* Mark of one task in the queue.
LEMMA Marking ==
    ASSUME IInv, NEW i \in Unfinished, NEW t \in Task, NEW state, Mark(i, t, state),
           t.key = tasks[i].key, t.op = tasks[i].op, t.target = tasks[i].target,
           t.body = tasks[i].body, state \in {"synced", "pending", "pendingDelete", "failed"},
           t.status = "synced" <=> state = "synced"
    PROVE  /\ SameTasks /\ tasks' \in Seq(Task) /\ records' \subseteq Record
           /\ Remarks(i, state) /\ RecordInv' /\ QueueInv'
           /\ tasks'[i] = t /\ \A j \in DOMAIN tasks : j # i => tasks'[j] = tasks[j]
<1>1. i \in DOMAIN tasks /\ tasks \in Seq(Task) /\ records \subseteq Record
  BY DEF IInv, TypeOK, Unfinished
<1>2. /\ tasks' \in Seq(Task) /\ DOMAIN tasks' = DOMAIN tasks /\ tasks'[i] = t
      /\ \A j \in DOMAIN tasks : j # i => tasks'[j] = tasks[j]
  BY <1>1 DEF Mark
<1>3. SameTasks
  BY <1>2 DEF SameTasks
<1>4. PICK r \in records : Of(t) = {r} /\ r.id = t.target /\ r \in Record /\ Waits(r, tasks[i])
  <2>1. PICK r \in records : Waits(r, tasks[i])
    BY DEF IInv, QueueInv
  <2>2. PICK u : u = tasks[i]
    OBVIOUS
  <2>3. Of(t) = Of(u)
    BY <2>2, SameOf
  <2>4. QED
    BY <1>1, <2>1, <2>2, <2>3 DEF Waits
<1>5. PICK new : new = [r EXCEPT !.state = state]
  OBVIOUS
<1>6. /\ new \in Record /\ new.id = r.id /\ new.client = r.client /\ new.state = state
      /\ new.deleted = r.deleted /\ new.body = r.body /\ new.time = r.time
  BY <1>4, <1>5 DEF Record
<1>7. records' = (records \ {r}) \union {new}
  <2>1. \A x \in Of(t) : [x EXCEPT !.state = state] = new
    BY <1>4, <1>5
  <2>2. {[x EXCEPT !.state = state] : x \in Of(t)} = {new}
    <3>1. r \in Of(t)
      BY <1>4
    <3>2. QED
      BY <2>1, <3>1, Zenon
  <2>3. records' = (records \ Of(t)) \union {[x EXCEPT !.state = state] : x \in Of(t)}
    BY Zenon DEF Mark
  <2>4. QED
    BY <1>4, <2>2, <2>3, Zenon
<1>8. PICK f : f = [x \in records |-> IF x = r THEN new ELSE x]
  OBVIOUS
<1>9. f[r] = new /\ \A x \in records : x # r => f[x] = x
  BY <1>8
<1>10. Renewed(f)
  <2>1. records' = {f[x] : x \in records}
    BY <1>7, <1>9
  <2>2. QED
    BY <1>6, <1>9, <2>1 DEF Renewed
<1>11. records' \subseteq Record
  BY <1>1, <1>6, <1>7
<1>12. Unfinished' \subseteq Unfinished
  BY <1>2 DEF Unfinished
<1>13. ASSUME NEW x \in records, NEW j \in Unfinished', tasks[j].target = x.id
       PROVE  f[x].state # "synced" /\ f[x].deleted = x.deleted /\ f[x].body = x.body
  <2>1. CASE x = r
    <3>1. j = i
      BY <1>4, <1>12, <1>13, <2>1 DEF IInv, QueueInv
    <3>2. state # "synced"
      BY <1>2, <1>13, <3>1 DEF Unfinished
    <3>3. QED
      BY <1>6, <1>9, <2>1, <3>2
  <2>2. CASE x # r
    <3>1. j \in Unfinished
      BY <1>12
    <3>2. PICK y \in records : Waits(y, tasks[j])
      BY <3>1 DEF IInv, QueueInv
    <3>3. y = x
      BY <1>13, <3>2 DEF IInv, RecordInv, Waits
    <3>4. QED
      BY <1>9, <2>2, <3>2, <3>3 DEF Waits
  <2>3. QED
    BY <2>1, <2>2
<1>14. ASSUME NEW x \in records, f[x].state # "synced"
       PROVE  \E j \in Unfinished' : tasks[j].target = x.id
  <2>1. CASE x = r
    <3>1. i \in Unfinished'
      BY <1>1, <1>2, <1>6, <1>9, <1>14, <2>1 DEF Unfinished
    <3>2. QED
      BY <1>4, <2>1, <3>1
  <2>2. CASE x # r
    <3>1. x.state # "synced"
      BY <1>9, <1>14, <2>2
    <3>2. PICK j \in Unfinished : tasks[j].target = x.id
      BY <3>1 DEF IInv, QueueInv
    <3>3. j # i
      BY <1>4, <2>2, <3>2 DEF IInv, RecordInv
    <3>4. j \in Unfinished'
      BY <1>2, <3>2, <3>3 DEF Unfinished
    <3>5. QED
      BY <3>2, <3>4
  <2>3. QED
    BY <2>1, <2>2
<1>15. RecordInv' /\ QueueInv'
  BY <1>3, <1>10, <1>12, <1>13, <1>14, Renewing DEF IInv
<1>16. Remarks(i, state)
  BY <1>4, <1>6, <1>9, <1>10 DEF Remarks
<1>17. QED
  BY <1>2, <1>3, <1>11, <1>15, <1>16

\* Task i has become t in the answer to its push.
AnswerTo(i, t, state) ==
    /\ t \in Task /\ t.key = tasks[i].key /\ t.op = tasks[i].op
    /\ t.target = tasks[i].target /\ t.body = tasks[i].body
    /\ state \in {"synced", "pending", "pendingDelete", "failed"}
    /\ t.status = "synced" <=> state = "synced"
    /\ t.status = "synced" => tasks[i].key \in receipts
    /\ Mark(i, t, state) /\ phase' = "push" /\ attempt' \in Nat \union {None}

LEMMA Answering ==
    ASSUME IInv, NEW i \in InState("pending"), NEW t, NEW state, AnswerTo(i, t, state),
           UNCHANGED <<server, asked, fresh, cursor, page, listed, dialog, missed, given>>,
           Shrinks, TxMoves
    PROVE  IInv'
<1>1. i \in Unfinished
  BY DEF InState, Unfinished
<1>2. /\ SameTasks /\ tasks' \in Seq(Task) /\ records' \subseteq Record
      /\ Remarks(i, state) /\ RecordInv' /\ QueueInv'
      /\ tasks'[i] = t /\ \A j \in DOMAIN tasks : j # i => tasks'[j] = tasks[j]
  BY <1>1, Marking DEF AnswerTo
<1>3. RunTypes
  BY RunTypesNow DEF RunTypes, AnswerTo
<1>4. Marks
  BY <1>2, <1>3 DEF Marks, AnswerTo, Remarks
<1>5. ReadInv'
  BY <1>2, Unchanging DEF AnswerTo, IInv
<1>6. SyncedInv'
  BY <1>2 DEF IInv, SyncedInv, AnswerTo, SameTasks, server
<1>7. QED
  BY <1>2, <1>4, <1>5, <1>6, Marked

LEMMA Settling ==
    ASSUME IInv, NEW i \in InState("pending"),
           NEW status \in {"failed", "conflict", "synced"},
           NEW code \in {"none", "version_mismatch", "record_soft_deleted"}, NEW state,
           state = IF status = "synced" THEN "synced" ELSE "failed",
           Settle(i, status, code, state), status = "synced" => tasks[i].key \in receipts
    PROVE  \E t : AnswerTo(i, t, state) /\ t.status = status
<1>1. tasks[i] \in Task
  BY TaskTypes DEF InState
<1>2. PICK t : t = [tasks[i] EXCEPT !.status = status, !.code = code]
  OBVIOUS
<1>3. /\ t \in Task /\ t.key = tasks[i].key /\ t.op = tasks[i].op
      /\ t.target = tasks[i].target /\ t.body = tasks[i].body /\ t.status = status
  BY <1>1, <1>2 DEF Task
<1>4. Mark(i, t, state) /\ phase' = "push" /\ attempt' = None
  BY <1>2 DEF Settle
<1>5. AnswerTo(i, t, state)
  BY <1>3, <1>4 DEF AnswerTo
<1>6. QED
  BY <1>3, <1>5

LEMMA Counting ==
    ASSUME IInv, NEW i \in InState("pending"), attempt \in Nat, CountError(i)
    PROVE  \E t, state : AnswerTo(i, t, state) /\ t.status \notin {"conflict", "synced"}
<1>1. tasks[i] \in Task /\ tasks[i].retries \in Nat /\ tasks[i].status = "pending"
  BY TaskTypes DEF InState
<1>2. PICK more \in Nat : more = IF tasks[i].retries < MaxRetries THEN tasks[i].retries + 1
                                 ELSE tasks[i].retries
  BY <1>1
<1>3. PICK again : again = [tasks[i] EXCEPT !.retries = more]
  OBVIOUS
<1>4. again = [tasks[i] EXCEPT !.retries = IF @ < MaxRetries THEN @ + 1 ELSE @]
  BY <1>2, <1>3
<1>5. /\ again \in Task /\ again.key = tasks[i].key /\ again.op = tasks[i].op
      /\ again.target = tasks[i].target /\ again.body = tasks[i].body
      /\ again.status = "pending"
  BY <1>1, <1>3 DEF Task
<1>6. CASE attempt + 1 >= MaxRetries
  <2>1. PICK t : t = [again EXCEPT !.status = "failed"]
    OBVIOUS
  <2>2. /\ t \in Task /\ t.key = tasks[i].key /\ t.op = tasks[i].op
        /\ t.target = tasks[i].target /\ t.body = tasks[i].body /\ t.status = "failed"
    BY <1>5, <2>1 DEF Task
  <2>3. Mark(i, t, "failed") /\ phase' = "push" /\ attempt' = None
    BY <1>4, <1>6, <2>1 DEF CountError
  <2>4. AnswerTo(i, t, "failed")
    BY <2>2, <2>3 DEF AnswerTo
  <2>5. QED
    BY <2>2, <2>4
<1>7. CASE ~(attempt + 1 >= MaxRetries)
  <2>1. PICK state : state = PendingState(again)
    OBVIOUS
  <2>2. state \in {"pending", "pendingDelete"}
    BY <2>1 DEF PendingState
  <2>3. Mark(i, again, state) /\ phase' = "push" /\ attempt' = attempt + 1
    BY <1>4, <1>7, <2>1 DEF CountError
  <2>4. AnswerTo(i, again, state)
    BY <1>5, <2>2, <2>3 DEF AnswerTo
  <2>5. QED
    BY <1>5, <2>4
<1>8. QED
  BY <1>6, <1>7

\* While an answer is waited for, the task that is next has been sent.
LEMMA NextTask ==
    ASSUME IInv, phase = "wait", NEW i \in InState("pending"), IsNext(i)
    PROVE  attempt \in Nat /\ Expects(i)
<1>1. PICK j \in InState("pending") : IsNext(j) /\ Expects(j) /\ attempt \in Nat
  BY DEF IInv, PushInv
<1>2. i \in Nat /\ j \in Nat
  BY TaskTypes DEF InState
<1>3. i = j
  BY <1>1, <1>2 DEF IsNext
<1>4. QED
  BY <1>1, <1>3

LEMMA StepTakeAnswer == ASSUME IInv, TakeAnswer PROVE IInv'
<1>1. PICK i \in InState("pending") :
        /\ phase = "wait" /\ IsNext(i) /\ tx["device"].stage = "answered"
        /\ Outcome(i, tx["device"].answer)
        /\ tx' = [tx EXCEPT !["device"] = NoTx]
        /\ UNCHANGED <<plan, server, asked, fresh, cursor, page, listed, dialog, missed, given>>
  BY DEF TakeAnswer
<1>2. attempt \in Nat /\ Expects(i)
  BY <1>1, NextTask
<1>3. PICK answer : answer = tx["device"].answer
  OBVIOUS
<1>4. answer \in Answers /\ (answer = "done" => tasks[i].key \in receipts)
  <2>1. tx["device"] \in Tx
    BY DEF IInv, TypeOK, Slot
  <2>2. QED
    BY <1>1, <1>2, <1>3, <2>1 DEF Tx, Answers, Expects
<1>5. TxMoves
  <2>1. NoTx \in Tx /\ NoTx.stage = "none" /\ tx \in [Slot -> Tx]
    BY DEF NoTx, Tx, IInv, TypeOK
  <2>2. \A s \in Slot : tx'[s] = IF s = "device" THEN NoTx ELSE tx[s]
    BY <1>1, <2>1
  <2>3. tx' \in [Slot -> Tx]
    BY <1>1, <2>1
  <2>4. QED
    BY <2>1, <2>2, <2>3 DEF TxMoves
<1>6. \E t, state : AnswerTo(i, t, state)
  <2>1. CASE answer = "done"
    <3>1. Settle(i, "synced", "none", "synced")
      BY <1>1, <1>3, <2>1 DEF Outcome
    <3>2. QED
      BY <1>4, <2>1, <3>1, Settling
  <2>2. CASE answer = "refused"
    <3>1. Settle(i, "failed", "none", "failed")
      BY <1>1, <1>3, <2>2 DEF Outcome
    <3>2. QED
      BY <3>1, Settling
  <2>3. CASE answer = "error"
    <3>1. CountError(i)
      BY <1>1, <1>3, <2>3 DEF Outcome
    <3>2. QED
      BY <1>2, <3>1, Counting
  <2>4. CASE answer \notin {"done", "refused", "error"}
    <3>1. Settle(i, "conflict", answer, "failed")
      BY <1>1, <1>3, <2>4 DEF Outcome
    <3>2. answer \in {"none", "version_mismatch", "record_soft_deleted"}
      BY <1>4, <2>4 DEF Answers
    <3>3. QED
      BY <3>1, <3>2, Settling
  <2>5. QED
    BY <2>1, <2>2, <2>3, <2>4
<1>7. QED
  BY <1>1, <1>5, <1>6, PlanSame, Answering DEF IInv

LEMMA StepGiveUp == ASSUME IInv, GiveUp PROVE IInv'
<1>1. PICK i \in InState("pending") :
        /\ Settle(i, "failed", "none", "failed")
        /\ UNCHANGED <<plan, server, tx, asked, fresh, cursor, page, listed, dialog, missed, given>>
  BY DEF GiveUp
<1>2. \E t, state : AnswerTo(i, t, state)
  BY <1>1, Settling
<1>3. TxMoves
  BY <1>1 DEF TxMoves, IInv, TypeOK
<1>4. QED
  BY <1>1, <1>2, <1>3, PlanSame, Answering DEF IInv

LEMMA AbandonedMoves ==
    ASSUME IInv, tx' = Abandoned
    PROVE  TxMoves
<1>1. /\ NoTx \in Tx /\ NoTx.stage = "none" /\ tx \in [Slot -> Tx]
      /\ "device" \in Slot /\ "late" \in Slot
  BY DEF NoTx, Tx, IInv, TypeOK, Slot
<1>2. CASE tx' = [tx EXCEPT !["device"] = NoTx]
  <2>1. tx' \in [Slot -> Tx] /\ \A s \in Slot : tx'[s] \in {NoTx, tx[s]}
    BY <1>1, <1>2
  <2>2. QED
    BY <1>1, <2>1 DEF TxMoves
<1>3. CASE tx' = [tx EXCEPT !["device"] = NoTx, !["late"] = tx["device"]]
  <2>1. /\ tx' \in [Slot -> Tx]
        /\ \A s \in Slot : tx'[s] \in {NoTx, tx["device"], tx[s]}
    BY <1>1, <1>3
  <2>2. QED
    BY <1>1, <2>1 DEF TxMoves
<1>4. QED
  BY <1>2, <1>3 DEF Abandoned

LEMMA StepTimeOut == ASSUME IInv, TimeOut PROVE IInv'
<1>1. PICK i \in InState("pending") :
        /\ plan.faults > 0 /\ phase = "wait" /\ IsNext(i)
        /\ plan' = [plan EXCEPT !.faults = @ - 1]
        /\ tx' = Abandoned /\ CountError(i)
        /\ UNCHANGED <<server, asked, fresh, cursor, page, listed, dialog, missed, given>>
  BY DEF TimeOut
<1>2. \E t, state : AnswerTo(i, t, state)
  BY <1>1, NextTask, Counting
<1>3. Shrinks /\ TxMoves
  BY <1>1, PlanFault, AbandonedMoves DEF IInv
<1>4. QED
  BY <1>1, <1>2, <1>3, Answering

LEMMA StepRestart == ASSUME IInv, Restart PROVE IInv'
<1>1. /\ plan.faults > 0 /\ plan' = [plan EXCEPT !.faults = @ - 1] /\ tx' = Abandoned
      /\ phase' = "idle" /\ attempt' = None /\ asked' = {"run", "online"} /\ fresh' = {}
      /\ cursor' = 0 /\ page' = NoPage /\ listed' = {} /\ dialog' = None /\ missed' = {}
      /\ UNCHANGED <<server, records, tasks, given>>
  BY DEF Restart
<1>2. RunTypes
  BY <1>1 DEF RunTypes, NoPage
<1>3. Shrinks /\ TxMoves
  BY <1>1, PlanFault, AbandonedMoves DEF IInv
<1>4. \E f : Renewed(f)
  <2>1. PICK f : f = [x \in records |-> x]
    OBVIOUS
  <2>2. \A x \in records : f[x] = x
    BY <2>1
  <2>3. records' = {f[x] : x \in records}
    BY <1>1, <2>2
  <2>4. Renewed(f)
    BY <2>2, <2>3 DEF Renewed
  <2>5. QED
    BY <2>4
<1>5. Marks
  BY <1>1, <1>2, <1>3, <1>4 DEF Marks, SameTasks, IInv, TypeOK
<1>6. RecordInv' /\ QueueInv' /\ SyncedInv'
  BY <1>1 DEF IInv, RecordInv, QueueInv, SyncedInv, Waits, Of, Unfinished, server
<1>7. ReadInv'
  BY <1>1 DEF IInv, ReadInv, server, NoPage
<1>8. QED
  BY <1>5, <1>6, <1>7, Marked

LEMMA StepSendTask == ASSUME IInv, SendTask PROVE IInv'
<1>1. PICK i \in InState("pending") :
        /\ IsNext(i) /\ phase' = "wait" /\ attempt' = Tries(i)
        /\ tx' = [tx EXCEPT !["device"] = Begun(Sent(tasks[i]))]
        /\ UNCHANGED <<plan, server, records, tasks, asked, fresh, cursor, page, listed,
                       dialog, missed, given>>
  BY DEF SendTask
<1>2. i \in DOMAIN tasks /\ tasks[i] \in Task /\ tasks[i].retries \in Nat
  BY TaskTypes DEF InState
<1>3. attempt' \in Nat
  BY <1>1, <1>2, RunTypesNow DEF Tries
<1>4. PICK w \in Wire : w = Sent(tasks[i]) /\ w.key = tasks[i].key /\ w.op = tasks[i].op
  <2>1. /\ tasks[i].key \in Key /\ tasks[i].op \in Op /\ tasks[i].target \in Id
        /\ tasks[i].expected \in Int /\ tasks[i].body \in Key
    BY <1>2 DEF Task
  <2>2. /\ Sent(tasks[i]) \in Wire /\ Sent(tasks[i]).key = tasks[i].key
        /\ Sent(tasks[i]).op = tasks[i].op
    BY <2>1 DEF Sent, Wire
  <2>3. QED
    BY <2>2
<1>5. PICK u \in Tx : /\ tx' = [tx EXCEPT !["device"] = u]
                      /\ u.stage = "begun" /\ u.wire = w /\ TxOk(u)'
  BY <1>1, <1>4, BeginTx
<1>6. /\ tx' \in [Slot -> Tx] /\ tx'["device"] = u
      /\ \A s \in Slot : s # "device" => tx'[s] = tx[s]
  BY <1>5 DEF IInv, TypeOK, Slot
<1>7. Shrinks /\ UNCHANGED <<now, rows, receipts, feed, drawn>>
  BY <1>1, PlanSame DEF IInv, server
<1>8. TypeOK'
  BY <1>1, <1>3, <1>6, <1>7 DEF IInv, TypeOK
<1>9. Uses' \subseteq Uses
  <2>1. <<w.key, w.op>> \in Uses
    BY <1>2, <1>4 DEF Uses
  <2>2. ASSUME NEW s \in Slot, tx'[s].stage \in Busy
        PROVE  <<tx'[s].wire.key, tx'[s].wire.op>> \in Uses
    BY <1>5, <1>6, <2>1, <2>2 DEF Uses, Underway
  <2>3. QED
    BY <1>1, <1>7, <2>2 DEF Uses, Underway
<1>10. UsesInv' /\ NewInv'
  <2>1. UsesInv /\ NewInv /\ UNCHANGED <<tasks, records, receipts, rows, plan>>
    BY <1>1, <1>7 DEF IInv
  <2>2. UsesInv'
    BY <1>9, <2>1 DEF UsesInv
  <2>3. ASSUME NEW k \in New(plan') PROVE Unused(k)'
    BY <1>9, <2>1 DEF NewInv, Unused
  <2>4. QED
    BY <2>2, <2>3 DEF NewInv
<1>11. TxInv'
  <2>1. ASSUME NEW s \in Slot PROVE TxOk(tx[s])'
    <3>1. CASE s = "device"
      BY <1>5, <1>6, <3>1 DEF TxOk
    <3>2. CASE s # "device"
      BY <1>6, <1>7, <3>2 DEF IInv, TxInv, TxOk
    <3>3. QED
      BY <3>1, <3>2
  <2>2. QED
    BY <2>1 DEF TxInv
<1>12. RecordInv' /\ QueueInv' /\ SyncedInv' /\ RowInv'
  BY <1>1, <1>7 DEF IInv, RecordInv, QueueInv, SyncedInv, RowInv, Waits, Of, Unfinished
<1>13. ReadInv'
  BY <1>1, <1>7 DEF IInv, ReadInv
<1>14. PushInv'
  <2>1. Expects(i)'
    BY <1>1, <1>4, <1>5, <1>6 DEF Expects, Busy
  <2>2. i \in InState("pending")' /\ IsNext(i)'
    BY <1>1 DEF InState, IsNext
  <2>3. QED
    BY <1>3, <2>1, <2>2 DEF PushInv
<1>15. QED
  BY <1>7, <1>8, <1>10, <1>11, <1>12, <1>13, <1>14 DEF IInv, Shrinks

\* What is put back into the queue waits again, nothing else changes.
LEMMA RunStarted ==
    ASSUME IInv, StartRun
    PROVE  /\ phase' = "push" /\ asked' = {} /\ attempt' = None /\ fresh' \subseteq Key
           /\ UNCHANGED <<plan, server, tx, cursor, page, listed, dialog, missed, given>>
           /\ records' \subseteq Record /\ tasks' \in Seq(Task)
           /\ SameTasks /\ Unfinished' = Unfinished
           /\ \A i \in DOMAIN tasks : tasks'[i].status \in {"pending", tasks[i].status}
           /\ \E f : /\ Renewed(f)
                     /\ \A r \in records :
                          /\ f[r].deleted = r.deleted /\ f[r].body = r.body /\ f[r].time = r.time
                          /\ f[r] = r \/ (f[r].state # "synced" /\
                                           \E i \in Unfinished : tasks[i].target = r.id)
<1>1. PICK again : again = {tasks[i] : i \in Requeued}
  OBVIOUS
<1>2. PICK f : f = [r \in records |->
                      IF \E t \in again : r \in Of(t)
                      THEN [r EXCEPT !.state = PendingState(CHOOSE t \in again : r \in Of(t))]
                      ELSE r]
  OBVIOUS
<1>3. /\ phase' = "push" /\ asked' = {} /\ attempt' = None
      /\ fresh' = {t.key : t \in again}
      /\ tasks' = [i \in DOMAIN tasks |->
                     IF i \in Requeued THEN [tasks[i] EXCEPT !.status = "pending"] ELSE tasks[i]]
      /\ UNCHANGED <<plan, server, tx, cursor, page, listed, dialog, missed, given>>
  BY <1>1, Zenon DEF StartRun
<1>4. \A r \in records : f[r] = IF \E t \in again : r \in Of(t)
          THEN [r EXCEPT !.state = PendingState(CHOOSE t \in again : r \in Of(t))] ELSE r
  BY <1>2, Zenon
<1>5. records' = {f[r] : r \in records}
  <2>1. records' = {IF \E t \in again : r \in Of(t)
                    THEN [r EXCEPT !.state = PendingState(CHOOSE t \in again : r \in Of(t))]
                    ELSE r : r \in records}
    BY <1>1, Zenon DEF StartRun
  <2>2. QED
    BY <1>4, <2>1, Zenon
<1>6. Requeued \subseteq Unfinished /\ Requeued \subseteq DOMAIN tasks
  BY DEF Requeued, InState, Unfinished
<1>7. \A r \in records :
        \/ f[r] = r
        \/ /\ \E t \in again : r \in Of(t)
           /\ \E state \in {"pending", "pendingDelete"} : f[r] = [r EXCEPT !.state = state]
  BY <1>4 DEF PendingState
<1>8. records \subseteq Record /\ tasks \in Seq(Task)
  BY DEF IInv, TypeOK
<1>9. ASSUME NEW r \in records
      PROVE  /\ f[r] \in Record /\ f[r].id = r.id /\ f[r].client = r.client
             /\ f[r].deleted = r.deleted /\ f[r].body = r.body /\ f[r].time = r.time
             /\ f[r] = r \/ (f[r].state # "synced" /\ \E t \in again : r \in Of(t))
  <2>1. CASE f[r] = r
    BY <1>8, <2>1
  <2>2. ASSUME NEW state \in {"pending", "pendingDelete"}, f[r] = [r EXCEPT !.state = state],
               \E t \in again : r \in Of(t)
        PROVE  /\ f[r] \in Record /\ f[r].id = r.id /\ f[r].client = r.client
               /\ f[r].deleted = r.deleted /\ f[r].body = r.body /\ f[r].time = r.time
               /\ f[r].state # "synced" /\ \E t \in again : r \in Of(t)
    BY <1>8, <2>2 DEF Record
  <2>3. QED
    BY <1>7, <2>1, <2>2
<1>10. Renewed(f) /\ records' \subseteq Record
  BY <1>5, <1>9 DEF Renewed
<1>11. ASSUME NEW i \in DOMAIN tasks
       PROVE  /\ tasks'[i] \in Task /\ tasks'[i].key = tasks[i].key /\ tasks'[i].op = tasks[i].op
              /\ tasks'[i].target = tasks[i].target /\ tasks'[i].body = tasks[i].body
              /\ tasks'[i].status = "synced" <=> tasks[i].status = "synced"
              /\ tasks'[i].status \in {"pending", tasks[i].status}
  <2>1. tasks[i] \in Task
    BY TaskTypes
  <2>2. CASE i \in Requeued
    <3>1. tasks'[i] = [tasks[i] EXCEPT !.status = "pending"] /\ tasks[i].status # "synced"
      BY <1>3, <1>6, <2>2 DEF Unfinished
    <3>2. QED
      BY <2>1, <3>1 DEF Task
  <2>3. CASE i \notin Requeued
    BY <1>3, <2>1, <2>3
  <2>4. QED
    BY <2>2, <2>3
<1>12. DOMAIN tasks' = DOMAIN tasks /\ tasks' \in Seq(Task)
  <2>1. tasks' \in [1 .. Len(tasks) -> Task] /\ DOMAIN tasks' = DOMAIN tasks /\ Len(tasks) \in Nat
    BY <1>3, <1>8, <1>11
  <2>2. QED
    BY <2>1
<1>13. SameTasks /\ Unfinished' = Unfinished
  BY <1>11, <1>12 DEF SameTasks, Unfinished
<1>14. ASSUME NEW r \in records, f[r] # r
       PROVE  \E i \in Unfinished : tasks[i].target = r.id
  <2>1. PICK i \in Requeued : r \in Of(tasks[i])
    BY <1>1, <1>9, <1>14
  <2>2. i \in Unfinished
    BY <1>6, <2>1
  <2>3. PICK s \in records : Waits(s, tasks[i])
    BY <2>2 DEF IInv, QueueInv
  <2>4. QED
    BY <2>1, <2>2, <2>3 DEF Waits
<1>15. fresh' \subseteq Key
  BY <1>1, <1>3, <1>6, TaskTypes
<1>16. ASSUME NEW r \in records
       PROVE  /\ f[r].deleted = r.deleted /\ f[r].body = r.body /\ f[r].time = r.time
              /\ f[r] = r \/ (f[r].state # "synced" /\ \E i \in Unfinished : tasks[i].target = r.id)
  BY <1>9, <1>14
<1>17. PICK g : Renewed(g) /\ \A r \in records : g[r] = f[r]
  BY <1>10
<1>18. \A i \in DOMAIN tasks : tasks'[i].status \in {"pending", tasks[i].status}
  BY <1>11
<1>19. records' \subseteq Record /\ phase' = "push" /\ asked' = {} /\ attempt' = None
       /\ UNCHANGED <<plan, server, tx, cursor, page, listed, dialog, missed, given>>
  BY <1>3, <1>10
<1>20. \E h : /\ Renewed(h)
              /\ \A r \in records :
                   /\ h[r].deleted = r.deleted /\ h[r].body = r.body /\ h[r].time = r.time
                   /\ h[r] = r \/ (h[r].state # "synced" /\
                                    \E i \in Unfinished : tasks[i].target = r.id)
  BY <1>16, <1>17
<1>21. QED
  BY <1>12, <1>13, <1>15, <1>18, <1>19, <1>20

LEMMA StepStartRun == ASSUME IInv, StartRun PROVE IInv'
<1>1. /\ phase' = "push" /\ asked' = {} /\ attempt' = None /\ fresh' \subseteq Key
      /\ UNCHANGED <<plan, server, tx, cursor, page, listed, dialog, missed, given>>
      /\ records' \subseteq Record /\ tasks' \in Seq(Task)
      /\ SameTasks /\ Unfinished' = Unfinished
  BY RunStarted
<1>2. PICK f : /\ Renewed(f)
               /\ \A r \in records :
                    /\ f[r].deleted = r.deleted /\ f[r].body = r.body
                    /\ f[r] = r \/ (f[r].state # "synced" /\
                                     \E i \in Unfinished : tasks[i].target = r.id)
  BY RunStarted
<1>3. RecordInv' /\ QueueInv'
  <2>1. ASSUME NEW r \in records, NEW i \in Unfinished, tasks[i].target = r.id
        PROVE  f[r].state # "synced" /\ f[r].deleted = r.deleted /\ f[r].body = r.body
    <3>1. PICK s \in records : Waits(s, tasks[i])
      BY DEF IInv, QueueInv
    <3>2. r = s /\ r.state # "synced"
      BY <2>1, <3>1 DEF IInv, RecordInv, Waits
    <3>3. QED
      BY <1>2, <3>2
  <2>2. ASSUME NEW r \in records, f[r].state # "synced"
        PROVE  \E i \in Unfinished : tasks[i].target = r.id
    BY <1>2, <2>2 DEF IInv, QueueInv
  <2>3. QED
    BY <1>1, <1>2, <2>1, <2>2, Renewing DEF IInv
<1>4. Shrinks /\ TxMoves
  BY <1>1, PlanSame DEF TxMoves, IInv, TypeOK
<1>5. RunTypes
  BY <1>1, RunTypesNow DEF RunTypes
<1>6. Marks
  BY <1>1, <1>2, <1>4, <1>5 DEF Marks
<1>7. ReadInv'
  BY <1>1, Unchanging DEF IInv
<1>8. SyncedInv'
  BY <1>1 DEF IInv, SyncedInv, server, SameTasks, Unfinished
<1>9. QED
  BY <1>3, <1>6, <1>7, <1>8, Marked

-----------------------------------------------------------------------------
(* The invariant.                                                          *)

LEMMA InitIInv == ASSUME Init PROVE IInv
<1>1. /\ plan \in Plan
      /\ \A x, y \in plan.mine \union plan.others : x[1] = y[1] => x = y
      /\ plan.mine \intersect plan.others = {}
      /\ \A x \in plan.mine \union plan.others : x[1] \notin plan.spare
      /\ \A n \in DOMAIN plan.known : plan.known[n] \notin New(plan)
  BY GroupSyncAssumption DEF Init
<1>2. PICK known : known = plan.known
  OBVIOUS
<1>3. known \in Seq(Key) /\ DOMAIN known = 1 .. Len(known) /\ Len(known) \in Nat
  BY <1>1, <1>2 DEF Plan
<1>4. /\ now = 2 /\ drawn = Len(known)
      /\ rows = [k \in Key |-> IF \E n \in DOMAIN known : known[n] = k
                               THEN [state |-> "live", time |-> 2, body |-> k] ELSE NoRow]
      /\ receipts = {k \in Key : \E n \in DOMAIN known : known[n] = k}
      /\ feed = {[seq |-> n, op |-> "create", expense |-> known[n], client |-> known[n],
                  time |-> 2, body |-> known[n]] : n \in DOMAIN known}
      /\ tx = [s \in Slot |-> NoTx]
      /\ records = {} /\ tasks = <<>>
      /\ phase = "idle" /\ attempt = None /\ asked = {"run", "online"} /\ fresh = {}
      /\ cursor = 0 /\ page = NoPage /\ listed = {} /\ dialog = None /\ missed = {} /\ given = {}
  BY <1>2 DEF Init
<1>5. ASSUME NEW c \in feed
      PROVE  c \in Change /\ c.client \in receipts /\ c.op = "create"
  <2>1. PICK n \in DOMAIN known :
          c = [seq |-> n, op |-> "create", expense |-> known[n], client |-> known[n],
               time |-> 2, body |-> known[n]]
    BY <1>4
  <2>2. n \in Nat /\ known[n] \in Key
    BY <1>3
  <2>3. QED
    BY <1>4, <2>1, <2>2 DEF Change, Op
<1>6. ASSUME NEW k \in Key
      PROVE  /\ rows[k] \in Row /\ (rows[k].state = "live" => rows[k].body \in Key)
             /\ k \in receipts => rows[k].state = "live"
  <2>1. CASE \E n \in DOMAIN known : known[n] = k
    BY <1>4, <2>1 DEF Row
  <2>2. CASE ~\E n \in DOMAIN known : known[n] = k
    BY <1>4, <2>2 DEF Row, NoRow
  <2>3. QED
    BY <2>1, <2>2
<1>7. NoTx \in Tx /\ NoTx.stage = "none"
  BY DEF NoTx, Tx
<1>8. TypeOK
  <2>1. rows \in [Key -> Row]
    BY <1>4, <1>6
  <2>2. tx \in [Slot -> Tx]
    BY <1>4, <1>7
  <2>3. page \in [changes: Seq(Change), more: BOOLEAN]
    BY <1>4 DEF NoPage
  <2>4. feed \subseteq Change /\ receipts \subseteq Key
    BY <1>4, <1>5
  <2>5. QED
    BY <1>1, <1>3, <1>4, <2>1, <2>2, <2>3, <2>4 DEF TypeOK
<1>9. PlanInv
  BY <1>1 DEF PlanInv
<1>10. Uses = {<<c.client, c.op>> : c \in feed}
  BY <1>4, <1>7 DEF Uses, Underway, Busy
<1>11. \A p \in Uses : p[1] \in receipts /\ p[1] \in Key /\ p[2] = "create"
  BY <1>4, <1>5, <1>10
<1>12. UsesInv
  BY <1>4, <1>6, <1>11 DEF UsesInv
<1>13. NewInv
  <2>1. \A k \in New(plan) : k \notin receipts
    BY <1>1, <1>2, <1>4
  <2>2. QED
    BY <1>4, <1>11, <2>1 DEF NewInv, Unused
<1>14. TxInv
  BY <1>4, <1>7 DEF TxInv, TxOk, Busy
<1>15. RowInv
  BY <1>6 DEF RowInv
<1>16. ReadInv
  BY <1>4, <1>5 DEF ReadInv, NoPage
<1>17. RecordInv /\ QueueInv /\ SyncedInv /\ PushInv
  BY <1>4 DEF RecordInv, QueueInv, SyncedInv, PushInv, Unfinished
<1>18. QED
  BY <1>8, <1>9, <1>12, <1>13, <1>14, <1>15, <1>16, <1>17 DEF IInv

LEMMA StepStutter == ASSUME IInv, UNCHANGED vars PROVE IInv'
<1>1. /\ UNCHANGED <<plan, now, rows, receipts, feed, drawn, tx, records, tasks>>
      /\ UNCHANGED <<phase, attempt, asked, fresh, cursor, page, listed, dialog, missed, given>>
  BY DEF vars
<1>2. Looks
  BY <1>1, PlanSame, RunTypesNow DEF Looks, RunTypes, server, IInv
<1>3. ReadInv'
  BY <1>1 DEF IInv, ReadInv
<1>4. QED
  BY <1>2, <1>3, Looking

LEMMA StepIInv == ASSUME IInv, [Next]_vars PROVE IInv'
<1>1. ASSUME NEW s \in Slot, Serve(s) \/ Fail(s, "error") \/ Fail(s, "refused") PROVE IInv'
  BY <1>1, StepCreateExpense, StepAppendChange, StepGetReceipt, StepMutate, StepCommit, StepFail
     DEF Serve
<1>2. ASSUME NEW k \in Key, NEW op \in Op, OtherPushes(k, op) PROVE IInv'
  BY <1>2, StepOtherPushes
<1>3. CASE Coordinate
  BY <1>3, StepStartRun, StepSendTask, StepTakeAnswer, StepGiveUp, StepFetchPage,
     StepApplyChange DEF Coordinate
<1>4. CASE ConnectivityRestored \/ TimeOut \/ PullFails \/ Restart
  BY <1>4, StepAsk, StepTimeOut, StepPullFails, StepRestart
<1>5. ASSUME User PROVE IInv'
  <2>1. ASSUME NEW k \in Key, SaveCreate(k) PROVE IInv'
    BY <2>1, StepSave
  <2>2. ASSUME NEW k \in Key, NEW r \in Shown, SaveUpdate(k, r) \/ SaveDelete(k, r) PROVE IInv'
    BY <2>2, StepSave
  <2>3. CASE SyncNow \/ RetryFailed
    BY <2>3, StepAsk
  <2>4. CASE Refresh \/ StoreListed
    BY <2>4, StepRefresh, StepStoreListed
  <2>5. ASSUME NEW i \in DOMAIN tasks, Decide(i) PROVE IInv'
    BY <2>5, StepDecide
  <2>6. CASE Closed \/ UseServer
    BY <2>6, StepClosed, StepUseServer
  <2>7. ASSUME NEW n \in Key, KeepLocal(n) PROVE IInv'
    BY <2>7, StepKeepLocal
  <2>8. QED
    BY <1>5, <2>1, <2>2, <2>3, <2>4, <2>5, <2>6, <2>7 DEF User
<1>6. CASE UNCHANGED vars
  BY <1>6, StepStutter
<1>7. QED
  BY <1>1, <1>2, <1>3, <1>4, <1>5, <1>6 DEF Next

\* The invariant of the queue, the records and the push under way holds in
\* every behaviour of device, server and other member.
THEOREM QueueInvariance == Spec => []IInv
<1>1. Init => IInv
  BY InitIInv
<1>2. IInv /\ [Next]_vars => IInv'
  BY StepIInv
<1>3. QED
  BY <1>1, <1>2, PTL DEF Spec

\* Everything stored, sent and read is of its type: what a page, a list or a
\* dialog holds is what the server's tables can hold.
THEOREM GroupSyncTypes == Spec => []TypeOK
<1>1. IInv => TypeOK
  BY DEF IInv
<1>2. QED
  BY <1>1, QueueInvariance, PTL

LEMMA InvImpliesNoLoss == ASSUME IInv PROVE NoEditIsLost
<1>1. \A i \in DOMAIN tasks : tasks[i].status = "synced" => tasks[i].key \in receipts \union given
  BY DEF IInv, SyncedInv
<1>2. ASSUME NEW r \in records, r.state # "synced"
      PROVE  Cardinality({i \in Unfinished : r \in Of(tasks[i])}) = 1
  <2>1. PICK i \in Unfinished : tasks[i].target = r.id
    BY <1>2 DEF IInv, QueueInv
  <2>2. r \in Of(tasks[i])
    <3>1. PICK s \in records : Waits(s, tasks[i])
      BY DEF IInv, QueueInv
    <3>2. s = r
      BY <2>1, <3>1 DEF IInv, RecordInv, Waits
    <3>3. QED
      BY <3>1, <3>2 DEF Waits
  <2>3. ASSUME NEW j \in Unfinished, r \in Of(tasks[j]) PROVE j = i
    <3>1. PICK s \in records : Waits(s, tasks[j])
      BY DEF IInv, QueueInv
    <3>2. tasks[j].target = tasks[i].target
      BY <2>1, <2>3, <3>1 DEF Waits
    <3>3. QED
      BY <3>2 DEF IInv, QueueInv
  <2>4. {j \in Unfinished : r \in Of(tasks[j])} = {i}
    BY <2>2, <2>3
  <2>5. QED
    BY <2>4, FS_Singleton
<1>3. ASSUME NEW i \in Unfinished
      PROVE  \E r \in Of(tasks[i]) :
               /\ r.state # "synced" /\ r.deleted = (tasks[i].op = "delete")
               /\ tasks[i].op # "delete" => r.body = tasks[i].body
  <2>1. PICK r \in records : Waits(r, tasks[i])
    BY DEF IInv, QueueInv
  <2>2. QED
    BY <2>1 DEF Waits
<1>4. QED
  BY <1>1, <1>2, <1>3 DEF NoEditIsLost

\* An edit leaves the queue only when the server has committed it or the user
\* has decided against it, and until then its expense waits for it and for no
\* other, with what the user has written: for any number of expenses, edits of
\* the user and of others, lost answers, refusals, restarts and clocks.
THEOREM EditsAreSafe == Spec => []NoEditIsLost
<1>1. IInv => NoEditIsLost
  BY InvImpliesNoLoss
<1>2. QED
  BY <1>1, QueueInvariance, PTL

-----------------------------------------------------------------------------
(* What the feed says of the expenses.                                     *)

Exists(k) == rows[k].state # "none"

Even(n) == n % 2 = 0

\* What was read of expense k, at time, is its newest version or an older one.
Says(k, time, body) ==
    time = rows[k].time => rows[k].state = "live" /\ body = rows[k].body

Version(k, time) == Exists(k) /\ 0 < time /\ time <= rows[k].time /\ Even(time)

Newest(c) == c.time = rows[c.expense].time

Told(k) == \E c \in feed : c.expense = k

Creates(t) == t.stage \in {"appending", "drawn"} /\ t.wire.op = "create"
Mutates(t) == t.stage = "drawn" /\ t.wire.op # "create"

ClockInv ==
    /\ 0 < now /\ Even(now) /\ Even(plan.skew)
    /\ \A k \in Key : Exists(k) => k \in receipts /\ Version(k, rows[k].time) /\ rows[k].time <= now

\* A deletion is the last change of its expense.
FeedInv ==
    /\ IsFiniteSet(feed)
    /\ \A c \in feed :
          /\ Version(c.expense, c.time) /\ c.seq \in 1..drawn
          /\ IF c.op = "delete" THEN Newest(c) /\ rows[c.expense].state = "deleted"
             ELSE Says(c.expense, c.time, c.body)
          /\ c.op = "create" => c.client = c.expense

\* Numbers are drawn once, before the change is committed.
DrawnInv ==
    /\ \A c, d \in feed : c.seq = d.seq => c = d
    /\ \A s \in Slot : tx[s].stage = "drawn" =>
          tx[s].change.seq \in 1..drawn /\ \A c \in feed : c.seq # tx[s].change.seq
    /\ \A s, t \in Slot :
          tx[s].stage = "drawn" /\ tx[t].stage = "drawn" /\ tx[s].change.seq = tx[t].change.seq => s = t

\* The newest version of an expense is in the feed, unless its creation is all
\* that has happened and has not been appended.
NewestInv ==
    /\ \A k \in Key : Told(k) \/ rows[k].state = "deleted" =>
          \E c \in feed : c.expense = k /\ Newest(c)
    /\ \A s \in Slot : Creates(tx[s]) =>
          \/ Newest(tx[s].change)
          \/ \E c \in feed : c.expense = tx[s].change.expense /\ Newest(c)

\* An append holds what was read of its expense, a mutation what it will be.
Appending(w, c) ==
    c.expense = w.key /\ Version(c.expense, c.time) /\ Says(c.expense, c.time, c.body)

Altering(w, c) ==
    /\ w.target = Remote(c.expense) /\ c.body = w.body
    /\ rows[c.expense].state = "live" /\ rows[c.expense].time < c.time
    /\ Even(c.time) /\ c.time <= now

ChangeInv ==
    /\ \A s \in Slot : /\ Creates(tx[s]) => Appending(tx[s].wire, tx[s].change)
                       /\ Mutates(tx[s]) => Altering(tx[s].wire, tx[s].change)
    /\ \A s, t \in Slot :
          /\ Mutates(tx[s]) /\ Mutates(tx[t]) /\ tx[s].change.expense = tx[t].change.expense
          => s = t

ServerInv == ClockInv /\ FeedInv /\ DrawnInv /\ NewestInv /\ ChangeInv

\* An expense stays as it is, comes into being, or gets a newer version.
RowsGrow ==
    \A k \in Key : \/ rows'[k] = rows[k]
                   \/ ~Exists(k)
                   \/ /\ rows[k].state = "live" /\ Exists(k)'
                      /\ rows'[k].time \in Int /\ rows[k].time < rows'[k].time

LEMMA EvenNext ==
    ASSUME NEW n \in Int, Even(n) PROVE Even(n + 2)
  BY DEF Even

\* The device's stamps fall between the server's.
LEMMA OddStamp ==
    ASSUME NEW n \in Int, NEW skew \in Int, Even(n), Even(skew)
    PROVE  ~Even(n + 1 + skew) /\ (n + 1 + skew) % 2 = 1
  BY DEF Even

LEMMA ServerTyped ==
    ASSUME IInv
    PROVE  /\ now \in Int /\ drawn \in Nat /\ tx \in [Slot -> Tx] /\ rows \in [Key -> Row]
           /\ \A k \in Key : rows[k].time \in Int /\ rows[k].state \in {"none", "live", "deleted"}
           /\ \A c \in feed : c.expense \in Key /\ c.time \in Int /\ c.seq \in Nat
                              /\ c.client \in Key /\ c.body \in Key /\ c.op \in Op
           /\ \A s \in Slot : tx[s].stage \in {"appending", "drawn"} =>
                 /\ tx[s].change.expense \in Key /\ tx[s].change.time \in Int
                 /\ tx[s].change.seq \in Nat /\ tx[s].change.op = tx[s].wire.op
                 /\ tx[s].change.client = tx[s].wire.key /\ tx[s].wire.key \in Key
                 /\ tx[s].wire.op \in Op
                 /\ tx[s].stage = "appending" => tx[s].wire.op = "create"
<1>1. TypeOK /\ TxInv
  BY DEF IInv
<1>2. now \in Int /\ drawn \in Nat /\ tx \in [Slot -> Tx] /\ rows \in [Key -> Row]
      /\ feed \subseteq Change
  BY <1>1 DEF TypeOK
<1>3. \A k \in Key : rows[k].time \in Int /\ rows[k].state \in {"none", "live", "deleted"}
  BY <1>2 DEF Row
<1>4. \A c \in feed : c.expense \in Key /\ c.time \in Int /\ c.seq \in Nat
                      /\ c.client \in Key /\ c.body \in Key /\ c.op \in Op
  BY <1>2 DEF Change
<1>5. ASSUME NEW s \in Slot, tx[s].stage \in {"appending", "drawn"}
      PROVE  /\ tx[s].change.expense \in Key /\ tx[s].change.time \in Int
             /\ tx[s].change.seq \in Nat /\ tx[s].change.op = tx[s].wire.op
             /\ tx[s].change.client = tx[s].wire.key /\ tx[s].wire.key \in Key
             /\ tx[s].wire.op \in Op
             /\ tx[s].stage = "appending" => tx[s].wire.op = "create"
  BY <1>1, <1>5 DEF TxInv, TxOk, Busy, Change, Wire
<1>6. QED
  BY <1>2, <1>3, <1>4, <1>5

\* Pushes move from one connection to another, or end: the tables stay.
LEMMA Moving ==
    ASSUME IInv, ServerInv, UNCHANGED <<now, rows, receipts, feed, drawn>>,
           plan'.skew = plan.skew, NEW f \in [Slot -> Slot],
           \A s, t \in Slot : f[s] = f[t] => s = t,
           \A s \in Slot : tx'[s].stage \in {"appending", "drawn"} => tx'[s] = tx[f[s]]
    PROVE  ServerInv'
<1>1. ClockInv' /\ FeedInv'
  BY DEF ServerInv, ClockInv, FeedInv, Exists, Version, Says, Newest
<1>2. DrawnInv'
  BY DEF ServerInv, DrawnInv
<1>3. NewestInv'
  BY DEF ServerInv, NewestInv, Told, Newest, Creates
<1>4. ChangeInv'
  <2>1. /\ rows' = rows /\ now' = now
        /\ \A s \in Slot : f[s] \in Slot
        /\ \A s \in Slot : Creates(tx'[s]) => Creates(tx[f[s]]) /\ tx'[s] = tx[f[s]]
        /\ \A s \in Slot : Mutates(tx'[s]) => Mutates(tx[f[s]]) /\ tx'[s] = tx[f[s]]
    BY DEF Creates, Mutates
  <2>2. ASSUME NEW s \in Slot, Creates(tx'[s]) PROVE Appending(tx[s].wire, tx[s].change)'
    <3>1. Appending(tx[f[s]].wire, tx[f[s]].change) /\ tx'[s] = tx[f[s]]
      BY <2>1, <2>2 DEF ServerInv, ChangeInv
    <3>2. QED
      BY <2>1, <3>1 DEF Appending, Version, Says, Exists
  <2>3. ASSUME NEW s \in Slot, Mutates(tx'[s]) PROVE Altering(tx[s].wire, tx[s].change)'
    <3>1. Altering(tx[f[s]].wire, tx[f[s]].change) /\ tx'[s] = tx[f[s]]
      BY <2>1, <2>3 DEF ServerInv, ChangeInv
    <3>2. QED
      BY <2>1, <3>1 DEF Altering
  <2>4. ASSUME NEW s \in Slot, NEW t \in Slot, Mutates(tx'[s]), Mutates(tx'[t]),
               tx'[s].change.expense = tx'[t].change.expense
        PROVE  s = t
    <3>1. f[s] = f[t]
      BY <2>1, <2>4 DEF ServerInv, ChangeInv
    <3>2. QED
      BY <3>1
  <2>5. QED
    BY <2>2, <2>3, <2>4 DEF ChangeInv
<1>5. QED
  BY <1>1, <1>2, <1>3, <1>4 DEF ServerInv

LEMMA MovingNone ==
    ASSUME IInv, ServerInv, UNCHANGED <<now, rows, receipts, feed, drawn>>,
           plan'.skew = plan.skew,
           \A s \in Slot : tx'[s].stage \in {"appending", "drawn"} => tx'[s] = tx[s]
    PROVE  ServerInv'
<1>1. PICK f : f = [s \in Slot |-> s]
  OBVIOUS
<1>2. f \in [Slot -> Slot] /\ \A s \in Slot : f[s] = s
  BY <1>1
<1>3. QED
  BY <1>2, Moving

LEMMA RowsKept ==
    ASSUME UNCHANGED rows PROVE RowsGrow
  BY DEF RowsGrow

-----------------------------------------------------------------------------
(* Steps of the server keep what the feed says.                            *)

\* A push ends without another change.
LEMMA AnsweredServer ==
    ASSUME IInv, ServerInv, NEW s \in Slot, NEW answer \in Answers, Answered(s, answer),
           UNCHANGED <<now, rows, receipts, feed, drawn>>, plan'.skew = plan.skew
    PROVE  ServerInv'
<1>1. PICK u \in Tx : tx' = [tx EXCEPT ![s] = u] /\ u.stage \notin Busy
  BY AnswerTx
<1>2. tx \in [Slot -> Tx]
  BY DEF IInv, TypeOK
<1>3. \A t \in Slot : tx'[t].stage \in {"appending", "drawn"} => tx'[t] = tx[t]
  BY <1>1, <1>2 DEF Busy
<1>4. QED
  BY <1>3, MovingNone

\* What a step of the server makes of its push.
LEMMA Created ==
    ASSUME IInv, NEW s \in Slot, CreateExpense(s)
    PROVE  LET w == tx[s].wire
               k == w.key IN
           /\ tx[s].stage = "begun" /\ w.op = "create" /\ w \in Wire /\ k \in Key /\ w.body \in Key
           /\ UNCHANGED <<plan, feed, drawn, device, missed>>
           /\ receipts' = receipts \union {k}
           /\ \A j \in Key : j # k => rows'[j] = rows[j]
           /\ IF k \in receipts
              THEN rows' = rows /\ now' = now /\ rows[k].state # "none"
              ELSE /\ rows'[k].state = "live" /\ rows'[k].time = now + 2 /\ rows'[k].body = w.body
                   /\ now' = now + 2
           /\ \/ Answered(s, "error") /\ k \in receipts
              \/ /\ tx'[s].stage = "appending" /\ tx'[s].wire = w /\ rows'[k].state = "live"
                 /\ tx'[s].change = Numbered(k, "create", k, rows'[k].time, rows'[k].body)
                 /\ tx'[s].answer = tx[s].answer
                 /\ \A t \in Slot : t # s => tx'[t] = tx[t]
<1> DEFINE w == tx[s].wire
           k == w.key
<1>1. PICK row : row = IF k \in receipts THEN rows[k]
                       ELSE [state |-> "live", time |-> now + 2, body |-> w.body]
  OBVIOUS
<1>2. /\ tx[s].stage = "begun" /\ w.op = "create"
      /\ rows' = [rows EXCEPT ![k] = row]
      /\ receipts' = receipts \union {k}
      /\ now' = IF k \in receipts THEN now ELSE now + 2
      /\ UNCHANGED <<plan, feed, drawn, device, missed>>
      /\ \/ row.state = "deleted" /\ Answered(s, "error")
         \/ /\ row.state # "deleted"
            /\ tx' = [tx EXCEPT ![s].stage = "appending",
                                ![s].change = Numbered(k, "create", k, row.time, row.body)]
  BY <1>1 DEF CreateExpense
<1>3. /\ tx[s] \in Tx /\ w \in Wire /\ k \in Key
      /\ k \in receipts => rows[k].state # "none"
  BY <1>2, Wired DEF Busy
<1>4. w.body \in Key
  BY <1>3 DEF Wire
<1>5. rows \in [Key -> Row] /\ tx \in [Slot -> Tx]
  BY DEF IInv, TypeOK
<1>6. /\ rows'[k] = row /\ \A j \in Key : j # k => rows'[j] = rows[j]
      /\ k \in receipts => rows' = rows
  BY <1>1, <1>2, <1>3, <1>5
<1>7. CASE row.state = "deleted" /\ Answered(s, "error")
  BY <1>1, <1>2, <1>3, <1>4, <1>6, <1>7
<1>8. CASE /\ row.state # "deleted"
           /\ tx' = [tx EXCEPT ![s].stage = "appending",
                               ![s].change = Numbered(k, "create", k, row.time, row.body)]
  <2>1. /\ tx'[s] = [tx[s] EXCEPT !.stage = "appending",
                                  !.change = Numbered(k, "create", k, row.time, row.body)]
        /\ \A t \in Slot : t # s => tx'[t] = tx[t]
    BY <1>5, <1>8
  <2>2. /\ tx'[s].stage = "appending" /\ tx'[s].wire = w /\ tx'[s].answer = tx[s].answer
        /\ tx'[s].change = Numbered(k, "create", k, row.time, row.body)
    BY <1>3, <2>1 DEF Tx
  <2>3. row.state = "live"
    BY <1>1, <1>3, <1>5, <1>8 DEF Row
  <2>4. /\ tx'[s].stage = "appending" /\ tx'[s].wire = w /\ rows'[k].state = "live"
        /\ tx'[s].change = Numbered(k, "create", k, rows'[k].time, rows'[k].body)
        /\ tx'[s].answer = tx[s].answer
        /\ \A t \in Slot : t # s => tx'[t] = tx[t]
    BY <1>6, <2>1, <2>2, <2>3
  <2>5. k \notin receipts => row.time = now + 2 /\ row.body = w.body
    BY <1>1
  <2>6. QED
    BY <1>2, <1>3, <1>4, <1>6, <2>3, <2>4, <2>5
<1>9. QED
  BY <1>2, <1>7, <1>8

LEMMA Appended ==
    ASSUME IInv, NEW s \in Slot, AppendChange(s)
    PROVE  LET w == tx[s].wire IN
           /\ tx[s].stage = "appending" /\ w.op = "create"
           /\ UNCHANGED <<plan, now, rows, receipts, feed, device, missed>>
           /\ \/ Answered(s, "done") /\ drawn' = drawn /\ \E c \in feed : c.client = w.key
              \/ /\ drawn' = drawn + 1
                 /\ tx'[s].stage = "drawn" /\ tx'[s].wire = w /\ tx'[s].answer = tx[s].answer
                 /\ tx'[s].change = [tx[s].change EXCEPT !.seq = drawn + 1]
                 /\ \A t \in Slot : t # s => tx'[t] = tx[t]
<1> DEFINE w == tx[s].wire
<1>1. /\ tx[s].stage = "appending"
      /\ UNCHANGED <<plan, now, rows, receipts, feed, device, missed>>
      /\ \/ (\E c \in feed : c.client = w.key) /\ Answered(s, "done") /\ UNCHANGED drawn
         \/ /\ drawn' = drawn + 1
            /\ tx' = [tx EXCEPT ![s].stage = "drawn", ![s].change.seq = drawn + 1]
  BY DEF AppendChange
<1>2. tx[s] \in Tx /\ TxOk(tx[s]) /\ tx \in [Slot -> Tx]
  BY <1>1, Wired DEF Busy, IInv, TypeOK
<1>3. w.op = "create" /\ tx[s].change \in Change
  BY <1>1, <1>2 DEF TxOk
<1>4. CASE tx' = [tx EXCEPT ![s].stage = "drawn", ![s].change.seq = drawn + 1]
  <2>1. PICK u : u = [tx[s] EXCEPT !.stage = "drawn",
                                   !.change = [tx[s].change EXCEPT !.seq = drawn + 1]]
    OBVIOUS
  <2>2. u.stage = "drawn" /\ u.wire = w /\ u.answer = tx[s].answer
        /\ u.change = [tx[s].change EXCEPT !.seq = drawn + 1]
    BY <1>2, <2>1 DEF Tx
  <2>3. tx' = [tx EXCEPT ![s] = u]
    BY <1>2, <1>3, <1>4, <2>1 DEF Tx
  <2>4. tx'[s] = u /\ \A t \in Slot : t # s => tx'[t] = tx[t]
    BY <1>2, <2>3
  <2>5. QED
    BY <1>1, <1>2, <1>3, <1>4, <2>2, <2>4
<1>5. QED
  BY <1>1, <1>3, <1>4

LEMMA Mutated ==
    ASSUME IInv, NEW s \in Slot, Mutate(s)
    PROVE  LET w == tx[s].wire
               k == w.target[2] IN
           /\ tx[s].stage = "looked" /\ w.op # "create" /\ w \in Wire /\ k \in Key
           /\ UNCHANGED <<plan, rows, receipts, feed, device, missed>>
           /\ \/ /\ UNCHANGED <<now, drawn>>
                 /\ \E answer \in Answers \ {"done"} : Answered(s, answer)
              \/ /\ now' = now + 2 /\ drawn' = drawn + 1
                 /\ w.target = Remote(k) /\ rows[k].state = "live" /\ ~Locked(k)
                 /\ tx'[s].stage = "drawn" /\ tx'[s].wire = w /\ tx'[s].answer = tx[s].answer
                 /\ tx'[s].change = Numbered(k, w.op, w.key, now + 2, w.body)
                 /\ \A t \in Slot : t # s => tx'[t] = tx[t]
<1> DEFINE w == tx[s].wire
           k == w.target[2]
<1>1. /\ tx[s].stage = "looked" /\ ~Locked(k)
      /\ UNCHANGED <<plan, rows, receipts, feed, device, missed>>
      /\ \/ Verdict(w) # "none" /\ Answered(s, Verdict(w)) /\ UNCHANGED <<now, drawn>>
         \/ /\ Verdict(w) = "none" /\ now' = now + 2 /\ drawn' = drawn + 1
            /\ tx' = [tx EXCEPT ![s].stage = "drawn",
                        ![s].change = Numbered(w.target[2], w.op, w.key, now + 2, w.body)]
  BY DEF Mutate
<1>2. /\ tx[s] \in Tx /\ w \in Wire /\ TxOk(tx[s]) /\ k \in Key /\ tx \in [Slot -> Tx]
  BY <1>1, Wired DEF Busy, IInv, TypeOK
<1>3. w.op # "create"
  BY <1>1, <1>2 DEF TxOk
<1>4. CASE Verdict(w) # "none" /\ Answered(s, Verdict(w)) /\ UNCHANGED <<now, drawn>>
  <2>1. Verdict(w) \in Answers \ {"done"}
    BY DEF Verdict, Answers
  <2>2. QED
    BY <1>1, <1>2, <1>3, <1>4, <2>1
<1>5. CASE /\ Verdict(w) = "none" /\ now' = now + 2 /\ drawn' = drawn + 1
           /\ tx' = [tx EXCEPT ![s].stage = "drawn",
                       ![s].change = Numbered(w.target[2], w.op, w.key, now + 2, w.body)]
  <2>1. /\ tx'[s] = [tx[s] EXCEPT !.stage = "drawn",
                       !.change = Numbered(k, w.op, w.key, now + 2, w.body)]
        /\ \A t \in Slot : t # s => tx'[t] = tx[t]
    BY <1>2, <1>5
  <2>2. /\ tx'[s].stage = "drawn" /\ tx'[s].wire = w /\ tx'[s].answer = tx[s].answer
        /\ tx'[s].change = Numbered(k, w.op, w.key, now + 2, w.body)
    BY <1>2, <2>1 DEF Tx
  <2>3. w.target \in Id
    BY <1>2 DEF Wire
  <2>4. w.target[1] # "local" /\ rows[k].state \notin {"none", "deleted"}
    BY <1>5 DEF Verdict
  <2>5. w.target = Remote(k)
    BY <2>3, <2>4 DEF Id, Remote
  <2>6. rows[k].state = "live"
    BY <1>2, <2>4, ServerTyped
  <2>7. QED
    BY <1>1, <1>2, <1>3, <1>5, <2>1, <2>2, <2>5, <2>6
<1>6. QED
  BY <1>1, <1>4, <1>5

LEMMA Committed ==
    ASSUME IInv, NEW s \in Slot, Commit(s)
    PROVE  LET c == tx[s].change IN
           /\ tx[s].stage = "drawn" /\ c \in Change /\ c.expense \in Key
           /\ UNCHANGED <<plan, now, drawn, device>>
           /\ feed' = feed \union {c} /\ receipts' = receipts \union {c.client}
           /\ Answered(s, "done")
           /\ missed' = IF c.seq < Horizon THEN missed \union {c.expense} ELSE missed
           /\ c.op = "create" => rows' = rows
           /\ \A k \in Key : k # c.expense => rows'[k] = rows[k]
           /\ c.op # "create" =>
                 /\ rows'[c.expense].time = c.time
                 /\ IF c.op = "delete" THEN rows'[c.expense].state = "deleted"
                    ELSE rows'[c.expense].state = "live" /\ rows'[c.expense].body = c.body
<1> DEFINE c == tx[s].change
<1>1. PICK row : row = [state |-> IF c.op = "delete" THEN "deleted" ELSE "live", time |-> c.time,
                        body |-> IF c.op = "delete" THEN rows[c.expense].body ELSE c.body]
  OBVIOUS
<1>2. /\ tx[s].stage = "drawn"
      /\ feed' = feed \union {c} /\ receipts' = receipts \union {c.client}
      /\ rows' = IF c.op = "create" THEN rows ELSE [rows EXCEPT ![c.expense] = row]
      /\ missed' = IF c.seq < Horizon THEN missed \union {c.expense} ELSE missed
      /\ Answered(s, "done")
      /\ UNCHANGED <<plan, now, drawn, device>>
  BY <1>1 DEF Commit
<1>3. TxOk(tx[s]) /\ rows \in [Key -> Row]
  BY <1>2, Wired DEF Busy, IInv, TypeOK
<1>4. c \in Change
  BY <1>2, <1>3 DEF TxOk
<1>5. c.expense \in Key
  BY <1>4 DEF Change
<1>6. \A k \in Key : k # c.expense => rows'[k] = rows[k]
  BY <1>2, <1>3, <1>5
<1>7. c.op # "create" => rows'[c.expense] = row
  BY <1>2, <1>3, <1>5
<1>8. QED
  BY <1>1, <1>2, <1>4, <1>5, <1>6, <1>7

\* Tables and feed only grow.
Grows == RowsGrow /\ feed \subseteq feed' /\ receipts \subseteq receipts'

LEMMA CreatedServer ==
    ASSUME IInv, ServerInv, NEW s \in Slot, CreateExpense(s)
    PROVE  ServerInv' /\ Grows
<1> DEFINE w == tx[s].wire
           k == w.key
<1>1. /\ tx[s].stage = "begun" /\ w.op = "create" /\ w \in Wire /\ k \in Key /\ w.body \in Key
      /\ UNCHANGED <<plan, feed, drawn, device, missed>>
      /\ receipts' = receipts \union {k}
      /\ \A j \in Key : j # k => rows'[j] = rows[j]
  BY Created
<1>2. CASE k \in receipts
  <2>1. rows' = rows /\ now' = now /\ rows[k].state # "none"
    BY <1>2, Created
  <2>2. UNCHANGED <<now, rows, receipts, feed, drawn>> /\ plan'.skew = plan.skew
    BY <1>1, <1>2, <2>1
  <2>3. CASE Answered(s, "error")
    BY <2>2, <2>3, AnsweredServer, RowsKept DEF Grows, Answers
  <2>4. CASE /\ tx'[s].stage = "appending" /\ tx'[s].wire = w /\ rows'[k].state = "live"
             /\ tx'[s].change = Numbered(k, "create", k, rows'[k].time, rows'[k].body)
             /\ \A t \in Slot : t # s => tx'[t] = tx[t]
    <3>1. /\ tx'[s].change.expense = k /\ tx'[s].change.time = rows[k].time
          /\ tx'[s].change.body = rows[k].body
      BY <2>2, <2>4 DEF Numbered
    <3>2. ClockInv' /\ FeedInv'
      BY <2>2 DEF ServerInv, ClockInv, FeedInv, Exists, Version, Says, Newest
    <3>3. DrawnInv'
      BY <2>2, <2>4 DEF ServerInv, DrawnInv
    <3>4. NewestInv'
      <4>1. ASSUME NEW t \in Slot, Creates(tx'[t])
            PROVE  Newest(tx'[t].change) \/ \E c \in feed : c.expense = tx'[t].change.expense /\ Newest(c)
        <5>1. CASE t = s
          BY <3>1, <5>1 DEF Newest
        <5>2. CASE t # s
          BY <2>4, <4>1, <5>2 DEF ServerInv, NewestInv
        <5>3. QED
          BY <5>1, <5>2
      <4>2. QED
        BY <2>2, <4>1 DEF ServerInv, NewestInv, Told, Newest, Creates
    <3>5. ChangeInv'
      <4>1. \A t \in Slot : Mutates(tx'[t]) => Mutates(tx[t]) /\ tx'[t] = tx[t]
        BY <2>4 DEF Mutates
      <4>2. Version(k, rows[k].time) /\ Says(k, rows[k].time, rows[k].body)
        BY <1>1, <2>1, <2>2, <2>4 DEF ServerInv, ClockInv, Exists, Says
      <4>3. ASSUME NEW t \in Slot, Creates(tx[t])' PROVE Appending(tx[t].wire, tx[t].change)'
        <5>1. CASE t = s
          <6>1. Appending(w, tx'[t].change)
            BY <2>4, <3>1, <4>2, <5>1 DEF Appending, Numbered
          <6>2. tx'[t].wire = w
            BY <2>4, <5>1
          <6>3. QED
            BY <2>2, <6>1, <6>2 DEF Appending, Version, Says, Exists
        <5>2. CASE t # s
          BY <2>2, <2>4, <4>3, <5>2
             DEF ServerInv, ChangeInv, Creates, Appending, Version, Says, Exists
        <5>3. QED
          BY <5>1, <5>2
      <4>4. ASSUME NEW t \in Slot, Mutates(tx[t])' PROVE Altering(tx[t].wire, tx[t].change)'
        BY <2>2, <4>1, <4>4 DEF ServerInv, ChangeInv, Altering
      <4>5. QED
        BY <4>1, <4>3, <4>4 DEF ServerInv, ChangeInv
    <3>6. QED
      BY <2>2, <3>2, <3>3, <3>4, <3>5, RowsKept DEF ServerInv, Grows
  <2>5. QED
    BY <2>3, <2>4, Created
<1>3. CASE k \notin receipts
  <2>1. /\ rows'[k].state = "live" /\ rows'[k].time = now + 2 /\ rows'[k].body = w.body
        /\ now' = now + 2
    BY <1>3, Created
  <2>2. /\ tx'[s].stage = "appending" /\ tx'[s].wire = w
        /\ tx'[s].change = Numbered(k, "create", k, rows'[k].time, rows'[k].body)
        /\ \A t \in Slot : t # s => tx'[t] = tx[t]
    BY <1>3, Created
  <2>3. /\ tx'[s].change.expense = k /\ tx'[s].change.time = now + 2
        /\ tx'[s].change.body = w.body
    BY <2>1, <2>2 DEF Numbered
  <2>4. ~Exists(k)
    BY <1>1, <1>3 DEF ServerInv, ClockInv
  <2>5. \A c \in feed : c.expense # k /\ c.expense \in Key
    BY <2>4, ServerTyped DEF ServerInv, FeedInv, Version
  <2>6. \A t \in Slot : t # s /\ (Creates(tx[t]) \/ Mutates(tx[t])) =>
            tx[t].change.expense # k /\ tx[t].change.expense \in Key
    BY <2>4, ServerTyped DEF ServerInv, ChangeInv, Appending, Altering, Version, Exists, Creates, Mutates
  <2>7. now \in Int /\ now < now' /\ Even(now') /\ plan' = plan
    BY <1>1, <2>1, ServerTyped, EvenNext DEF ServerInv, ClockInv
  <2>8. ClockInv'
    <3>1. /\ rows'[k].time = now' /\ rows'[k].state = "live" /\ k \in receipts'
          /\ 0 < now' /\ now' \in Int
      BY <1>1, <2>1, <2>7 DEF ServerInv, ClockInv
    <3>2. \A j \in Key : j # k /\ Exists(j) => rows[j].time <= now'
      BY <2>1, <2>7, ServerTyped DEF ServerInv, ClockInv
    <3>3. QED
      BY <1>1, <2>7, <3>1, <3>2 DEF ServerInv, ClockInv, Exists, Version
  <2>9. FeedInv'
    BY <1>1, <2>5 DEF ServerInv, FeedInv, Version, Exists, Says, Newest
  <2>10. DrawnInv'
    BY <1>1, <2>2 DEF ServerInv, DrawnInv
  <2>11. NewestInv'
    <3>1. ASSUME NEW j \in Key, Told(j)' \/ rows'[j].state = "deleted"
          PROVE  \E c \in feed' : c.expense = j /\ Newest(c)'
      <4>1. j # k
        BY <1>1, <2>1, <2>5, <3>1 DEF Told
      <4>2. PICK c \in feed : c.expense = j /\ Newest(c)
        BY <1>1, <3>1, <4>1 DEF ServerInv, NewestInv, Told
      <4>3. QED
        BY <1>1, <4>1, <4>2 DEF Newest
    <3>2. ASSUME NEW t \in Slot, Creates(tx'[t])
          PROVE  \/ Newest(tx[t].change)'
                 \/ \E c \in feed' : c.expense = tx'[t].change.expense /\ Newest(c)'
      <4>1. CASE t = s
        BY <2>1, <2>3, <4>1 DEF Newest
      <4>2. CASE t # s
        BY <1>1, <2>2, <2>5, <2>6, <3>2, <4>2 DEF ServerInv, NewestInv, Newest, Creates
      <4>3. QED
        BY <4>1, <4>2
    <3>3. QED
      BY <3>1, <3>2 DEF NewestInv, Newest
  <2>12. ChangeInv'
    <3>1. ASSUME NEW t \in Slot, Creates(tx[t])' PROVE Appending(tx[t].wire, tx[t].change)'
      <4>1. CASE t = s
        BY <2>1, <2>2, <2>3, <2>7, <4>1
           DEF Appending, Version, Says, Exists, ServerInv, ClockInv
      <4>2. CASE t # s
        <5>1. tx'[t] = tx[t] /\ Creates(tx[t]) /\ tx[t].change.expense \in Key \ {k}
          BY <2>2, <2>6, <3>1, <4>2 DEF Creates
        <5>2. Appending(tx[t].wire, tx[t].change)
          BY <5>1 DEF ServerInv, ChangeInv
        <5>3. QED
          BY <1>1, <5>1, <5>2 DEF Appending, Version, Says, Exists
      <4>3. QED
        BY <4>1, <4>2
    <3>2. \A t \in Slot : Mutates(tx'[t]) =>
              Mutates(tx[t]) /\ tx'[t] = tx[t] /\ tx[t].change.expense \in Key \ {k}
                /\ tx[t].change.time \in Int
      <4>1. \A t \in Slot : Mutates(tx'[t]) => Mutates(tx[t]) /\ tx'[t] = tx[t] /\ t # s
        BY <1>1, <2>2 DEF Mutates
      <4>2. \A t \in Slot : Mutates(tx[t]) => tx[t].change.time \in Int
        BY ServerTyped DEF Mutates
      <4>3. QED
        BY <2>6, <4>1, <4>2
    <3>3. ASSUME NEW t \in Slot, Mutates(tx[t])' PROVE Altering(tx[t].wire, tx[t].change)'
      <4>1. Altering(tx[t].wire, tx[t].change)
        BY <3>2, <3>3 DEF ServerInv, ChangeInv
      <4>2. QED
        BY <1>1, <2>1, <2>7, <3>2, <3>3, <4>1 DEF Altering
    <3>4. QED
      BY <3>1, <3>2, <3>3 DEF ChangeInv, ServerInv
  <2>13. Grows
    BY <1>1, <2>4 DEF Grows, RowsGrow
  <2>14. QED
    BY <2>8, <2>9, <2>10, <2>11, <2>12, <2>13 DEF ServerInv
<1>4. QED
  BY <1>2, <1>3

LEMMA AppendedServer ==
    ASSUME IInv, ServerInv, NEW s \in Slot, AppendChange(s)
    PROVE  ServerInv'
<1> DEFINE c == tx[s].change
<1>1. /\ tx[s].stage = "appending" /\ tx[s].wire.op = "create"
      /\ UNCHANGED <<plan, now, rows, receipts, feed, device, missed>>
  BY Appended
<1>2. CASE Answered(s, "done") /\ drawn' = drawn
  BY <1>1, <1>2, AnsweredServer DEF Answers
<1>3. CASE /\ drawn' = drawn + 1
           /\ tx'[s].stage = "drawn" /\ tx'[s].wire = tx[s].wire
           /\ tx'[s].change = [c EXCEPT !.seq = drawn + 1]
           /\ \A t \in Slot : t # s => tx'[t] = tx[t]
  <2>1. c \in Change /\ drawn \in Nat
    <3>1. TxOk(tx[s])
      BY <1>1, Wired DEF Busy
    <3>2. QED
      BY <1>1, <3>1, ServerTyped DEF TxOk
  <2>2. /\ tx'[s].change.expense = c.expense /\ tx'[s].change.time = c.time
        /\ tx'[s].change.body = c.body /\ tx'[s].change.seq = drawn + 1
    BY <1>3, <2>1 DEF Change
  <2>3. \A t \in Slot : /\ Creates(tx'[t]) => Creates(tx[t])
                        /\ Mutates(tx'[t]) => Mutates(tx[t])
                        /\ tx'[t].wire = tx[t].wire
    BY <1>1, <1>3 DEF Creates, Mutates
  <2>4. \A t \in Slot : /\ tx'[t].change.expense = tx[t].change.expense
                        /\ tx'[t].change.time = tx[t].change.time
                        /\ tx'[t].change.body = tx[t].change.body
    BY <1>3, <2>2
  <2>5. ClockInv'
    BY <1>1 DEF ServerInv, ClockInv, Exists, Version
  <2>6. FeedInv'
    BY <1>1, <1>3, <2>1, ServerTyped DEF ServerInv, FeedInv, Exists, Version, Says, Newest
  <2>7. DrawnInv'
    <3>1. \A d \in feed : d.seq \in 1..drawn
      BY DEF ServerInv, FeedInv
    <3>2. \A t \in Slot : t # s /\ tx'[t].stage = "drawn" =>
             tx'[t] = tx[t] /\ tx[t].change.seq \in 1..drawn /\ tx[t].stage = "drawn"
      BY <1>3 DEF ServerInv, DrawnInv
    <3>3. drawn + 1 \notin 1..drawn /\ 1..drawn \subseteq 1..drawn' /\ drawn + 1 \in 1..drawn'
      BY <1>3, <2>1
    <3>4. QED
      BY <1>1, <2>2, <3>1, <3>2, <3>3 DEF ServerInv, DrawnInv
  <2>8. NewestInv'
    BY <1>1, <2>3, <2>4 DEF ServerInv, NewestInv, Told, Newest
  <2>9. ChangeInv'
    BY <1>1, <2>3, <2>4 DEF ServerInv, ChangeInv, Appending, Altering, Exists, Version, Says
  <2>10. QED
    BY <2>5, <2>6, <2>7, <2>8, <2>9 DEF ServerInv
<1>4. QED
  BY <1>2, <1>3, Appended

LEMMA MutatedServer ==
    ASSUME IInv, ServerInv, NEW s \in Slot, Mutate(s)
    PROVE  ServerInv'
<1> DEFINE w == tx[s].wire
           k == w.target[2]
<1>1. /\ tx[s].stage = "looked" /\ w.op # "create" /\ w \in Wire /\ k \in Key
      /\ UNCHANGED <<plan, rows, receipts, feed, device, missed>>
  BY Mutated
<1>2. CASE UNCHANGED <<now, drawn>> /\ \E answer \in Answers \ {"done"} : Answered(s, answer)
  BY <1>1, <1>2, AnsweredServer
<1>3. CASE /\ now' = now + 2 /\ drawn' = drawn + 1
           /\ w.target = Remote(k) /\ rows[k].state = "live" /\ ~Locked(k)
           /\ tx'[s].stage = "drawn" /\ tx'[s].wire = w
           /\ tx'[s].change = Numbered(k, w.op, w.key, now + 2, w.body)
           /\ \A t \in Slot : t # s => tx'[t] = tx[t]
  <2>1. now \in Int /\ now' \in Int /\ drawn \in Nat /\ Even(now') /\ rows[k].time <= now
        /\ now < now' /\ 0 < now
    BY <1>1, <1>3, ServerTyped, EvenNext DEF ServerInv, ClockInv, Exists
  <2>2. /\ tx'[s].change.expense = k /\ tx'[s].change.time = now + 2
        /\ tx'[s].change.body = w.body /\ tx'[s].change.seq = drawn + 1
    BY <1>3, <2>1 DEF Numbered
  <2>3. \A t \in Slot : /\ Creates(tx'[t]) => t # s /\ tx'[t] = tx[t]
                        /\ Mutates(tx'[t]) => t = s \/ (Mutates(tx[t]) /\ tx'[t] = tx[t])
    BY <1>1, <1>3 DEF Creates, Mutates
  <2>4. \A t \in Slot : Mutates(tx[t]) => tx[t].change.expense # k
    BY <1>3 DEF Mutates, Locked
  <2>5. ClockInv'
    BY <1>1, <2>1, ServerTyped DEF ServerInv, ClockInv, Exists, Version
  <2>6. FeedInv'
    BY <1>1, <1>3, <2>1, ServerTyped DEF ServerInv, FeedInv, Exists, Version, Says, Newest
  <2>7. DrawnInv'
    <3>1. \A d \in feed : d.seq \in 1..drawn
      BY DEF ServerInv, FeedInv
    <3>2. \A t \in Slot : t # s /\ tx'[t].stage = "drawn" =>
             tx'[t] = tx[t] /\ tx[t].change.seq \in 1..drawn /\ tx[t].stage = "drawn"
      BY <1>3 DEF ServerInv, DrawnInv
    <3>3. drawn + 1 \notin 1..drawn /\ 1..drawn \subseteq 1..drawn' /\ drawn + 1 \in 1..drawn'
      BY <1>3, <2>1
    <3>4. QED
      BY <1>1, <2>2, <3>1, <3>2, <3>3 DEF ServerInv, DrawnInv
  <2>8. NewestInv'
    BY <1>1, <2>3 DEF ServerInv, NewestInv, Told, Newest
  <2>9. ChangeInv'
    <3>1. ASSUME NEW t \in Slot, Creates(tx[t])' PROVE Appending(tx[t].wire, tx[t].change)'
      BY <1>1, <2>3, <3>1 DEF ServerInv, ChangeInv, Creates, Appending, Exists, Version, Says
    <3>2. ASSUME NEW t \in Slot, Mutates(tx[t])' PROVE Altering(tx[t].wire, tx[t].change)'
      <4>1. CASE t = s
        BY <1>1, <1>3, <2>1, <2>2, <4>1, ServerTyped DEF Altering
      <4>2. CASE t # s
        <5>1. Mutates(tx[t]) /\ tx'[t] = tx[t]
          BY <2>3, <3>2, <4>2
        <5>2. tx[t].change.time \in Int
          BY <5>1, ServerTyped DEF Mutates
        <5>3. QED
          BY <1>1, <2>1, <5>1, <5>2 DEF ServerInv, ChangeInv, Altering
      <4>3. QED
        BY <4>1, <4>2
    <3>3. QED
      BY <2>2, <2>3, <2>4, <3>1, <3>2 DEF ServerInv, ChangeInv
  <2>10. QED
    BY <2>5, <2>6, <2>7, <2>8, <2>9 DEF ServerInv
<1>4. QED
  BY <1>2, <1>3, Mutated

LEMMA CommittedServer ==
    ASSUME IInv, ServerInv, NEW s \in Slot, Commit(s)
    PROVE  ServerInv' /\ Grows
<1>0. PICK c : c = tx[s].change
  OBVIOUS
<1> DEFINE k == c.expense
<1>1. /\ tx[s].stage = "drawn" /\ c \in Change /\ k \in Key
      /\ UNCHANGED <<plan, now, drawn, device>>
      /\ feed' = feed \union {c} /\ receipts' = receipts \union {c.client}
      /\ Answered(s, "done")
      /\ c.op = "create" => rows' = rows
      /\ \A j \in Key : j # k => rows'[j] = rows[j]
      /\ c.op # "create" =>
            /\ rows'[k].time = c.time
            /\ IF c.op = "delete" THEN rows'[k].state = "deleted"
               ELSE rows'[k].state = "live" /\ rows'[k].body = c.body
  BY <1>0, Committed
<1>2. /\ c.op = tx[s].wire.op /\ c.client = tx[s].wire.key /\ c.time \in Int /\ c.seq \in 1..drawn
      /\ \A d \in feed : d.seq # c.seq
  BY <1>0, <1>1, ServerTyped DEF ServerInv, DrawnInv
<1>3. PICK u \in Tx : tx' = [tx EXCEPT ![s] = u] /\ u.stage \notin Busy
  BY <1>1, AnswerTx DEF Answers
<1>4. /\ tx'[s].stage \notin Busy /\ \A t \in Slot : t # s => tx'[t] = tx[t]
  BY <1>3 DEF IInv, TypeOK
<1>5. \A t \in Slot : tx'[t].stage \in {"appending", "drawn"} => t # s /\ tx'[t] = tx[t]
  BY <1>4 DEF Busy
<1>6. IsFiniteSet(feed')
  BY <1>1, FS_AddElement DEF ServerInv, FeedInv
<1>7. DrawnInv'
  BY <1>0, <1>1, <1>2, <1>5 DEF ServerInv, DrawnInv
<1>8. CASE c.op = "create"
  <2>1. Creates(tx[s]) /\ rows' = rows
    BY <1>0, <1>1, <1>2, <1>8 DEF Creates
  <2>2. Appending(tx[s].wire, c)
    BY <1>0, <2>1 DEF ServerInv, ChangeInv
  <2>3. ClockInv'
    BY <1>1, <2>1 DEF ServerInv, ClockInv, Exists, Version
  <2>4. FeedInv'
    BY <1>1, <1>2, <1>6, <1>8, <2>1, <2>2
       DEF ServerInv, FeedInv, Exists, Version, Says, Newest, Appending
  <2>5. NewestInv'
    <3>1. Newest(c) \/ \E d \in feed : d.expense = k /\ Newest(d)
      BY <1>0, <2>1 DEF ServerInv, NewestInv
    <3>2. \E d \in feed' : d.expense = k /\ Newest(d)
      BY <1>1, <3>1
    <3>3. ASSUME NEW j \in Key, Told(j)' \/ rows'[j].state = "deleted"
          PROVE  \E d \in feed' : d.expense = j /\ Newest(d)
      <4>1. j # k => Told(j) \/ rows[j].state = "deleted"
        BY <1>1, <2>1, <3>3 DEF Told
      <4>2. QED
        BY <1>1, <3>2, <4>1 DEF ServerInv, NewestInv
    <3>4. ASSUME NEW t \in Slot, Creates(tx'[t])
          PROVE  \/ Newest(tx'[t].change)
                 \/ \E d \in feed' : d.expense = tx'[t].change.expense /\ Newest(d)
      <4>1. tx'[t] = tx[t] /\ Creates(tx[t])
        BY <1>5, <3>4 DEF Creates
      <4>2. QED
        BY <1>1, <4>1 DEF ServerInv, NewestInv
    <3>5. QED
      BY <2>1, <3>3, <3>4 DEF NewestInv, Newest
  <2>6. ChangeInv'
    BY <1>1, <1>5, <2>1
       DEF ServerInv, ChangeInv, Creates, Mutates, Appending, Altering, Version, Says, Exists
  <2>7. Grows
    BY <1>1, <2>1, RowsKept DEF Grows
  <2>8. QED
    BY <1>7, <2>3, <2>4, <2>5, <2>6, <2>7 DEF ServerInv
<1>9. CASE c.op # "create"
  <2>1. Mutates(tx[s])
    BY <1>0, <1>1, <1>2, <1>9 DEF Mutates
  <2>2. /\ tx[s].wire.target = Remote(k) /\ c.body = tx[s].wire.body
        /\ rows[k].state = "live" /\ rows[k].time < c.time
        /\ Even(c.time) /\ c.time <= now
    BY <1>0, <2>1 DEF ServerInv, ChangeInv, Altering
  <2>3. \A t \in Slot : Mutates(tx[t]) /\ tx[t].change.expense = k => t = s
    BY <1>0, <2>1 DEF ServerInv, ChangeInv
  <2>4. k \in receipts /\ rows[k].time \in Int /\ 0 < rows[k].time
    BY <1>1, <2>2, ServerTyped DEF ServerInv, ClockInv, Version, Exists
  <2>5. rows'[k].time = c.time /\ Exists(k)' /\ rows'[k].state \in {"live", "deleted"}
    BY <1>1, <1>9 DEF Exists
  <2>6. Grows
    BY <1>1, <1>2, <2>2, <2>5 DEF Grows, RowsGrow
  <2>7. ClockInv'
    <3>1. Version(k, rows[k].time)' /\ rows'[k].time <= now'
      BY <1>1, <1>2, <2>2, <2>4, <2>5 DEF Version
    <3>2. \A j \in Key : j # k /\ Exists(j)' =>
             j \in receipts' /\ Version(j, rows[j].time)' /\ rows'[j].time <= now'
      BY <1>1 DEF ServerInv, ClockInv, Version, Exists
    <3>3. QED
      BY <1>1, <2>4, <3>1, <3>2 DEF ServerInv, ClockInv
  \* An older version stays one, whatever was read of it.
  <2>8. ASSUME NEW j \in Key, NEW time \in Int, Version(j, time)
        PROVE  /\ Version(j, time)' /\ (j = k => time # rows'[k].time)
               /\ \A body : Says(j, time, body) => Says(j, time, body)'
    <3>1. CASE j = k
      <4>1. time < c.time
        BY <1>2, <2>2, <2>4, <2>8, <3>1 DEF Version
      <4>2. QED
        BY <1>2, <2>5, <2>8, <3>1, <4>1 DEF Version, Says
    <3>2. CASE j # k
      BY <1>1, <2>8, <3>2 DEF Version, Says, Exists
    <3>3. QED
      BY <3>1, <3>2
  <2>9. ASSUME NEW d \in feed PROVE d.expense \in Key /\ d.time \in Int /\ Version(d.expense, d.time)
    BY ServerTyped DEF ServerInv, FeedInv
  <2>10. FeedInv'
    <3>1. ASSUME NEW d \in feed
          PROVE  /\ Version(d.expense, d.time)' /\ d.seq \in 1..drawn'
                 /\ IF d.op = "delete" THEN Newest(d)' /\ rows'[d.expense].state = "deleted"
                    ELSE Says(d.expense, d.time, d.body)'
                 /\ d.op = "create" => d.client = d.expense
      <4>1. d.op = "delete" => d.expense # k /\ Newest(d) /\ rows[d.expense].state = "deleted"
        BY <2>2 DEF ServerInv, FeedInv
      <4>2. d.op = "delete" => Newest(d)' /\ rows'[d.expense].state = "deleted"
        BY <1>1, <2>9, <4>1 DEF Newest
      <4>3. QED
        BY <1>1, <2>8, <2>9, <4>2 DEF ServerInv, FeedInv
    <3>2. /\ Version(k, c.time)' /\ Newest(c)'
          /\ IF c.op = "delete" THEN rows'[k].state = "deleted" ELSE Says(k, c.time, c.body)'
      BY <1>1, <1>2, <1>9, <2>2, <2>4, <2>5 DEF Version, Newest, Says
    <3>3. QED
      BY <1>1, <1>2, <1>6, <1>9, <3>1, <3>2 DEF FeedInv
  <2>11. NewestInv'
    <3>1. c \in feed' /\ Newest(c)'
      BY <1>1, <2>5 DEF Newest
    <3>2. ASSUME NEW j \in Key, j # k, NEW d, d.expense = j, Newest(d) PROVE Newest(d)'
      BY <1>1, <3>2 DEF Newest
    <3>3. ASSUME NEW j \in Key, Told(j)' \/ rows'[j].state = "deleted"
          PROVE  \E d \in feed' : d.expense = j /\ Newest(d)'
      <4>1. j # k => Told(j) \/ rows[j].state = "deleted"
        BY <1>1, <3>3 DEF Told
      <4>2. QED
        BY <1>1, <3>1, <3>2, <4>1 DEF ServerInv, NewestInv
    <3>4. ASSUME NEW t \in Slot, Creates(tx'[t])
          PROVE  \/ Newest(tx[t].change)'
                 \/ \E d \in feed' : d.expense = tx'[t].change.expense /\ Newest(d)'
      <4>1. tx'[t] = tx[t] /\ Creates(tx[t]) /\ tx[t].change.expense \in Key
        BY <1>5, <3>4, ServerTyped DEF Creates
      <4>2. CASE tx[t].change.expense = k
        BY <3>1, <4>1, <4>2
      <4>3. CASE tx[t].change.expense # k
        BY <1>1, <3>2, <4>1, <4>3 DEF ServerInv, NewestInv
      <4>4. QED
        BY <4>2, <4>3
    <3>5. QED
      BY <3>3, <3>4 DEF NewestInv
  <2>12. ChangeInv'
    <3>1. \A t \in Slot : /\ Creates(tx'[t]) => Creates(tx[t]) /\ tx'[t] = tx[t]
                          /\ Mutates(tx'[t]) => Mutates(tx[t]) /\ tx'[t] = tx[t] /\ t # s
      BY <1>5 DEF Creates, Mutates
    <3>2. ASSUME NEW t \in Slot, Creates(tx'[t]) PROVE Appending(tx[t].wire, tx[t].change)'
      <4>1. /\ Appending(tx[t].wire, tx[t].change) /\ tx'[t] = tx[t]
            /\ tx[t].change.expense \in Key /\ tx[t].change.time \in Int
        BY <3>1, <3>2, ServerTyped DEF ServerInv, ChangeInv, Creates
      <4>2. QED
        BY <2>8, <4>1 DEF Appending
    <3>3. ASSUME NEW t \in Slot, Mutates(tx'[t]) PROVE Altering(tx[t].wire, tx[t].change)'
      <4>1. Altering(tx[t].wire, tx[t].change) /\ tx'[t] = tx[t] /\ tx[t].change.expense \in Key
        BY <3>1, <3>3, ServerTyped DEF ServerInv, ChangeInv, Mutates
      <4>2. tx[t].change.expense # k
        BY <2>3, <3>1, <3>3
      <4>3. QED
        BY <1>1, <4>1, <4>2 DEF Altering
    <3>4. QED
      BY <3>1, <3>2, <3>3 DEF ServerInv, ChangeInv
  <2>13. QED
    BY <1>7, <2>6, <2>7, <2>10, <2>11, <2>12 DEF ServerInv
<1>10. QED
  BY <1>8, <1>9

LEMMA AskedServer ==
    ASSUME IInv, ServerInv, NEW s \in Slot, GetReceipt(s) \/ Fail(s, "error") \/ Fail(s, "refused")
    PROVE  ServerInv'
<1>1. UNCHANGED <<now, rows, receipts, feed, drawn>>
  BY DEF GetReceipt, Fail
<1>2. plan'.skew = plan.skew
  BY DEF GetReceipt, Fail, IInv, TypeOK, Plan
<1>3. CASE \E answer \in Answers : Answered(s, answer)
  BY <1>1, <1>2, <1>3, AnsweredServer
<1>4. CASE tx' = [tx EXCEPT ![s].stage = "looked"]
  <2>1. \A t \in Slot : tx'[t].stage \in {"appending", "drawn"} => tx'[t] = tx[t]
    BY <1>4 DEF IInv, TypeOK, Tx
  <2>2. QED
    BY <1>1, <1>2, <2>1, MovingNone
<1>5. QED
  BY <1>3, <1>4 DEF GetReceipt, Fail, Answers

\* A push begins.
LEMMA BegunServer ==
    ASSUME IInv, ServerInv, UNCHANGED <<now, rows, receipts, feed, drawn>>, plan'.skew = plan.skew,
           NEW s \in Slot, NEW wire, tx' = [tx EXCEPT ![s] = Begun(wire)]
    PROVE  ServerInv'
<1>1. Begun(wire).stage = "begun"
  BY DEF Begun, NoTx
<1>2. \A t \in Slot : tx'[t].stage \in {"appending", "drawn"} => tx'[t] = tx[t]
  BY <1>1 DEF IInv, TypeOK
<1>3. QED
  BY <1>2, MovingNone

LEMMA PushedServer ==
    ASSUME IInv, ServerInv, NEW k \in Key, NEW op \in Op, OtherPushes(k, op)
    PROVE  ServerInv'
<1>1. UNCHANGED <<now, rows, receipts, feed, drawn>>
  BY DEF OtherPushes
<1>2. plan'.skew = plan.skew
  BY DEF OtherPushes, IInv, TypeOK, Plan
<1>3. PICK wire : tx' = [tx EXCEPT !["other"] = Begun(wire)]
  BY DEF OtherPushes
<1>4. QED
  BY <1>1, <1>2, <1>3, BegunServer DEF Slot

\* The device's connection is left: its push goes on, or there was none.
LEMMA AbandonedServer ==
    ASSUME IInv, ServerInv, UNCHANGED server, plan'.skew = plan.skew,
           tx["late"] = NoTx, tx' = Abandoned
    PROVE  ServerInv'
<1>1. UNCHANGED <<now, rows, receipts, feed, drawn>> /\ tx \in [Slot -> Tx] /\ NoTx.stage = "none"
  BY DEF server, IInv, TypeOK, NoTx
<1>2. PICK f : f = [s \in Slot |-> IF s = "late" THEN "device" ELSE IF s = "device" THEN "late" ELSE s]
  OBVIOUS
<1>3. f \in [Slot -> Slot] /\ \A s, t \in Slot : f[s] = f[t] => s = t
  BY <1>2 DEF Slot
<1>4. CASE tx' = [tx EXCEPT !["device"] = NoTx]
  <2>1. \A s \in Slot : tx'[s].stage \in {"appending", "drawn"} => tx'[s] = tx[s]
    BY <1>1, <1>4 DEF Slot
  <2>2. QED
    BY <1>1, <2>1, MovingNone
<1>5. CASE tx' = [tx EXCEPT !["device"] = NoTx, !["late"] = tx["device"]]
  <2>1. tx'["device"] = NoTx /\ tx'["late"] = tx["device"] /\ tx'["other"] = tx["other"]
    BY <1>1, <1>5 DEF Slot
  <2>2. \A s \in Slot : tx'[s].stage \in {"appending", "drawn"} => tx'[s] = tx[f[s]]
    BY <1>1, <1>2, <2>1 DEF Slot
  <2>3. QED
    BY <1>1, <1>3, <2>2, Moving
<1>6. QED
  BY <1>4, <1>5 DEF Abandoned

-----------------------------------------------------------------------------
(* What the operations are about.                                          *)

\* An update or delete is about one expense and writes one body, wherever it
\* occurs: in the queue, in the feed, or on its way.
Held ==
    {<<tasks[i].key, tasks[i].target, tasks[i].body>> : i \in {j \in DOMAIN tasks : tasks[j].op # "create"}}
    \union {<<c.client, Remote(c.expense), c.body>> : c \in {d \in feed : d.op # "create"}}
Claims ==
    Held \union {<<tx[s].wire.key, tx[s].wire.target, tx[s].wire.body>>
                   : s \in {t \in Underway : tx[t].wire.op # "create"}}

ClaimInv ==
    /\ \A p, q \in Claims : p[1] = q[1] => p = q
    /\ \A k \in Key : Exists(k) => \A p \in Uses : p[1] = k => p[2] = "create"
    /\ \A k \in receipts : Exists(k) \/ \E c \in feed : c.client = k

\* Tasks are added, or change their status, code and retries.
Extends ==
    /\ DOMAIN tasks \subseteq DOMAIN tasks'
    /\ \A i \in DOMAIN tasks :
          /\ tasks'[i].key = tasks[i].key /\ tasks'[i].op = tasks[i].op
          /\ tasks'[i].target = tasks[i].target /\ tasks'[i].body = tasks[i].body

\* Nothing goes on that did not before.
SameCalls ==
    \A s \in Slot : tx'[s].stage \in Busy =>
        \E t \in Slot : tx[t].stage \in Busy /\ tx'[s].wire = tx[t].wire

\* What is held is kept.
LEMMA HeldGrows ==
    ASSUME Extends, feed \subseteq feed' PROVE Held \subseteq Held'
  BY DEF Extends, Held

LEMMA ClaimsShrink ==
    ASSUME SameTasks, SameCalls, feed' = feed
    PROVE  Uses' \subseteq Uses /\ Claims' \subseteq Claims /\ Held' = Held
<1>1. Held' = Held
  BY DEF SameTasks, Held
<1>2. \A s \in Underway' : \E t \in Underway : tx'[s].wire = tx[t].wire
  BY DEF SameCalls, Underway
<1>3. Claims' \subseteq Claims
  BY <1>1, <1>2 DEF Claims
<1>4. Uses' \subseteq Uses
  BY <1>2 DEF Uses, SameTasks
<1>5. QED
  BY <1>1, <1>3, <1>4

\* A claim is that of an operation.
LEMMA ClaimsUse ==
    ASSUME NEW p \in Claims
    PROVE  \E q \in Uses : q[1] = p[1] /\ q[2] # "create"
<1>1. ASSUME NEW i \in DOMAIN tasks, tasks[i].op # "create",
             p = <<tasks[i].key, tasks[i].target, tasks[i].body>>
      PROVE  \E q \in Uses : q[1] = p[1] /\ q[2] # "create"
  <2>1. <<tasks[i].key, tasks[i].op>> \in Uses
    BY DEF Uses
  <2>2. QED
    BY <1>1, <2>1
<1>2. ASSUME NEW c \in feed, c.op # "create", p = <<c.client, Remote(c.expense), c.body>>
      PROVE  \E q \in Uses : q[1] = p[1] /\ q[2] # "create"
  <2>1. <<c.client, c.op>> \in Uses
    BY DEF Uses
  <2>2. QED
    BY <1>2, <2>1
<1>3. ASSUME NEW s \in Underway, tx[s].wire.op # "create",
             p = <<tx[s].wire.key, tx[s].wire.target, tx[s].wire.body>>
      PROVE  \E q \in Uses : q[1] = p[1] /\ q[2] # "create"
  <2>1. <<tx[s].wire.key, tx[s].wire.op>> \in Uses
    BY DEF Uses
  <2>2. QED
    BY <1>3, <2>1
<1>4. \/ \E i \in DOMAIN tasks : /\ tasks[i].op # "create"
                                /\ p = <<tasks[i].key, tasks[i].target, tasks[i].body>>
      \/ \E c \in feed : c.op # "create" /\ p = <<c.client, Remote(c.expense), c.body>>
      \/ \E s \in Underway : /\ tx[s].wire.op # "create"
                            /\ p = <<tx[s].wire.key, tx[s].wire.target, tx[s].wire.body>>
  BY DEF Claims, Held
<1>5. QED
  BY <1>1, <1>2, <1>3, <1>4

\* A key that is still to be used claims nothing.
LEMMA NewClaims ==
    ASSUME IInv, ServerInv, NEW k \in New(plan)
    PROVE  /\ k \notin receipts /\ ~Exists(k)
           /\ \A p \in Claims : p[1] # k
           /\ \A p \in Uses : p[1] # k
           /\ \A c \in feed : c.client # k /\ c.expense # k
<1>1. Unused(k) /\ k \in Key
  <2>1. New(plan) \subseteq Key
    BY DEF New, IInv, TypeOK, Plan
  <2>2. QED
    BY <2>1 DEF IInv, NewInv
<1>2. ~Exists(k)
  BY <1>1 DEF ServerInv, ClockInv, Unused
<1>3. \A p \in Claims : p[1] # k
  BY <1>1, ClaimsUse DEF Unused
<1>4. \A c \in feed : c.client # k /\ c.expense # k
  <2>1. \A c \in feed : c.client \in receipts /\ Exists(c.expense)
    BY DEF IInv, ReadInv, ServerInv, FeedInv, Version
  <2>2. QED
    BY <1>1, <1>2, <2>1 DEF Unused
<1>5. QED
  BY <1>1, <1>2, <1>3, <1>4 DEF Unused

LEMMA ClaimsKept ==
    ASSUME IInv, ServerInv, ClaimInv, UNCHANGED <<rows, receipts, feed>>,
           Uses' \subseteq Uses, Claims' \subseteq Claims
    PROVE  ClaimInv'
<1>1. \A p, q \in Claims' : p[1] = q[1] => p = q
  BY DEF ClaimInv
<1>2. \A k \in Key : Exists(k)' => \A p \in Uses' : p[1] = k => p[2] = "create"
  BY DEF ClaimInv, Exists
<1>3. \A k \in receipts' : Exists(k)' \/ \E c \in feed' : c.client = k
  BY DEF ClaimInv, Exists
<1>4. QED
  BY <1>1, <1>2, <1>3 DEF ClaimInv

\* The user saves an operation under such a key.
LEMMA ClaimsTaken ==
    ASSUME IInv, ServerInv, ClaimInv, UNCHANGED <<rows, receipts, feed>>,
           NEW k \in New(plan), NEW op, NEW target, NEW body,
           Uses' \subseteq Uses \union {<<k, op>>}, Claims' \subseteq Claims \union {<<k, target, body>>}
    PROVE  ClaimInv'
<1>1. /\ ~Exists(k) /\ \A p \in Claims : p[1] # k
  BY NewClaims
<1>2. ASSUME NEW p \in Claims', NEW q \in Claims', p[1] = q[1] PROVE p = q
  <2>1. /\ p \in Claims \/ p = <<k, target, body>>
        /\ q \in Claims \/ q = <<k, target, body>>
    OBVIOUS
  <2>2. QED
    BY <1>1, <1>2, <2>1 DEF ClaimInv
<1>3. \A j \in Key : Exists(j)' => \A p \in Uses' : p[1] = j => p[2] = "create"
  BY <1>1 DEF ClaimInv, Exists
<1>4. \A j \in receipts' : Exists(j)' \/ \E c \in feed' : c.client = j
  BY DEF ClaimInv, Exists
<1>5. QED
  BY <1>2, <1>3, <1>4 DEF ClaimInv

\* A push that is served goes on with what it is about.
LEMMA ServedCalls ==
    ASSUME IInv, NEW s \in Slot, tx[s].stage \in Busy,
           \/ \E answer \in Answers : Answered(s, answer)
           \/ /\ tx'[s].wire = tx[s].wire
              /\ \A t \in Slot : t # s => tx'[t] = tx[t]
    PROVE  SameCalls
<1>1. CASE \E answer \in Answers : Answered(s, answer)
  <2>1. PICK u \in Tx : tx' = [tx EXCEPT ![s] = u] /\ u.stage \notin Busy
    BY <1>1, AnswerTx
  <2>2. QED
    BY <2>1 DEF IInv, TypeOK, SameCalls
<1>2. CASE tx'[s].wire = tx[s].wire /\ \A t \in Slot : t # s => tx'[t] = tx[t]
  BY <1>2 DEF SameCalls
<1>3. QED
  BY <1>1, <1>2

LEMMA CreatedClaims ==
    ASSUME IInv, ServerInv, ClaimInv, NEW s \in Slot, CreateExpense(s)
    PROVE  ClaimInv'
<1>0. PICK k : k = tx[s].wire.key
  OBVIOUS
<1>1. /\ tx[s].stage \in Busy /\ tx[s].wire.op = "create" /\ k \in Key
      /\ UNCHANGED <<feed, device>> /\ receipts' = receipts \union {k}
      /\ \A j \in Key : j # k => rows'[j] = rows[j]
      /\ rows'[k].state # "none"
  BY <1>0, Created DEF Busy
<1>2. SameCalls
  BY <1>1, Created, ServedCalls DEF Answers
<1>3. Uses' \subseteq Uses /\ Claims' \subseteq Claims
  BY <1>1, <1>2, ClaimsShrink DEF SameTasks, device
<1>4. \A p \in Uses : p[1] = k => p[2] = "create"
  <2>1. <<k, "create">> \in Uses
    BY <1>0, <1>1 DEF Uses, Underway
  <2>2. QED
    BY <2>1 DEF IInv, UsesInv
<1>5. \A p, q \in Claims' : p[1] = q[1] => p = q
  BY <1>3 DEF ClaimInv
<1>6. \A j \in Key : Exists(j)' => \A p \in Uses' : p[1] = j => p[2] = "create"
  BY <1>1, <1>3, <1>4 DEF ClaimInv, Exists
<1>7. \A j \in receipts' : Exists(j)' \/ \E c \in feed' : c.client = j
  BY <1>1 DEF ClaimInv, Exists, IInv, TypeOK
<1>8. QED
  BY <1>5, <1>6, <1>7 DEF ClaimInv

LEMMA CommittedClaims ==
    ASSUME IInv, ServerInv, ClaimInv, NEW s \in Slot, Commit(s)
    PROVE  ClaimInv' /\ Uses' \subseteq Uses /\ Claims' \subseteq Claims /\ Held \subseteq Held'
<1>0. PICK c : c = tx[s].change
  OBVIOUS
<1>1. /\ tx[s].stage \in Busy /\ UNCHANGED device /\ feed' = feed \union {c}
      /\ receipts' = receipts \union {c.client} /\ Answered(s, "done")
      /\ tx[s].stage = "drawn" /\ c.expense \in Key
  BY <1>0, Committed DEF Busy
<1>2. c.client = tx[s].wire.key /\ c.op = tx[s].wire.op
  BY <1>0, <1>1, ServerTyped
<1>3. SameCalls
  BY <1>1, ServedCalls DEF Answers
<1>4. \A t \in Underway' : \E v \in Underway : tx'[t].wire = tx[v].wire
  BY <1>3 DEF SameCalls, Underway
<1>5. <<c.client, c.op>> \in Uses
  BY <1>1, <1>2 DEF Uses, Underway
<1>6. c.op # "create" => <<c.client, Remote(c.expense), c.body>> \in Claims
  <2>1. ASSUME c.op # "create" PROVE c.body = tx[s].wire.body /\ tx[s].wire.target = Remote(c.expense)
    BY <1>0, <1>1, <1>2, <2>1 DEF ServerInv, ChangeInv, Altering, Mutates
  <2>2. QED
    BY <1>1, <1>2, <2>1 DEF Claims, Underway
<1>7. tasks' = tasks
  BY <1>1 DEF device
<1>8. Uses' \subseteq Uses
  BY <1>1, <1>4, <1>5, <1>7 DEF Uses
<1>9. Held' \subseteq Claims /\ Held \subseteq Held'
  <2>1. \A p \in Held' : p \in Held \/ (c.op # "create" /\ p = <<c.client, Remote(c.expense), c.body>>)
    BY <1>1, <1>7 DEF Held
  <2>2. QED
    BY <1>1, <1>6, <1>7, <2>1 DEF Claims, Held
<1>10. Claims' \subseteq Claims
  BY <1>4, <1>9 DEF Claims
<1>11. \A p, q \in Claims' : p[1] = q[1] => p = q
  BY <1>10 DEF ClaimInv
<1>12. \A j \in Key : Exists(j)' => Exists(j)
  <2>1. ASSUME c.op # "create" PROVE Exists(c.expense)
    BY <1>0, <1>1, <1>2, <2>1 DEF ServerInv, ChangeInv, Altering, Mutates, Exists
  <2>2. \A j \in Key : j # c.expense => rows'[j] = rows[j]
    BY <1>0, Committed
  <2>3. c.op = "create" => rows' = rows
    BY <1>0, Committed
  <2>4. QED
    BY <2>1, <2>2, <2>3 DEF Exists
<1>13. \A j \in Key : Exists(j)' => \A p \in Uses' : p[1] = j => p[2] = "create"
  BY <1>8, <1>12 DEF ClaimInv
<1>14. \A j \in receipts' : Exists(j)' \/ \E d \in feed' : d.client = j
  <2>1. \A j \in Key : Exists(j) => Exists(j)'
    BY CommittedServer, ServerTyped DEF Grows, RowsGrow, Exists
  <2>2. QED
    BY <1>1, <2>1 DEF ClaimInv, IInv, TypeOK
<1>15. QED
  BY <1>8, <1>9, <1>10, <1>11, <1>13, <1>14 DEF ClaimInv

-----------------------------------------------------------------------------
(* What the device has read and stored.                                    *)

OwnTask(k) == \E j \in DOMAIN tasks : tasks[j].op = "create" /\ tasks[j].key = k

\* The server has the expense an id of its own names, the queue has created
\* one that a key names.
Placed(id) == IF id[1] = "server" THEN Exists(id[2]) ELSE OwnTask(id[2])

Called(r) == r.client \in Key => \/ r.id \in {Local(r.client), Remote(r.client)}
                                 \/ \E p \in Held : p[1] = r.client /\ p[2] = r.id

NameInv ==
    /\ \A i \in DOMAIN tasks : /\ tasks[i].op = "create" => tasks[i].target = Local(tasks[i].key)
                               /\ Placed(tasks[i].target)
    /\ \A r \in records : Placed(r.id) /\ Called(r)

\* A stamp of the server is the time of a version.
Stamped(r) == Even(r.time) => r.id[1] = "server" /\ r.time <= rows[r.id[2]].time

Fetched(n) == ~n.deleted /\ Version(n.id[2], n.time) /\ Says(n.id[2], n.time, n.body)

\* What a dialog shows of the expense a task is about.
Shows(id, row) ==
    IF id[1] = "local" THEN row = NoRow
    ELSE /\ Version(id[2], row.time)
         /\ \/ row.state = "deleted" /\ rows[id[2]].state = "deleted"
            \/ row.state = "live" /\ Says(id[2], row.time, row.body)

StampInv ==
    /\ \A r \in records : Stamped(r)
    /\ \A n \in listed : Fetched(n)
    /\ dialog # None => Shows(tasks[dialog.task].target, dialog.row)

\* Of an expense the feed does not know there is one version.
UntoldInv ==
    \A k \in Key : ~Told(k) =>
        /\ \A r \in records : r.id = Remote(k) /\ r.state = "synced" /\ ~r.deleted => r.body = rows[k].body
        /\ \A n \in listed : n.id = Remote(k) => n.body = rows[k].body
        /\ dialog # None /\ tasks[dialog.task].target = Remote(k) => dialog.row.body = rows[k].body

\* A creation is done when its change is in the feed, and never a conflict.
CreateInv ==
    \A i \in DOMAIN tasks : tasks[i].op = "create" =>
        /\ tasks[i].status # "conflict"
        /\ tasks[i].status = "synced" => \E c \in feed : c.client = tasks[i].key

AnswerInv ==
    phase = "wait" => \A i \in InState("pending") : IsNext(i) /\ tasks[i].op = "create" =>
        /\ tx["device"].answer \notin {"version_mismatch", "record_soft_deleted"}
        /\ tx["device"].stage = "answered" => tx["device"].answer # "none"
        /\ tx["device"].answer = "done" => \E c \in feed : c.client = tasks[i].key

\* The pages follow the feed; what was committed behind them is missed.
PageInv ==
    /\ cursor = 0 \/ \E c \in feed : c.seq = cursor
    /\ phase # "apply" => page.changes = <<>>
    /\ \A m, n \in DOMAIN page.changes : m < n => page.changes[m].seq < page.changes[n].seq
    /\ phase = "apply" =>
          /\ cursor < Head(page.changes).seq
          /\ \A c \in feed : c.expense \notin missed /\ c.seq <= Horizon =>
                Passed(c) \/ \E n \in DOMAIN page.changes : page.changes[n] = c

\* An expense the device has created is replaced by the server's when its
\* creation is pulled, or waits for an operation that will be refused.
OwnInv ==
    /\ \A r \in records : r.id[1] = "local" /\ r.state = "synced" /\ ~r.deleted => r.client = r.id[2]
    /\ \A c \in feed : c.op = "create" /\ Passed(c) /\ c.expense \notin missed =>
          /\ \A r \in records : r.id = Local(c.expense) /\ r.state = "synced" => r.deleted
          /\ \A i \in Unfinished : tasks[i].target = Local(c.expense) => tasks[i].op # "create"

\* An operation that was committed has left what the server has.
Agrees(k, i) ==
    tasks[i].target = Remote(k) /\ tasks[i].key \in receipts =>
        IF rows[k].state = "deleted" THEN tasks[i].op = "delete"
        ELSE tasks[i].op = "update" /\ tasks[i].body = rows[k].body

AwaitsRefusal(k) ==
    \E i \in Unfinished : tasks[i].target = Local(k) /\ tasks[i].op # "create"

\* Expense k is on the device as the server has it, or an operation waits.
Pulled(k) ==
    /\ \A i \in Unfinished : Agrees(k, i)
    /\ IF rows[k].state = "deleted"
       THEN \A r \in records : r.id = Remote(k) /\ r.state = "synced" => r.deleted
       ELSE \E r \in records : /\ r.id = Remote(k)
                               /\ r.state = "synced" => ~r.deleted /\ r.body = rows[k].body

PulledInv ==
    \A c \in feed : Passed(c) /\ Newest(c) /\ c.expense \notin missed =>
        Pulled(c.expense) \/ (rows[c.expense].state = "live" /\ AwaitsRefusal(c.expense))

DeviceInv == /\ NameInv /\ StampInv /\ UntoldInv /\ CreateInv /\ AnswerInv
             /\ PageInv /\ OwnInv /\ PulledInv

PullInv == ServerInv /\ ClaimInv /\ DeviceInv

-----------------------------------------------------------------------------
(* What a step leaves as it was.                                           *)

LEMMA DeviceTyped ==
    ASSUME IInv
    PROVE  /\ \A r \in records : r.id \in Id /\ r.id[2] \in Key /\ r.time \in Int /\ r.body \in Key
                                 /\ r.id[1] \in {"local", "server"} /\ r.deleted \in BOOLEAN
           /\ \A n \in listed : /\ n.id \in Id /\ n.id[2] \in Key /\ n.time \in Int
                                /\ n.id = Remote(n.id[2]) /\ n.client = n.id
                                /\ n.state = "synced"
           /\ \A i \in DOMAIN tasks : /\ tasks[i].key \in Key /\ tasks[i].op \in Op
                                      /\ tasks[i].target \in Id /\ tasks[i].target[2] \in Key
                                      /\ tasks[i].target[1] \in {"local", "server"}
           /\ dialog # None => /\ dialog.task \in DOMAIN tasks /\ dialog.row.time \in Int
                               /\ dialog.row \in Row
<1>1. TypeOK /\ ReadInv
  BY DEF IInv
<1>2. ASSUME NEW id \in Id
      PROVE  id[2] \in Key /\ id[1] \in {"local", "server"} /\ (id[1] = "server" => id = Remote(id[2]))
  BY DEF Id, Remote
<1>3. \A r \in records : r.id \in Id /\ r.time \in Int /\ r.body \in Key /\ r.deleted \in BOOLEAN
  BY <1>1 DEF TypeOK, Record
<1>4. \A n \in listed : n.id \in Id /\ n.time \in Int
  BY <1>1 DEF TypeOK, Record
<1>5. \A n \in listed : n.id[1] = "server" /\ n.client = n.id /\ n.state = "synced"
  BY <1>1 DEF ReadInv
<1>6. \A i \in DOMAIN tasks : tasks[i] \in Task
  BY <1>1 DEF TypeOK
<1>7. \A i \in DOMAIN tasks : tasks[i].key \in Key /\ tasks[i].op \in Op /\ tasks[i].target \in Id
  BY <1>6 DEF Task
<1>8. dialog # None => dialog.task \in DOMAIN tasks /\ dialog.row \in Row
  BY <1>1 DEF TypeOK, ReadInv
<1>9. dialog # None => dialog.row.time \in Int
  BY <1>8 DEF Row
<1>10. QED
  BY <1>2, <1>3, <1>4, <1>5, <1>7, <1>8, <1>9

LEMMA OlderVersion ==
    ASSUME IInv, RowsGrow, NEW k \in Key, NEW time \in Int, Version(k, time)
    PROVE  /\ Version(k, time)'
           /\ \A body : Says(k, time, body) => Says(k, time, body)'
           /\ rows[k].state = "deleted" => rows'[k].state = "deleted"
<1>1. rows[k].time \in Int
  BY ServerTyped
<1>2. CASE rows'[k] = rows[k]
  BY <1>2 DEF Version, Says, Exists
<1>3. CASE /\ rows[k].state = "live" /\ Exists(k)'
           /\ rows'[k].time \in Int /\ rows[k].time < rows'[k].time
  BY <1>1, <1>3 DEF Version, Says, Exists
<1>4. QED
  BY <1>2, <1>3 DEF RowsGrow, Version

LEMMA PlacedKept ==
    ASSUME RowsGrow, Extends, NEW id, id[2] \in Key, Placed(id)
    PROVE  Placed(id)'
<1>1. CASE id[1] = "server"
  BY <1>1 DEF Placed, RowsGrow, Exists
<1>2. CASE id[1] # "server"
  <2>1. PICK j \in DOMAIN tasks : tasks[j].op = "create" /\ tasks[j].key = id[2]
    BY <1>2 DEF Placed, OwnTask
  <2>2. j \in DOMAIN tasks' /\ tasks'[j].op = "create" /\ tasks'[j].key = id[2]
    BY <2>1 DEF Extends
  <2>3. QED
    BY <1>2, <2>2 DEF Placed, OwnTask
<1>3. QED
  BY <1>1, <1>2

LEMMA NamesKept ==
    ASSUME IInv, NameInv, RowsGrow, feed \subseteq feed', Extends,
           \A i \in DOMAIN tasks' : i \notin DOMAIN tasks =>
               /\ tasks'[i].op = "create" => tasks'[i].target = Local(tasks'[i].key)
               /\ Placed(tasks[i].target)',
           \A r \in records' : \/ \E x \in records : x.id = r.id /\ x.client = r.client
                               \/ Placed(r.id)' /\ Called(r)'
    PROVE  NameInv'
<1>1. Held \subseteq Held'
  BY HeldGrows
<1>2. ASSUME NEW i \in DOMAIN tasks'
      PROVE  /\ tasks'[i].op = "create" => tasks'[i].target = Local(tasks'[i].key)
             /\ Placed(tasks[i].target)'
  <2>1. CASE i \in DOMAIN tasks
    <3>1. PICK id : id = tasks[i].target /\ id = tasks'[i].target
      BY <2>1 DEF Extends
    <3>2. Placed(id) /\ id[2] \in Key
      BY <2>1, <3>1, DeviceTyped DEF NameInv
    <3>3. Placed(id)'
      BY <3>2, PlacedKept
    <3>4. Placed(tasks[i].target)'
      BY <3>1, <3>3 DEF Placed, OwnTask
    <3>5. QED
      BY <2>1, <3>4 DEF Extends, NameInv
  <2>2. CASE i \notin DOMAIN tasks
    BY <2>2
  <2>3. QED
    BY <2>1, <2>2
<1>3. ASSUME NEW r \in records' PROVE Placed(r.id)' /\ Called(r)'
  <2>1. CASE \E x \in records : x.id = r.id /\ x.client = r.client
    <3>1. PICK x \in records : x.id = r.id /\ x.client = r.client
      BY <2>1
    <3>2. Placed(r.id) /\ Called(r) /\ r.id[2] \in Key
      BY <3>1, DeviceTyped DEF NameInv, Called
    <3>3. QED
      BY <1>1, <3>2, PlacedKept DEF Called
  <2>2. QED
    BY <2>1
<1>4. QED
  BY <1>2, <1>3 DEF NameInv

LEMMA StampsKept ==
    ASSUME IInv, NameInv, StampInv, RowsGrow, Extends,
           \A r \in records' : \/ \E x \in records : x.id = r.id /\ x.time = r.time
                               \/ Stamped(r)',
           \A n \in listed' : n \in listed \/ Fetched(n)',
           dialog' # None => dialog' = dialog \/ Shows(tasks[dialog.task].target, dialog.row)'
    PROVE  StampInv'
<1>1. ASSUME NEW r \in records' PROVE Stamped(r)'
  <2>1. SUFFICES ASSUME NEW x \in records, x.id = r.id, x.time = r.time PROVE Stamped(r)'
    OBVIOUS
  <2>2. Stamped(r) /\ Placed(r.id) /\ r.id[2] \in Key /\ r.time \in Int
    BY <2>1, DeviceTyped DEF StampInv, NameInv, Stamped
  <2>3. ASSUME Even(r.time) PROVE r.id[1] = "server" /\ r.time <= rows'[r.id[2]].time
    <3>1. r.id[1] = "server" /\ r.time <= rows[r.id[2]].time /\ Exists(r.id[2])
      BY <2>2, <2>3 DEF Stamped, Placed
    <3>2. rows[r.id[2]].time \in Int
      BY <2>2, ServerTyped
    <3>3. \/ rows'[r.id[2]] = rows[r.id[2]]
          \/ rows'[r.id[2]].time \in Int /\ rows[r.id[2]].time < rows'[r.id[2]].time
      BY <2>2, <3>1 DEF RowsGrow
    <3>4. QED
      BY <2>2, <3>1, <3>2, <3>3
  <2>4. QED
    BY <2>3 DEF Stamped
<1>2. ASSUME NEW n \in listed' PROVE Fetched(n)'
  <2>1. SUFFICES ASSUME n \in listed PROVE Fetched(n)'
    OBVIOUS
  <2>2. Fetched(n) /\ n.id[2] \in Key /\ n.time \in Int
    BY <2>1, DeviceTyped DEF StampInv
  <2>3. QED
    BY <2>2, OlderVersion DEF Fetched
<1>3. ASSUME dialog' # None PROVE Shows(tasks[dialog.task].target, dialog.row)'
  <2>1. SUFFICES ASSUME dialog' = dialog PROVE Shows(tasks[dialog.task].target, dialog.row)'
    BY <1>3
  <2>2. PICK id, row : id = tasks[dialog.task].target /\ row = dialog.row
    OBVIOUS
  <2>3. id = tasks'[dialog'.task].target /\ row = dialog'.row
    BY <1>3, <2>1, <2>2, DeviceTyped DEF Extends
  <2>4. Shows(id, row) /\ id[2] \in Key /\ row.time \in Int
    BY <1>3, <2>1, <2>2, DeviceTyped DEF StampInv
  <2>5. Shows(id, row)'
    BY <2>4, OlderVersion DEF Shows
  <2>6. QED
    BY <2>3, <2>5 DEF Shows, Version, Says, Exists
<1>4. QED
  BY <1>1, <1>2, <1>3 DEF StampInv

LEMMA UntoldKept ==
    ASSUME IInv, NameInv, StampInv, UntoldInv, feed \subseteq feed', Extends,
           \A k \in Key : ~Told(k)' => rows'[k] = rows[k] \/ ~Exists(k),
           \A r \in records', k \in Key :
               ~Told(k)' /\ r.id = Remote(k) /\ r.state = "synced" /\ ~r.deleted =>
                   \/ r.body = rows'[k].body
                   \/ \E x \in records : /\ x.id = r.id /\ x.state = "synced" /\ ~x.deleted
                                         /\ x.body = r.body,
           \A n \in listed', k \in Key :
               ~Told(k)' /\ n.id = Remote(k) => n \in listed \/ n.body = rows'[k].body,
           \A k \in Key : dialog' # None /\ ~Told(k)' /\ tasks'[dialog'.task].target = Remote(k) =>
               dialog' = dialog \/ dialog'.row.body = rows'[k].body
    PROVE  UntoldInv'
<1>1. SUFFICES ASSUME NEW k \in Key, ~Told(k)'
               PROVE  /\ \A r \in records' : r.id = Remote(k) /\ r.state = "synced" /\ ~r.deleted =>
                             r.body = rows'[k].body
                      /\ \A n \in listed' : n.id = Remote(k) => n.body = rows'[k].body
                      /\ dialog' # None /\ tasks'[dialog'.task].target = Remote(k) =>
                             dialog'.row.body = rows'[k].body
  BY DEF UntoldInv
<1>2. ~Told(k)
  BY <1>1 DEF Told
<1>3. Remote(k)[1] = "server" /\ Remote(k)[2] = k
  BY DEF Remote
<1>4. CASE ~Exists(k)
  <2>1. /\ \A r \in records : r.id # Remote(k)
        /\ \A i \in DOMAIN tasks : tasks[i].target # Remote(k)
    BY <1>3, <1>4 DEF NameInv, Placed
  <2>2. \A n \in listed : n.id # Remote(k)
    BY <1>3, <1>4 DEF StampInv, Fetched, Version
  <2>3. dialog # None => tasks'[dialog.task].target # Remote(k)
    BY <2>1, DeviceTyped DEF Extends
  <2>4. QED
    BY <1>1, <2>1, <2>2, <2>3
<1>5. CASE rows'[k] = rows[k]
  <2>1. \A r \in records : r.id = Remote(k) /\ r.state = "synced" /\ ~r.deleted => r.body = rows'[k].body
    BY <1>2, <1>5 DEF UntoldInv
  <2>2. \A n \in listed : n.id = Remote(k) => n.body = rows'[k].body
    BY <1>2, <1>5 DEF UntoldInv
  <2>3. dialog # None /\ tasks'[dialog.task].target = Remote(k) => dialog.row.body = rows'[k].body
    BY <1>2, <1>5, DeviceTyped DEF UntoldInv, Extends
  <2>4. QED
    BY <1>1, <2>1, <2>2, <2>3
<1>6. QED
  BY <1>1, <1>4, <1>5

\* The device has been given nothing more, or has missed it.
SeesNoMore ==
    \A c \in feed' : Passed(c)' /\ c.expense \notin missed' =>
        c \in feed /\ Passed(c) /\ c.expense \notin missed

LEMMA SeesTheSame ==
    ASSUME feed' = feed, missed \subseteq missed', cursor' = cursor,
           \/ phase' = phase /\ page' = page
           \/ phase # "apply" /\ phase' # "apply"
    PROVE  SeesNoMore
  BY DEF SeesNoMore, Passed

LEMMA OwnKept ==
    ASSUME OwnInv, SeesNoMore,
           \A r \in records' : r.id[1] = "local" /\ r.state = "synced" /\ ~r.deleted =>
               \E x \in records : /\ x.id = r.id /\ x.client = r.client
                                  /\ x.state = "synced" /\ ~x.deleted,
           \A i \in Unfinished' : tasks'[i].op = "create" =>
               \/ i \in Unfinished /\ tasks[i].op = "create" /\ tasks[i].target = tasks'[i].target
               \/ \A c \in feed : tasks'[i].target # Local(c.expense),
           \A r \in records' : r.deleted \in BOOLEAN,
           \A r \in records : r.deleted \in BOOLEAN
    PROVE  OwnInv'
<1>1. \A r \in records' : r.id[1] = "local" /\ r.state = "synced" /\ ~r.deleted => r.client = r.id[2]
  BY DEF OwnInv
<1>2. ASSUME NEW c \in feed', c.op = "create", Passed(c)', c.expense \notin missed'
      PROVE  /\ \A r \in records' : r.id = Local(c.expense) /\ r.state = "synced" => r.deleted
             /\ \A i \in Unfinished' : tasks'[i].target = Local(c.expense) => tasks'[i].op # "create"
  <2>1. c \in feed /\ Passed(c) /\ c.expense \notin missed
    BY <1>2 DEF SeesNoMore
  <2>2. ASSUME NEW r \in records', r.id = Local(c.expense), r.state = "synced", ~r.deleted PROVE FALSE
    <3>1. r.id[1] = "local"
      BY <2>2 DEF Local
    <3>2. PICK x \in records : x.id = r.id /\ x.state = "synced" /\ ~x.deleted
      BY <2>2, <3>1
    <3>3. QED
      BY <1>2, <2>1, <2>2, <3>2 DEF OwnInv
  <2>3. ASSUME NEW i \in Unfinished', tasks'[i].target = Local(c.expense), tasks'[i].op = "create"
        PROVE  FALSE
    BY <1>2, <2>1, <2>3 DEF OwnInv
  <2>4. QED
    BY <2>2, <2>3
<1>3. QED
  BY <1>1, <1>2 DEF OwnInv

LEMMA PulledKept ==
    ASSUME PulledInv, SeesNoMore,
           \A c \in feed' : Passed(c)' /\ Newest(c)' /\ c.expense \notin missed' =>
               rows'[c.expense] = rows[c.expense],
           \A c \in feed : /\ Passed(c)' /\ Newest(c) /\ c.expense \notin missed'
                          /\ rows'[c.expense] = rows[c.expense] =>
               /\ Pulled(c.expense) => Pulled(c.expense)'
               /\ AwaitsRefusal(c.expense) => AwaitsRefusal(c.expense)' \/ Pulled(c.expense)'
    PROVE  PulledInv'
<1>1. ASSUME NEW c \in feed', Passed(c)', Newest(c)', c.expense \notin missed'
      PROVE  Pulled(c.expense)' \/ (rows'[c.expense].state = "live" /\ AwaitsRefusal(c.expense)')
  <2>1. c \in feed /\ Passed(c) /\ c.expense \notin missed /\ rows'[c.expense] = rows[c.expense]
    BY <1>1 DEF SeesNoMore
  <2>2. Newest(c)
    BY <1>1, <2>1 DEF Newest
  <2>3. QED
    BY <1>1, <2>1, <2>2 DEF PulledInv
<1>2. QED
  BY <1>1 DEF PulledInv

\* Records of k come to wait, tasks come under new keys, nothing else of k
\* changes.
LEMMA PulledRecords ==
    ASSUME NEW k, rows'[k] = rows[k],
           \A i \in Unfinished' :
               \/ /\ i \in Unfinished /\ tasks'[i].key = tasks[i].key /\ tasks'[i].op = tasks[i].op
                  /\ tasks'[i].target = tasks[i].target /\ tasks'[i].body = tasks[i].body
                  /\ tasks[i].target = Remote(k) /\ tasks[i].key \in receipts' => tasks[i].key \in receipts
               \/ tasks'[i].key \notin receipts'
               \/ tasks'[i].target # Remote(k),
           \A r \in records' : r.id = Remote(k) /\ r.state = "synced" =>
               \E x \in records : x.id = r.id /\ x.state = "synced" /\ x.deleted = r.deleted,
           \A x \in records : x.id = Remote(k) =>
               \E r \in records' : /\ r.id = x.id
                                   /\ \/ r.state # "synced"
                                      \/ /\ r.state = x.state /\ r.deleted = x.deleted
                                         /\ r.body = x.body,
           Pulled(k)
    PROVE  Pulled(k)'
<1>1. ASSUME NEW i \in Unfinished' PROVE Agrees(k, i)'
  BY DEF Pulled, Agrees
<1>2. ASSUME rows'[k].state = "deleted"
      PROVE  \A r \in records' : r.id = Remote(k) /\ r.state = "synced" => r.deleted
  BY <1>2 DEF Pulled
<1>3. ASSUME rows'[k].state # "deleted"
      PROVE  \E r \in records' : /\ r.id = Remote(k)
                                 /\ r.state = "synced" => ~r.deleted /\ r.body = rows'[k].body
  <2>1. PICK x \in records : /\ x.id = Remote(k)
                             /\ x.state = "synced" => ~x.deleted /\ x.body = rows[k].body
    BY <1>3 DEF Pulled
  <2>2. QED
    BY <2>1
<1>4. QED
  BY <1>1, <1>2, <1>3 DEF Pulled

LEMMA AwaitsKept ==
    ASSUME NEW k,
           \A i \in Unfinished : tasks[i].target = Local(k) /\ tasks[i].op # "create" =>
               i \in Unfinished' /\ tasks'[i].target = tasks[i].target /\ tasks'[i].op = tasks[i].op,
           AwaitsRefusal(k)
    PROVE  AwaitsRefusal(k)'
  BY DEF AwaitsRefusal

\* A step of the server that the device has not read of, but for its answer.
LEMMA UnreadStep ==
    ASSUME IInv, ServerInv, DeviceInv, RowsGrow, UNCHANGED device, feed' = feed, missed' = missed,
           \A k \in Key : rows'[k] = rows[k] \/ ~Exists(k),
           NEW j,
           \/ receipts' = receipts
           \/ /\ receipts' = receipts \union {j}
              /\ \A i \in DOMAIN tasks : tasks[i].key = j => tasks[i].op = "create"
    PROVE  /\ NameInv' /\ StampInv' /\ UntoldInv' /\ CreateInv'
           /\ PageInv' /\ OwnInv' /\ PulledInv'
<1>1. /\ tasks' = tasks /\ records' = records /\ phase' = phase /\ page' = page
      /\ cursor' = cursor /\ listed' = listed /\ dialog' = dialog
      /\ Extends /\ Unfinished' = Unfinished /\ SeesNoMore
  BY SeesTheSame DEF device, Extends, Unfinished
<1>2. NameInv' /\ StampInv'
  BY <1>1, NamesKept, StampsKept DEF DeviceInv
<1>3. UntoldInv'
  BY <1>1, UntoldKept DEF DeviceInv
<1>4. CreateInv' /\ PageInv'
  BY <1>1 DEF DeviceInv, CreateInv, PageInv, Horizon, Passed
<1>5. OwnInv'
  BY <1>1, OwnKept, DeviceTyped DEF DeviceInv
<1>6. PulledInv'
  <2>1. \A c \in feed : c.expense \in Key /\ rows'[c.expense] = rows[c.expense]
    BY ServerTyped DEF ServerInv, FeedInv, Version
  <2>2. ASSUME NEW c \in feed, Pulled(c.expense) PROVE Pulled(c.expense)'
    <3>1. PICK k \in Key : k = c.expense /\ rows'[k] = rows[k] /\ Pulled(k)
      BY <2>1, <2>2
    <3>2. ASSUME NEW i \in Unfinished, tasks[i].target = Remote(k), tasks[i].key \in receipts'
          PROVE  tasks[i].key \in receipts
      <4>1. i \in DOMAIN tasks
        BY DEF Unfinished
      <4>2. tasks[i].op # "create"
        BY <3>2, <4>1 DEF DeviceInv, NameInv, Remote, Local
      <4>3. QED
        BY <3>2, <4>1, <4>2
    <3>3. QED
      BY <1>1, <3>1, <3>2, PulledRecords
  <2>3. ASSUME NEW c \in feed, AwaitsRefusal(c.expense) PROVE AwaitsRefusal(c.expense)'
    BY <1>1, <2>3 DEF AwaitsRefusal
  <2>4. QED
    BY <1>1, <2>1, <2>2, <2>3, PulledKept DEF DeviceInv, SeesNoMore
<1>7. QED
  BY <1>2, <1>3, <1>4, <1>5, <1>6

-----------------------------------------------------------------------------
(* Steps of the server, as the device sees them.                           *)

\* The answer a push ends with.
LEMMA AnsweredDevice ==
    ASSUME IInv, NEW s \in Slot, NEW answer, Answered(s, answer)
    PROVE  IF s = "device" THEN tx'["device"].answer = answer ELSE tx'["device"] = tx["device"]
<1>1. tx \in [Slot -> Tx] /\ "device" \in Slot
  BY DEF IInv, TypeOK, Slot
<1>2. CASE s = "device"
  BY <1>1, <1>2 DEF Answered, NoTx
<1>3. CASE s # "device"
  BY <1>1, <1>3 DEF Answered
<1>4. QED
  BY <1>2, <1>3

\* The device is told that a creation is done when its change is in the feed.
LEMMA AnswerKept ==
    ASSUME IInv, AnswerInv, NEW s \in Slot, tx[s].stage \in Busy, UNCHANGED device,
           feed \subseteq feed',
           \/ tx'["device"] = tx["device"]
           \/ tx'["device"].answer = tx["device"].answer /\ tx'["device"].stage # "answered"
           \/ tx'["device"].answer \in {"error", "refused"}
           \/ /\ s = "device" /\ tx'["device"].answer = "done"
              /\ tx[s].wire.op = "create" => \E c \in feed' : c.client = tx[s].wire.key
           \/ s = "device" /\ tx[s].wire.op # "create"
    PROVE  AnswerInv'
<1>1. SUFFICES ASSUME phase' = "wait", NEW i \in InState("pending")', IsNext(i)',
                      tasks'[i].op = "create"
               PROVE  /\ tx'["device"].answer \notin {"version_mismatch", "record_soft_deleted"}
                      /\ tx'["device"].stage = "answered" => tx'["device"].answer # "none"
                      /\ tx'["device"].answer = "done" => \E c \in feed' : c.client = tasks'[i].key
  BY DEF AnswerInv
<1>2. /\ phase = "wait" /\ i \in InState("pending") /\ IsNext(i) /\ tasks' = tasks
      /\ tasks[i].op = "create" /\ i \in DOMAIN tasks
  BY <1>1 DEF device, InState, IsNext
<1>3. CASE \/ tx'["device"] = tx["device"]
           \/ tx'["device"].answer = tx["device"].answer /\ tx'["device"].stage # "answered"
  BY <1>2, <1>3 DEF AnswerInv
<1>4. CASE s = "device"
  <2>1. PICK j \in InState("pending") : IsNext(j) /\ Expects(j)
    BY <1>2 DEF IInv, PushInv
  <2>2. j = i
    <3>1. i \in Nat /\ j \in Nat
      BY <1>2 DEF InState, IInv, TypeOK
    <3>2. i <= j /\ j <= i
      BY <1>2, <2>1 DEF IsNext
    <3>3. QED
      BY <3>1, <3>2
  <2>3. tx[s].wire.key = tasks[i].key
    BY <1>4, <2>1, <2>2 DEF Expects
  <2>4. <<tx[s].wire.key, tx[s].wire.op>> \in Uses /\ <<tasks[i].key, tasks[i].op>> \in Uses
    BY <1>2 DEF Uses, Underway
  <2>5. tx[s].wire.op = "create"
    BY <1>2, <2>3, <2>4 DEF IInv, UsesInv
  <2>6. QED
    BY <1>2, <1>3, <2>3, <2>5
<1>5. CASE tx'["device"].answer \in {"error", "refused"}
  BY <1>5
<1>6. QED
  BY <1>3, <1>4, <1>5

LEMMA AnswerMoved ==
    ASSUME IInv, AnswerInv, NEW s \in Slot, tx[s].stage \in Busy, UNCHANGED device,
           feed \subseteq feed', tx'[s].answer = tx[s].answer, tx'[s].stage # "answered",
           \A t \in Slot : t # s => tx'[t] = tx[t]
    PROVE  AnswerInv'
<1>1. \/ tx'["device"] = tx["device"]
      \/ tx'["device"].answer = tx["device"].answer /\ tx'["device"].stage # "answered"
  BY DEF Slot
<1>2. QED
  BY <1>1, AnswerKept

LEMMA PullCreateExpense ==
    ASSUME IInv, PullInv, NEW s \in Slot, CreateExpense(s)
    PROVE  PullInv'
<1>0. PICK k : k = tx[s].wire.key
  OBVIOUS
<1>1. ServerInv' /\ Grows
  BY CreatedServer DEF PullInv
<1>2. ClaimInv'
  BY CreatedClaims DEF PullInv
<1>3. /\ tx[s].stage \in Busy /\ k \in Key /\ UNCHANGED <<feed, device, missed>>
      /\ receipts' = receipts \union {k} /\ tx[s].wire.op = "create"
      /\ \A j \in Key : j # k => rows'[j] = rows[j]
      /\ k \in receipts => rows' = rows
      /\ k \notin receipts => ~Exists(k)
  BY <1>0, Created DEF Busy, PullInv, ServerInv, ClockInv
<1>4. \A i \in DOMAIN tasks : tasks[i].key = k => tasks[i].op = "create"
  <2>1. <<k, "create">> \in Uses
    BY <1>0, <1>3 DEF Uses, Underway
  <2>2. \A i \in DOMAIN tasks : <<tasks[i].key, tasks[i].op>> \in Uses
    BY DEF Uses
  <2>3. QED
    BY <2>1, <2>2 DEF IInv, UsesInv
<1>5. /\ NameInv' /\ StampInv' /\ UntoldInv' /\ CreateInv' /\ PageInv' /\ OwnInv' /\ PulledInv'
  BY <1>1, <1>3, <1>4, UnreadStep DEF PullInv, Grows
<1>6. AnswerInv'
  <2>1. CASE Answered(s, "error")
    <3>1. tx'["device"].answer = "error" \/ tx'["device"] = tx["device"]
      BY <2>1, AnsweredDevice
    <3>2. QED
      BY <1>3, <3>1, AnswerKept DEF PullInv, DeviceInv
  <2>2. CASE /\ tx'[s].answer = tx[s].answer /\ tx'[s].stage = "appending"
             /\ \A t \in Slot : t # s => tx'[t] = tx[t]
    BY <1>3, <2>2, AnswerMoved DEF PullInv, DeviceInv
  <2>3. QED
    BY <2>1, <2>2, Created
<1>7. QED
  BY <1>1, <1>2, <1>5, <1>6 DEF PullInv, DeviceInv

\* Nothing is committed.
LEMMA NothingCommitted ==
    ASSUME IInv, PullInv, ServerInv', SameCalls, UNCHANGED <<rows, receipts, feed, device, missed>>,
           AnswerInv'
    PROVE  PullInv'
<1>1. ClaimInv'
  <2>1. SameTasks
    BY DEF SameTasks, device
  <2>2. QED
    BY <2>1, ClaimsShrink, ClaimsKept DEF PullInv
<1>2. /\ NameInv' /\ StampInv' /\ UntoldInv' /\ CreateInv' /\ PageInv' /\ OwnInv' /\ PulledInv'
  BY RowsKept, UnreadStep DEF PullInv
<1>3. QED
  BY <1>1, <1>2 DEF PullInv, DeviceInv

LEMMA PullAppendChange ==
    ASSUME IInv, PullInv, NEW s \in Slot, AppendChange(s)
    PROVE  PullInv'
<1>1. ServerInv'
  BY AppendedServer DEF PullInv
<1>2. /\ tx[s].stage \in Busy /\ UNCHANGED <<rows, receipts, feed, device, missed>>
  BY Appended DEF Busy
<1>3. SameCalls
  BY <1>2, Appended, ServedCalls DEF Answers
<1>4. AnswerInv'
  <2>1. CASE Answered(s, "done") /\ \E c \in feed : c.client = tx[s].wire.key
    <3>1. \/ tx'["device"] = tx["device"]
          \/ s = "device" /\ tx'["device"].answer = "done"
      BY <2>1, AnsweredDevice
    <3>2. QED
      BY <1>2, <2>1, <3>1, AnswerKept DEF PullInv, DeviceInv
  <2>2. CASE /\ tx'[s].answer = tx[s].answer /\ tx'[s].stage = "drawn"
             /\ \A t \in Slot : t # s => tx'[t] = tx[t]
    BY <1>2, <2>2, AnswerMoved DEF PullInv, DeviceInv
  <2>3. QED
    BY <2>1, <2>2, Appended
<1>5. QED
  BY <1>1, <1>2, <1>3, <1>4, NothingCommitted

LEMMA PullMutate ==
    ASSUME IInv, PullInv, NEW s \in Slot, Mutate(s)
    PROVE  PullInv'
<1>1. ServerInv'
  BY MutatedServer DEF PullInv
<1>2. /\ tx[s].stage \in Busy /\ UNCHANGED <<rows, receipts, feed, device, missed>>
      /\ tx[s].wire.op # "create"
  BY Mutated DEF Busy
<1>3. SameCalls
  BY <1>2, Mutated, ServedCalls DEF Answers
<1>4. AnswerInv'
  <2>1. tx'["device"] = tx["device"] \/ s = "device"
    <3>1. CASE \E answer \in Answers \ {"done"} : Answered(s, answer)
      BY <3>1, AnsweredDevice
    <3>2. CASE \A t \in Slot : t # s => tx'[t] = tx[t]
      BY <3>2 DEF Slot
    <3>3. QED
      BY <3>1, <3>2, Mutated
  <2>2. QED
    BY <1>2, <2>1, AnswerKept DEF PullInv, DeviceInv
<1>5. QED
  BY <1>1, <1>2, <1>3, <1>4, NothingCommitted

LEMMA PullAsks ==
    ASSUME IInv, PullInv, NEW s \in Slot, GetReceipt(s) \/ Fail(s, "error") \/ Fail(s, "refused")
    PROVE  PullInv'
<1>1. ServerInv'
  BY AskedServer DEF PullInv
<1>2. /\ tx[s].stage \in Busy /\ UNCHANGED <<rows, receipts, feed, device, missed>>
  BY DEF GetReceipt, Fail, Busy
<1>3. \/ tx[s].wire.op # "create" /\ Answered(s, "done")
      \/ \E answer \in {"error", "refused"} : Answered(s, answer)
      \/ tx' = [tx EXCEPT ![s].stage = "looked"]
  BY DEF GetReceipt, Fail
<1>4. CASE tx' = [tx EXCEPT ![s].stage = "looked"]
  <2>1. /\ tx'[s].wire = tx[s].wire /\ tx'[s].answer = tx[s].answer
        /\ tx'[s].stage # "answered"
        /\ \A t \in Slot : t # s => tx'[t] = tx[t]
    BY <1>4 DEF IInv, TypeOK, Tx
  <2>2. QED
    BY <1>1, <1>2, <2>1, ServedCalls, AnswerMoved, NothingCommitted DEF PullInv, DeviceInv
<1>5. CASE \/ tx[s].wire.op # "create" /\ Answered(s, "done")
           \/ \E answer \in {"error", "refused"} : Answered(s, answer)
  <2>1. SameCalls
    BY <1>2, <1>5, ServedCalls DEF Answers
  <2>2. \/ tx'["device"] = tx["device"]
        \/ tx'["device"].answer \in {"error", "refused"}
        \/ s = "device" /\ tx[s].wire.op # "create"
    BY <1>5, AnsweredDevice
  <2>3. AnswerInv'
    BY <1>2, <2>2, AnswerKept DEF PullInv, DeviceInv
  <2>4. QED
    BY <1>1, <1>2, <2>1, <2>3, NothingCommitted
<1>6. QED
  BY <1>3, <1>4, <1>5

LEMMA PullOtherPushes ==
    ASSUME IInv, PullInv, NEW k \in Key, NEW op \in Op, OtherPushes(k, op)
    PROVE  PullInv'
<1>1. PICK e \in Key :
        tx' = [tx EXCEPT !["other"] = Begun([key |-> k, op |-> op, target |-> Remote(e),
                                             expected |-> rows[e].time, body |-> k])]
  BY DEF OtherPushes
<1>2. PICK w : w = [key |-> k, op |-> op, target |-> Remote(e), expected |-> rows[e].time, body |-> k]
  OBVIOUS
<1>3. /\ UNCHANGED <<rows, receipts, feed, device, missed>>
      /\ <<k, op>> \in plan.others /\ plan' = [plan EXCEPT !.others = @ \ {<<k, op>>}]
  BY DEF OtherPushes
<1>4. k \in New(plan)
  BY <1>3, PlanTakes DEF IInv
<1>5. w.key = k /\ w.op = op /\ w.target = Remote(e) /\ w.body = k
  BY <1>2
<1>6. /\ tx'["other"].wire = w /\ \A t \in Slot : t # "other" => tx'[t] = tx[t]
      /\ tx'["device"] = tx["device"]
  BY <1>1, <1>2 DEF IInv, TypeOK, Slot, Begun, NoTx
<1>7. \A t \in Underway' : tx'[t].wire = w \/ (t \in Underway /\ tx'[t] = tx[t])
  BY <1>6 DEF Underway
<1>8. tasks' = tasks
  BY <1>3 DEF device
<1>9. Uses' \subseteq Uses \union {<<k, op>>}
  BY <1>3, <1>5, <1>7, <1>8 DEF Uses
<1>10. Claims' \subseteq Claims \union {<<k, Remote(e), k>>}
  BY <1>3, <1>5, <1>7, <1>8 DEF Claims, Held
<1>11. ClaimInv'
  BY <1>3, <1>4, <1>9, <1>10, ClaimsTaken DEF PullInv
<1>12. ServerInv'
  BY PushedServer DEF PullInv
<1>13. AnswerInv'
  BY <1>3, <1>6, <1>8 DEF PullInv, DeviceInv, AnswerInv, InState, IsNext, device
<1>14. /\ NameInv' /\ StampInv' /\ UntoldInv' /\ CreateInv' /\ PageInv' /\ OwnInv' /\ PulledInv'
  BY <1>3, RowsKept, UnreadStep DEF PullInv
<1>15. QED
  BY <1>11, <1>12, <1>13, <1>14 DEF PullInv, DeviceInv

\* How far the device has read.
LEMMA HorizonFacts ==
    ASSUME IInv, PageInv
    PROVE  /\ Horizon \in Nat /\ cursor \in Nat
           /\ phase # "apply" => Horizon = cursor
           /\ Horizon = 0 \/ \E c \in feed : c.seq = Horizon
           /\ phase = "apply" =>
                 /\ page.changes \in Seq(Change) /\ page.changes # <<>> /\ Head(page.changes) \in feed
                 /\ 1 \in DOMAIN page.changes /\ page.changes[1] = Head(page.changes)
                 /\ Head(page.changes).seq \in Nat /\ Head(page.changes).seq <= Horizon
                 /\ cursor < Head(page.changes).seq
<1>1. /\ cursor \in Nat /\ page.changes \in Seq(Change)
      /\ \A n \in DOMAIN page.changes : page.changes[n] \in feed
      /\ phase = "apply" => page.changes # <<>>
  BY DEF IInv, TypeOK, ReadInv
<1>2. CASE page.changes = <<>>
  BY <1>1, <1>2 DEF Horizon, PageInv
<1>3. CASE page.changes # <<>>
  <2>1. PICK s : s = page.changes
    OBVIOUS
  <2>2. /\ s \in Seq(Change) /\ s # <<>> /\ Len(s) \in Nat /\ 1 \in DOMAIN s /\ Len(s) \in DOMAIN s
        /\ Head(s) = s[1] /\ DOMAIN s = 1 .. Len(s)
    BY <1>1, <1>3, <2>1
  <2>3. s[1] \in feed /\ s[Len(s)] \in feed /\ Horizon = s[Len(s)].seq
    BY <1>1, <1>3, <2>1, <2>2 DEF Horizon
  <2>4. s[1].seq \in Nat /\ s[Len(s)].seq \in Nat
    BY <2>3, ServerTyped
  <2>5. s[1].seq <= s[Len(s)].seq
    <3>1. \A m, n \in DOMAIN s : m < n => s[m].seq < s[n].seq
      BY <2>1 DEF PageInv
    <3>2. CASE Len(s) = 1
      BY <2>4, <3>2
    <3>3. CASE 1 < Len(s)
      BY <2>2, <2>4, <3>1, <3>3
    <3>4. QED
      BY <2>2, <3>2, <3>3
  <2>6. phase = "apply" => cursor < s[1].seq
    BY <2>1, <2>2 DEF PageInv
  <2>7. phase = "apply"
    BY <1>3 DEF PageInv
  <2>8. QED
    BY <1>1, <2>1, <2>2, <2>3, <2>4, <2>5, <2>6, <2>7
<1>4. QED
  BY <1>2, <1>3

\* The device has not been given a change that is committed, or misses it.
LEMMA CommittedUnseen ==
    ASSUME IInv, PullInv, NEW s \in Slot, Commit(s)
    PROVE  LET c == tx[s].change IN
           /\ c.expense \in missed' \/ (Horizon < c.seq /\ ~Passed(c))
           /\ c.seq \in Nat /\ c.seq # Horizon
           /\ missed \subseteq missed'
<1>1. PICK c : c = tx[s].change
  OBVIOUS
<1>2. /\ tx[s].stage = "drawn"
      /\ missed' = IF c.seq < Horizon THEN missed \union {c.expense} ELSE missed
  BY <1>1, Committed
<1>3. c.seq \in 1..drawn /\ (\A d \in feed : d.seq # c.seq) /\ drawn \in Nat
  BY <1>1, <1>2, ServerTyped DEF PullInv, ServerInv, DrawnInv
<1>4. Horizon \in Nat /\ c.seq # Horizon /\ c.seq \in Nat
  BY <1>3, HorizonFacts DEF PullInv, DeviceInv
<1>5. Horizon < c.seq => ~Passed(c)
  BY <1>4, HorizonFacts DEF PullInv, DeviceInv, Passed
<1>6. QED
  BY <1>1, <1>2, <1>4, <1>5

LEMMA PullCommit ==
    ASSUME IInv, PullInv, NEW s \in Slot, Commit(s)
    PROVE  PullInv'
<1>0. PICK c : c = tx[s].change
  OBVIOUS
<1>1. /\ tx[s].stage = "drawn" /\ c.expense \in Key /\ UNCHANGED device
      /\ feed' = feed \union {c} /\ receipts' = receipts \union {c.client}
      /\ Answered(s, "done")
      /\ c.op = "create" => rows' = rows
      /\ \A k \in Key : k # c.expense => rows'[k] = rows[k]
      /\ c.op # "create" => rows'[c.expense].time = c.time
  BY <1>0, Committed
<1>2. /\ tasks' = tasks /\ records' = records /\ phase' = phase /\ page' = page
      /\ cursor' = cursor /\ listed' = listed /\ dialog' = dialog
      /\ Extends /\ Unfinished' = Unfinished
  BY <1>1 DEF device, Extends, Unfinished
<1>3. ServerInv' /\ Grows
  BY CommittedServer DEF PullInv
<1>4. ClaimInv'
  BY CommittedClaims DEF PullInv
<1>5. NameInv' /\ StampInv'
  BY <1>2, <1>3, NamesKept, StampsKept DEF PullInv, DeviceInv, Grows
<1>6. UntoldInv'
  <2>1. \A k \in Key : ~Told(k)' => rows'[k] = rows[k]
    BY <1>1 DEF Told
  <2>2. QED
    BY <1>1, <1>2, <2>1, UntoldKept DEF PullInv, DeviceInv
<1>7. CreateInv'
  BY <1>1, <1>2 DEF PullInv, DeviceInv, CreateInv
<1>8. AnswerInv'
  <2>1. c \in feed' /\ c.client = tx[s].wire.key /\ tx[s].stage \in Busy
    BY <1>0, <1>1, ServerTyped DEF Busy
  <2>2. \/ tx'["device"] = tx["device"]
        \/ s = "device" /\ tx'["device"].answer = "done"
    BY <1>1, AnsweredDevice
  <2>3. QED
    BY <1>1, <2>1, <2>2, AnswerKept DEF PullInv, DeviceInv
<1>9. /\ c.expense \in missed' \/ (Horizon < c.seq /\ ~Passed(c))
      /\ c.seq \in Nat /\ missed \subseteq missed'
  BY <1>0, CommittedUnseen
<1>10. PageInv'
  <2>1. Horizon' = Horizon /\ \A d : Passed(d)' = Passed(d)
    BY <1>2 DEF Horizon, Passed
  <2>2. Horizon \in Nat
    BY HorizonFacts DEF PullInv, DeviceInv
  <2>3. ASSUME phase = "apply", NEW d \in feed', d.expense \notin missed', d.seq <= Horizon
        PROVE  Passed(d) \/ \E n \in DOMAIN page.changes : page.changes[n] = d
    BY <1>1, <1>9, <2>2, <2>3 DEF PullInv, DeviceInv, PageInv
  <2>4. QED
    BY <1>1, <1>2, <2>1, <2>3 DEF PullInv, DeviceInv, PageInv
<1>11. SeesNoMore
  BY <1>1, <1>2, <1>9 DEF SeesNoMore, Passed
<1>12. OwnInv'
  <2>1. \A i \in Unfinished' : tasks'[i].op = "create" =>
            i \in Unfinished /\ tasks[i].op = "create" /\ tasks[i].target = tasks'[i].target
    BY <1>2
  <2>2. QED
    BY <1>2, <1>11, <2>1, OwnKept, DeviceTyped DEF PullInv, DeviceInv
<1>13. PulledInv'
  <2>1. ASSUME NEW d \in feed', Passed(d)', Newest(d)', d.expense \notin missed'
        PROVE  d \in feed /\ rows'[d.expense] = rows[d.expense]
    <3>1. d \in feed /\ Passed(d) /\ d.expense \in Key
      BY <1>11, <2>1, ServerTyped DEF SeesNoMore
    <3>2. ASSUME d.expense = c.expense, c.op # "create" PROVE FALSE
      <4>1. /\ d.time <= rows[c.expense].time /\ d.time \in Int /\ rows[c.expense].time \in Int
        BY <1>1, <3>1, <3>2, ServerTyped DEF PullInv, ServerInv, FeedInv, Version
      <4>2. c.op = tx[s].wire.op /\ c.time \in Int
        BY <1>0, <1>1, ServerTyped
      <4>3. rows[c.expense].time < c.time
        BY <1>0, <1>1, <3>2, <4>2 DEF PullInv, ServerInv, ChangeInv, Altering, Mutates
      <4>4. d.time = c.time
        BY <1>1, <2>1, <3>2 DEF Newest
      <4>5. QED
        BY <4>1, <4>2, <4>3, <4>4
    <3>3. QED
      BY <1>1, <3>1, <3>2
  <2>2. ASSUME NEW d \in feed, Passed(d)', Newest(d), d.expense \notin missed', Pulled(d.expense),
               rows'[d.expense] = rows[d.expense]
        PROVE  Pulled(d.expense)'
    <3>1. PICK k \in Key : k = d.expense /\ rows'[k] = rows[k] /\ Pulled(k)
      BY <2>2, ServerTyped
    <3>2. ASSUME NEW i \in Unfinished, tasks[i].target = Remote(k), tasks[i].key \in receipts',
                 tasks[i].key \notin receipts
          PROVE  FALSE
      <4>1. tasks[i].key = c.client /\ i \in DOMAIN tasks
        BY <1>1, <3>2 DEF Unfinished
      <4>2. c.client = tx[s].wire.key /\ c.op = tx[s].wire.op /\ s \in Underway
        BY <1>0, <1>1, ServerTyped DEF Underway, Busy
      <4>3. tasks[i].op # "create"
        BY <3>2, <4>1 DEF PullInv, DeviceInv, NameInv, Remote, Local
      <4>4. <<tasks[i].key, tasks[i].op>> \in Uses /\ <<tx[s].wire.key, tx[s].wire.op>> \in Uses
        BY <4>1, <4>2 DEF Uses
      <4>5. c.op # "create"
        BY <4>1, <4>2, <4>3, <4>4 DEF IInv, UsesInv
      <4>6. tx[s].wire.target = Remote(c.expense) /\ rows[c.expense].time < c.time
        BY <1>0, <1>1, <4>2, <4>5 DEF PullInv, ServerInv, ChangeInv, Altering, Mutates
      <4>7. /\ <<tasks[i].key, tasks[i].target, tasks[i].body>> \in Claims
            /\ <<tx[s].wire.key, tx[s].wire.target, tx[s].wire.body>> \in Claims
        BY <4>1, <4>2, <4>3, <4>5 DEF Claims, Held
      <4>8. tasks[i].target = tx[s].wire.target
        BY <4>1, <4>2, <4>7 DEF PullInv, ClaimInv
      <4>9. k = c.expense
        BY <3>2, <4>6, <4>8 DEF Remote
      <4>10. rows'[k].time = c.time /\ rows[k].time \in Int /\ c.time \in Int
        BY <1>0, <1>1, <4>5, <4>9, ServerTyped
      <4>11. QED
        BY <3>1, <4>6, <4>9, <4>10
    <3>3. QED
      BY <1>2, <3>1, <3>2, PulledRecords
  <2>3. ASSUME NEW d \in feed, AwaitsRefusal(d.expense) PROVE AwaitsRefusal(d.expense)'
    BY <1>2, <2>3 DEF AwaitsRefusal
  <2>4. QED
    BY <1>11, <2>1, <2>2, <2>3, PulledKept DEF PullInv, DeviceInv
<1>14. QED
  BY <1>3, <1>4, <1>5, <1>6, <1>7, <1>8, <1>10, <1>12, <1>13 DEF PullInv, DeviceInv

-----------------------------------------------------------------------------
(* Steps that write nothing.                                               *)

LEMMA SkewKept ==
    ASSUME IInv, \/ plan' = plan
                 \/ \E n : plan' = [plan EXCEPT !.faults = n]
                 \/ \E s : plan' = [plan EXCEPT !.mine = s]
                 \/ \E s : plan' = [plan EXCEPT !.spare = s]
    PROVE  plan'.skew = plan.skew
  BY DEF IInv, TypeOK, Plan

LEMMA PageKept ==
    ASSUME PageInv, UNCHANGED <<feed, cursor, page, missed>>,
           phase' = phase \/ (phase # "apply" /\ phase' # "apply")
    PROVE  PageInv'
  BY DEF PageInv, Horizon, Passed

\* What the device has just read is as the server has it.
LEMMA PullLooks ==
    ASSUME IInv, PullInv, UNCHANGED <<server, tx, records, tasks>>, plan'.skew = plan.skew,
           phase' = "wait" => phase = "wait", SeesNoMore, PageInv',
           \A n \in listed' : \/ n \in listed
                              \/ /\ Fetched(n)
                                 /\ \A k \in Key : n.id = Remote(k) => n.body = rows[k].body,
           dialog' # None =>
               \/ dialog' = dialog
               \/ /\ Shows(tasks[dialog.task].target, dialog.row)'
                  /\ \A k \in Key : tasks'[dialog'.task].target = Remote(k) =>
                        dialog'.row.body = rows[k].body
    PROVE  PullInv'
<1>1. /\ UNCHANGED <<now, rows, receipts, feed, drawn>>
      /\ Extends /\ SameTasks /\ SameCalls /\ RowsGrow /\ Unfinished' = Unfinished
  BY RowsKept DEF server, Extends, SameTasks, SameCalls, Unfinished
<1>2. ServerInv'
  BY <1>1, MovingNone DEF PullInv
<1>3. ClaimInv'
  BY <1>1, ClaimsShrink, ClaimsKept DEF PullInv
<1>4. NameInv'
  BY <1>1, NamesKept DEF PullInv, DeviceInv
<1>5. ASSUME NEW n \in listed' PROVE n \in listed \/ Fetched(n)'
  BY <1>1 DEF Fetched, Version, Says, Exists
<1>6. StampInv'
  BY <1>1, <1>5, StampsKept DEF PullInv, DeviceInv
<1>7. UntoldInv'
  BY <1>1, UntoldKept DEF PullInv, DeviceInv
<1>8. CreateInv' /\ AnswerInv'
  BY <1>1 DEF PullInv, DeviceInv, CreateInv, AnswerInv, InState, IsNext
<1>9. OwnInv'
  BY <1>1, OwnKept, DeviceTyped DEF PullInv, DeviceInv
<1>10. PulledInv'
  <2>1. ASSUME NEW c \in feed, Pulled(c.expense) PROVE Pulled(c.expense)'
    BY <1>1, <2>1 DEF Pulled, Agrees
  <2>2. ASSUME NEW c \in feed, AwaitsRefusal(c.expense) PROVE AwaitsRefusal(c.expense)'
    BY <1>1, <2>2 DEF AwaitsRefusal
  <2>3. QED
    BY <1>1, <2>1, <2>2, PulledKept DEF PullInv, DeviceInv
<1>11. QED
  BY <1>2, <1>3, <1>4, <1>6, <1>7, <1>8, <1>9, <1>10 DEF PullInv, DeviceInv

\* The device notes what it is to do.
LEMMA PullNotes ==
    ASSUME IInv, PullInv, UNCHANGED <<server, tx, records, tasks, cursor, page, missed>>,
           plan'.skew = plan.skew, listed' = listed, dialog' = dialog \/ dialog' = None,
           phase' = phase \/ (phase \notin {"apply", "wait"} /\ phase' \notin {"apply", "wait"})
    PROVE  PullInv'
<1>1. feed' = feed
  BY DEF server
<1>2. SeesNoMore /\ PageInv'
  BY <1>1, SeesTheSame, PageKept DEF PullInv, DeviceInv
<1>3. QED
  BY <1>2, PullLooks

LEMMA PullAsk ==
    ASSUME IInv, PullInv,
           RetryFailed \/ ConnectivityRestored \/ SyncNow \/ Closed \/ PullFails \/ UNCHANGED vars
    PROVE  PullInv'
<1>1. CASE RetryFailed \/ ConnectivityRestored \/ SyncNow \/ Closed
  <2>1. UNCHANGED <<plan, server, tx, records, tasks, run, listed, missed>>
        /\ (dialog' = dialog \/ dialog' = None)
    BY <1>1 DEF RetryFailed, ConnectivityRestored, SyncNow, Closed
  <2>2. QED
    BY <2>1, PullNotes DEF run
<1>2. CASE PullFails
  <2>1. /\ UNCHANGED <<server, tx, records, tasks, cursor, page, listed, dialog, missed>>
        /\ plan' = [plan EXCEPT !.faults = @ - 1]
        /\ phase \in {"pull", "push"} /\ phase' = "idle"
    BY <1>2 DEF PullFails, Pulling
  <2>2. plan'.skew = plan.skew
    BY <2>1, SkewKept
  <2>3. QED
    BY <2>1, <2>2, PullNotes
<1>3. CASE UNCHANGED vars
  BY <1>3, PullNotes DEF vars, server
<1>4. QED
  BY <1>1, <1>2, <1>3

LEMMA PullRefresh ==
    ASSUME IInv, PullInv, Refresh
    PROVE  PullInv'
<1>1. /\ UNCHANGED <<plan, server, tx, records, tasks, run, asked, dialog, missed, given>>
      /\ listed' = {Snapshot(k, Remote(k), rows[k].time, rows[k].body)
                      : k \in {e \in Key : rows[e].state = "live"}}
  BY DEF Refresh
<1>2. SeesNoMore /\ PageInv'
  BY <1>1, SeesTheSame, PageKept DEF PullInv, DeviceInv, run, server
<1>3. ASSUME NEW n \in listed'
      PROVE  /\ Fetched(n)
             /\ \A k \in Key : n.id = Remote(k) => n.body = rows[k].body
  <2>1. PICK k \in Key : /\ rows[k].state = "live"
                         /\ n = Snapshot(k, Remote(k), rows[k].time, rows[k].body)
    BY <1>1
  <2>2. /\ n.id = Remote(k) /\ n.id[2] = k /\ n.time = rows[k].time /\ n.body = rows[k].body
        /\ n.deleted = FALSE
    BY <2>1 DEF Snapshot, Remote
  <2>3. Version(k, rows[k].time)
    BY <2>1 DEF PullInv, ServerInv, ClockInv, Exists
  <2>4. Fetched(n)
    BY <2>1, <2>2, <2>3 DEF Fetched, Says
  <2>5. QED
    BY <2>2, <2>4 DEF Remote
<1>4. QED
  BY <1>1, <1>2, <1>3, PullLooks DEF run

LEMMA PullDecide ==
    ASSUME IInv, PullInv, NEW i \in DOMAIN tasks, Decide(i)
    PROVE  PullInv'
<1>0. PICK id, row : /\ id = tasks[i].target
                     /\ row = IF id[1] = "server" THEN rows[id[2]] ELSE NoRow
  OBVIOUS
<1>1. /\ UNCHANGED <<plan, server, tx, records, tasks, run, asked, listed, missed, given>>
      /\ dialog' = [task |-> i, row |-> row]
  BY <1>0 DEF Decide
<1>2. SeesNoMore /\ PageInv'
  BY <1>1, SeesTheSame, PageKept DEF PullInv, DeviceInv, run, server
<1>3. id[2] \in Key /\ id[1] \in {"local", "server"}
  BY <1>0, DeviceTyped
<1>4. Placed(id)
  BY <1>0 DEF PullInv, DeviceInv, NameInv
<1>5. Shows(id, row)
  <2>1. CASE id[1] = "local"
    BY <1>0, <2>1 DEF Shows
  <2>2. CASE id[1] = "server"
    <3>1. Exists(id[2]) /\ row = rows[id[2]] /\ row.state \in {"live", "deleted"}
      BY <1>0, <1>3, <1>4, <2>2, ServerTyped DEF Placed, Exists
    <3>2. Version(id[2], row.time)
      BY <1>3, <3>1 DEF PullInv, ServerInv, ClockInv
    <3>3. QED
      BY <2>2, <3>1, <3>2 DEF Shows, Says
  <2>3. QED
    BY <1>3, <2>1, <2>2
<1>6. Shows(id, row)'
  BY <1>1, <1>5 DEF Shows, Version, Says, Exists, server
<1>7. dialog'.task = i /\ dialog'.row = row /\ tasks'[i].target = id
  BY <1>0, <1>1
<1>8. ASSUME NEW k \in Key, id = Remote(k) PROVE row.body = rows[k].body
  BY <1>0, <1>8 DEF Remote
<1>9. QED
  BY <1>1, <1>2, <1>6, <1>7, <1>8, PullLooks DEF run

LEMMA PullSendTask ==
    ASSUME IInv, PullInv, SendTask
    PROVE  PullInv'
<1>1. PICK i \in InState("pending") :
        /\ phase = "push" /\ phase' = "wait" /\ IsNext(i)
        /\ tx' = [tx EXCEPT !["device"] = Begun(Sent(tasks[i]))]
        /\ UNCHANGED <<plan, server, records, tasks, asked, fresh, cursor, page, listed,
                       dialog, missed, given>>
  BY DEF SendTask
<1>2. PICK w : w = Sent(tasks[i])
  OBVIOUS
<1>3. /\ w.key = tasks[i].key /\ w.op = tasks[i].op /\ w.target = tasks[i].target
      /\ w.body = tasks[i].body /\ i \in DOMAIN tasks
  BY <1>2 DEF Sent, InState
<1>4. /\ tx'["device"].wire = w /\ tx'["device"].answer = "none"
      /\ tx'["device"].stage = "begun"
      /\ \A t \in Slot : t # "device" => tx'[t] = tx[t]
  BY <1>1, <1>2 DEF IInv, TypeOK, Slot, Begun, NoTx
<1>5. \A t \in Underway' : tx'[t].wire = w \/ (t \in Underway /\ tx'[t] = tx[t])
  BY <1>4 DEF Underway
<1>6. UNCHANGED <<now, rows, receipts, feed, drawn>>
  BY <1>1 DEF server
<1>7. ServerInv'
  BY <1>1, <1>6, BegunServer DEF PullInv, Slot
<1>8. ClaimInv'
  <2>1. <<tasks[i].key, tasks[i].op>> \in Uses
    BY <1>3 DEF Uses
  <2>2. tasks[i].op # "create" => <<tasks[i].key, tasks[i].target, tasks[i].body>> \in Claims
    BY <1>3 DEF Claims, Held
  <2>3. Uses' \subseteq Uses
    BY <1>1, <1>3, <1>5, <1>6, <2>1 DEF Uses
  <2>4. Claims' \subseteq Claims
    BY <1>1, <1>3, <1>5, <1>6, <2>2 DEF Claims, Held
  <2>5. QED
    BY <1>6, <2>3, <2>4, ClaimsKept DEF PullInv
<1>9. /\ Extends /\ RowsGrow /\ Unfinished' = Unfinished
  BY <1>1, <1>6, RowsKept DEF Extends, Unfinished
<1>10. SeesNoMore /\ PageInv'
  BY <1>1, <1>6, SeesTheSame, PageKept DEF PullInv, DeviceInv
<1>11. NameInv' /\ StampInv'
  BY <1>1, <1>6, <1>9, NamesKept, StampsKept DEF PullInv, DeviceInv
<1>12. UntoldInv'
  BY <1>1, <1>6, <1>9, UntoldKept DEF PullInv, DeviceInv
<1>13. CreateInv' /\ AnswerInv'
  BY <1>1, <1>4, <1>6 DEF PullInv, DeviceInv, CreateInv, AnswerInv
<1>14. OwnInv'
  BY <1>1, <1>9, <1>10, OwnKept, DeviceTyped DEF PullInv, DeviceInv
<1>15. PulledInv'
  <2>1. ASSUME NEW c \in feed, Pulled(c.expense) PROVE Pulled(c.expense)'
    BY <1>1, <1>6, <1>9, <2>1 DEF Pulled, Agrees
  <2>2. ASSUME NEW c \in feed, AwaitsRefusal(c.expense) PROVE AwaitsRefusal(c.expense)'
    BY <1>1, <1>9, <2>2 DEF AwaitsRefusal
  <2>3. QED
    BY <1>6, <1>10, <2>1, <2>2, PulledKept DEF PullInv, DeviceInv
<1>16. QED
  BY <1>7, <1>8, <1>10, <1>11, <1>12, <1>13, <1>14, <1>15 DEF PullInv, DeviceInv

\* After a restart the device has been given nothing.
LEMMA PullRestart ==
    ASSUME IInv, PullInv, Restart
    PROVE  PullInv'
<1>1. /\ plan' = [plan EXCEPT !.faults = @ - 1] /\ tx["late"] = NoTx /\ tx' = Abandoned
      /\ phase' = "idle" /\ cursor' = 0 /\ page' = NoPage /\ listed' = {} /\ dialog' = None
      /\ UNCHANGED <<server, records, tasks>>
  BY DEF Restart
<1>2. plan'.skew = plan.skew
  BY <1>1, SkewKept
<1>3. ServerInv'
  BY <1>1, <1>2, AbandonedServer DEF PullInv
<1>4. UNCHANGED <<now, rows, receipts, feed, drawn>>
  BY <1>1 DEF server
<1>5. SameCalls
  <2>1. tx \in [Slot -> Tx] /\ NoTx.stage = "none"
    BY DEF IInv, TypeOK, NoTx
  <2>2. \A s \in Slot : tx'[s] = NoTx \/ \E t \in Slot : tx'[s] = tx[t]
    BY <1>1, <2>1 DEF Abandoned, Slot
  <2>3. QED
    BY <2>1, <2>2 DEF SameCalls, Busy
<1>6. /\ Extends /\ SameTasks /\ RowsGrow /\ Unfinished' = Unfinished
  BY <1>1, <1>4, RowsKept DEF Extends, SameTasks, Unfinished
<1>7. ClaimInv'
  BY <1>4, <1>5, <1>6, ClaimsShrink, ClaimsKept DEF PullInv
<1>8. \A c \in feed' : ~Passed(c)'
  <2>1. \A c \in feed : c.seq \in 1 .. drawn /\ drawn \in Nat
    BY ServerTyped DEF PullInv, ServerInv, FeedInv
  <2>2. QED
    BY <1>1, <1>4, <2>1 DEF Passed
<1>9. SeesNoMore
  BY <1>8 DEF SeesNoMore
<1>10. PageInv'
  BY <1>1 DEF PageInv, NoPage
<1>11. NameInv' /\ StampInv'
  BY <1>1, <1>4, <1>6, NamesKept, StampsKept DEF PullInv, DeviceInv
<1>12. UntoldInv'
  BY <1>1, <1>4, <1>6, UntoldKept DEF PullInv, DeviceInv
<1>13. CreateInv' /\ AnswerInv'
  BY <1>1, <1>4 DEF PullInv, DeviceInv, CreateInv, AnswerInv
<1>14. OwnInv' /\ PulledInv'
  BY <1>1, <1>8 DEF PullInv, DeviceInv, OwnInv, PulledInv
<1>15. QED
  BY <1>3, <1>7, <1>10, <1>11, <1>12, <1>13, <1>14 DEF PullInv, DeviceInv

-----------------------------------------------------------------------------
(* The page that is read.                                                  *)

\* The changes after the cursor are counted in the order of the feed.
LEMMA AfterOrder ==
    ASSUME IInv, ServerInv
    PROVE  /\ \A c \in feed : After(c) \in Nat
           /\ \A c \in feed : c.seq > cursor => 1 <= After(c)
           /\ \A c, d \in feed : d.seq > cursor /\ c.seq < d.seq => After(c) < After(d)
<1>1. IsFiniteSet(feed) /\ cursor \in Nat /\ \A c \in feed : c.seq \in Nat
  BY ServerTyped DEF ServerInv, FeedInv, IInv, TypeOK
<1>2. ASSUME NEW c \in feed
      PROVE  /\ IsFiniteSet({x \in feed : x.seq > cursor /\ x.seq <= c.seq})
             /\ After(c) \in Nat
  <2>1. {x \in feed : x.seq > cursor /\ x.seq <= c.seq} \in SUBSET feed
    OBVIOUS
  <2>2. IsFiniteSet({x \in feed : x.seq > cursor /\ x.seq <= c.seq})
    BY <1>1, <2>1, FS_Subset
  <2>3. QED
    BY <2>2, FS_CardinalityType DEF After
<1>3. ASSUME NEW c \in feed, c.seq > cursor PROVE 1 <= After(c)
  <2>1. c \in {x \in feed : x.seq > cursor /\ x.seq <= c.seq}
    BY <1>1, <1>3
  <2>2. After(c) # 0
    BY <1>2, <2>1, FS_EmptySet DEF After
  <2>3. PICK n : n = After(c)
    OBVIOUS
  <2>4. n \in Nat
    BY <1>2, <2>3
  <2>5. QED
    BY <2>2, <2>3, <2>4
<1>4. ASSUME NEW c \in feed, NEW d \in feed, d.seq > cursor, c.seq < d.seq
      PROVE  After(c) < After(d)
  <2>1. PICK C, D : /\ C = {x \in feed : x.seq > cursor /\ x.seq <= c.seq}
                    /\ D = {x \in feed : x.seq > cursor /\ x.seq <= d.seq}
    OBVIOUS
  <2>2. C \in SUBSET D /\ d \in D /\ d \notin C
    BY <1>1, <1>4, <2>1
  <2>3. IsFiniteSet(D) /\ After(c) = Cardinality(C) /\ After(d) = Cardinality(D)
    BY <1>2, <2>1 DEF After
  <2>4. Cardinality(C) <= Cardinality(D) /\ Cardinality(C) # Cardinality(D)
    BY <2>2, <2>3, FS_Subset
  <2>5. PICK m, n : m = Cardinality(C) /\ n = Cardinality(D)
    OBVIOUS
  <2>6. m \in Nat /\ n \in Nat
    BY <1>2, <2>3, <2>5
  <2>7. m < n
    BY <2>4, <2>5, <2>6
  <2>8. QED
    BY <2>3, <2>5, <2>7
<1>5. QED
  BY <1>2, <1>3, <1>4

\* A page holds the next changes, in order and without a gap.
LEMMA ReadPage ==
    ASSUME IInv, ServerInv, NEW size \in Nat,
           NEW s \in [1..size -> {c \in feed : c.seq > cursor}],
           \A n \in 1..size : After(s[n]) = n
    PROVE  /\ \A m, n \in 1..size : m < n => s[m].seq < s[n].seq
           /\ size # 0 => \A c \in feed : /\ c.seq < s[1].seq => c.seq <= cursor
                                          /\ c.seq <= s[size].seq =>
                                               c.seq <= cursor \/ \E n \in 1..size : s[n] = c
<1>1. /\ cursor \in Nat /\ \A c \in feed : c.seq \in Nat
      /\ \A n \in 1..size : s[n] \in feed /\ s[n].seq > cursor
  BY ServerTyped DEF IInv, TypeOK
<1>2. /\ \A c \in feed : After(c) \in Nat
      /\ \A c \in feed : c.seq > cursor => 1 <= After(c)
      /\ \A c, d \in feed : d.seq > cursor /\ c.seq < d.seq => After(c) < After(d)
  BY AfterOrder
<1>3. \A c, d \in feed : c.seq = d.seq => c = d
  BY DEF ServerInv, DrawnInv
<1>4. ASSUME NEW m \in 1..size, NEW n \in 1..size, m < n PROVE s[m].seq < s[n].seq
  <2>1. CASE s[n].seq < s[m].seq
    BY <1>1, <1>2, <1>4, <2>1
  <2>2. CASE s[n].seq = s[m].seq
    <3>1. s[n] = s[m]
      BY <1>1, <1>3, <2>2
    <3>2. QED
      BY <1>4, <3>1
  <2>3. QED
    BY <1>1, <2>1, <2>2
<1>5. ASSUME size # 0, NEW c \in feed, c.seq < s[1].seq PROVE c.seq <= cursor
  <2>1. 1 \in 1..size
    BY <1>5
  <2>2. After(c) < 1
    BY <1>1, <1>2, <1>5, <2>1
  <2>3. QED
    BY <1>1, <1>2, <2>2
<1>6. ASSUME size # 0, NEW c \in feed, c.seq <= s[size].seq, c.seq > cursor
      PROVE  \E n \in 1..size : s[n] = c
  <2>1. size \in 1..size
    BY <1>6
  <2>2. After(c) <= size
    <3>1. CASE c.seq = s[size].seq
      BY <1>1, <1>3, <2>1, <3>1
    <3>2. CASE c.seq < s[size].seq
      BY <1>1, <1>2, <2>1, <3>2
    <3>3. QED
      BY <1>1, <1>6, <2>1, <3>1, <3>2
  <2>3. PICK j \in 1..size : j = After(c)
    BY <1>2, <1>6, <2>2
  <2>4. ~(c.seq < s[j].seq) /\ ~(s[j].seq < c.seq)
    BY <1>1, <1>2, <1>6, <2>3
  <2>5. s[j] = c
    BY <1>1, <1>3, <2>4
  <2>6. QED
    BY <2>5
<1>7. QED
  BY <1>1, <1>4, <1>5, <1>6

LEMMA PullFetchPage ==
    ASSUME IInv, PullInv, FetchPage
    PROVE  PullInv'
<1>1. PICK size \in 0..PageSize :
        \E changes \in [1..size -> {c \in feed : c.seq > cursor}] :
            /\ Pulling
            /\ \A n \in 1..size : After(changes[n]) = n
            /\ page'.changes = changes
            /\ phase' = IF size = 0 THEN "idle" ELSE "apply"
            /\ UNCHANGED <<plan, server, tx, records, tasks, attempt, asked, fresh, cursor,
                           listed, dialog, missed, given>>
  BY DEF FetchPage
<1>2. PICK s \in [1..size -> {c \in feed : c.seq > cursor}] :
            /\ Pulling
            /\ \A n \in 1..size : After(s[n]) = n
            /\ page'.changes = s
            /\ phase' = IF size = 0 THEN "idle" ELSE "apply"
            /\ UNCHANGED <<plan, server, tx, records, tasks, attempt, asked, fresh, cursor,
                           listed, dialog, missed, given>>
  BY <1>1
<1>3. size \in Nat /\ feed' = feed /\ phase # "apply"
  BY <1>2, GroupSyncAssumption DEF server, Pulling
<1>4. /\ \A m, n \in 1..size : m < n => s[m].seq < s[n].seq
      /\ size # 0 => \A c \in feed : /\ c.seq < s[1].seq => c.seq <= cursor
                                     /\ c.seq <= s[size].seq =>
                                          c.seq <= cursor \/ \E n \in 1..size : s[n] = c
  BY <1>2, <1>3, ReadPage DEF PullInv
<1>5. CASE size = 0
  <2>1. s = <<>>
    BY <1>5
  <2>2. phase' = "idle" /\ page'.changes = <<>>
    BY <1>2, <1>5, <2>1
  <2>3. SeesNoMore
    BY <1>2, <1>3, <2>2, SeesTheSame
  <2>4. PageInv'
    BY <1>2, <1>3, <2>2 DEF PullInv, DeviceInv, PageInv
  <2>5. QED
    BY <1>2, <2>2, <2>3, <2>4, PullLooks
<1>6. CASE size # 0
  <2>1. /\ phase' = "apply" /\ DOMAIN s = 1..size /\ Len(s) = size /\ s # <<>>
        /\ Head(s) = s[1] /\ 1 \in 1..size /\ size \in 1..size
        /\ s[1] \in feed /\ s[1].seq > cursor /\ s[1].seq \in Nat /\ cursor \in Nat
    <3>1. 1 \in 1..size /\ size \in 1..size /\ DOMAIN s = 1..size /\ phase' = "apply"
      BY <1>2, <1>3, <1>6
    <3>2. s[1] \in feed /\ s[1].seq > cursor
      BY <3>1
    <3>3. s \in Seq(feed) /\ Len(s) = size /\ s # <<>> /\ Head(s) = s[1]
      BY <1>3, <1>6, <3>1
    <3>4. QED
      BY <3>1, <3>2, <3>3, ServerTyped DEF IInv, TypeOK
  <2>2. \A c \in feed : Passed(c)' <=> c.seq < s[1].seq
    BY <1>2, <2>1 DEF Passed
  <2>3. \A c \in feed : c.seq < s[1].seq => c.seq <= cursor
    BY <1>4, <1>6
  <2>4. \A c \in feed : c.seq <= cursor => c.seq < s[1].seq
    BY <2>1, ServerTyped
  <2>5. \A c \in feed : Passed(c)' => Passed(c)
    BY <1>3, <2>2, <2>3 DEF Passed
  <2>6. SeesNoMore
    BY <1>2, <1>3, <2>5 DEF SeesNoMore
  <2>7. Horizon' = s[size].seq
    BY <1>2, <2>1 DEF Horizon
  <2>8. PageInv'
    <3>1. cursor' = 0 \/ \E c \in feed' : c.seq = cursor'
      BY <1>2, <1>3 DEF PullInv, DeviceInv, PageInv
    <3>2. \A c \in feed : c.seq <= s[size].seq => Passed(c)' \/ \E n \in 1..size : s[n] = c
      BY <1>4, <1>6, <2>2, <2>4
    <3>3. QED
      BY <1>2, <1>3, <1>4, <2>1, <2>7, <3>1, <3>2 DEF PageInv
  <2>9. QED
    BY <1>2, <2>1, <2>6, <2>8, PullLooks
<1>7. QED
  BY <1>5, <1>6

-----------------------------------------------------------------------------
(* Answers: tasks change their status, records their state.                *)

\* An update or delete that was committed has its change in the feed.
LEMMA DoneTask ==
    ASSUME IInv, PullInv, NEW i \in DOMAIN tasks, tasks[i].key \in receipts, tasks[i].op # "create"
    PROVE  \E c \in feed : /\ c.client = tasks[i].key /\ c.op = tasks[i].op
                           /\ tasks[i].target = Remote(c.expense) /\ tasks[i].body = c.body
<1>1. <<tasks[i].key, tasks[i].op>> \in Uses
  BY DEF Uses
<1>2. tasks[i].key \in Key
  BY DeviceTyped
<1>3. ~Exists(tasks[i].key)
  BY <1>1, <1>2 DEF PullInv, ClaimInv
<1>4. PICK c \in feed : c.client = tasks[i].key
  BY <1>3 DEF PullInv, ClaimInv
<1>5. <<c.client, c.op>> \in Uses
  BY DEF Uses
<1>6. c.op = tasks[i].op
  BY <1>1, <1>4, <1>5 DEF IInv, UsesInv
<1>7. /\ <<tasks[i].key, tasks[i].target, tasks[i].body>> \in Claims
      /\ <<c.client, Remote(c.expense), c.body>> \in Claims
  BY <1>6 DEF Claims, Held
<1>8. tasks[i].target = Remote(c.expense) /\ tasks[i].body = c.body
  BY <1>4, <1>7 DEF PullInv, ClaimInv
<1>9. QED
  BY <1>4, <1>6, <1>8

\* Records may wait again, or are done when their operation was committed.
Settles(f) ==
    /\ Renewed(f) /\ SameTasks /\ Unfinished' \subseteq Unfinished
    /\ \A i \in Unfinished : i \notin Unfinished' => tasks[i].key \in receipts
    /\ \A x \in records :
          /\ f[x].deleted = x.deleted /\ f[x].body = x.body /\ f[x].time = x.time
          /\ f[x].state = "synced" =>
                \/ x.state = "synced"
                \/ \E i \in Unfinished : tasks[i].key \in receipts /\ Waits(x, tasks[i])

\* A record that is done now is one the server has committed.
LEMMA SettledRecord ==
    ASSUME IInv, PullInv, NEW f, Settles(f), NEW r \in records'
    PROVE  \E x \in records :
             /\ x.id = r.id /\ x.client = r.client /\ x.deleted = r.deleted
             /\ x.body = r.body /\ x.time = r.time
             /\ r.state = "synced" =>
                   \/ x.state = "synced"
                   \/ \E i \in Unfinished : /\ i \in DOMAIN tasks /\ tasks[i].key \in receipts
                                            /\ Waits(x, tasks[i])
  BY DEF Settles, Renewed, Unfinished

LEMMA SettledUntold ==
    ASSUME IInv, PullInv, NEW f, Settles(f), UNCHANGED <<server, listed, dialog>>
    PROVE  UntoldInv'
<1>1. /\ UNCHANGED <<now, rows, receipts, feed, drawn>> /\ Extends
  BY DEF server, Extends, Settles, SameTasks
<1>2. ASSUME NEW r \in records', NEW k \in Key, ~Told(k), r.id = Remote(k), r.state = "synced",
             ~r.deleted
      PROVE  \E x \in records : /\ x.id = r.id /\ x.state = "synced" /\ ~x.deleted
                                /\ x.body = r.body
  <2>1. PICK x \in records :
             /\ x.id = r.id /\ x.deleted = r.deleted /\ x.body = r.body
             /\ \/ x.state = "synced"
                \/ \E i \in Unfinished : /\ i \in DOMAIN tasks /\ tasks[i].key \in receipts
                                         /\ Waits(x, tasks[i])
    BY <1>2, SettledRecord
  <2>2. ASSUME NEW i \in DOMAIN tasks, tasks[i].key \in receipts, Waits(x, tasks[i])
        PROVE  FALSE
    <3>1. tasks[i].target = Remote(k)
      BY <1>2, <2>1, <2>2 DEF Waits
    <3>2. tasks[i].op # "create"
      BY <3>1 DEF PullInv, DeviceInv, NameInv, Local, Remote
    <3>3. PICK c \in feed : tasks[i].target = Remote(c.expense)
      BY <2>2, <3>2, DoneTask
    <3>4. c.expense = k
      BY <3>1, <3>3 DEF Remote
    <3>5. QED
      BY <1>2, <3>4 DEF Told
  <2>3. QED
    BY <1>2, <2>1, <2>2
<1>3. \A k \in Key : ~Told(k)' <=> ~Told(k)
  BY <1>1 DEF Told
<1>4. QED
  BY <1>1, <1>2, <1>3, UntoldKept DEF PullInv, DeviceInv

LEMMA SettledOwn ==
    ASSUME IInv, PullInv, NEW f, Settles(f), SeesNoMore
    PROVE  OwnInv'
<1>1. ASSUME NEW r \in records', r.id[1] = "local", r.state = "synced", ~r.deleted
      PROVE  r.client = r.id[2]
  <2>1. PICK x \in records :
             /\ x.id = r.id /\ x.client = r.client /\ x.deleted = r.deleted
             /\ \/ x.state = "synced"
                \/ \E i \in Unfinished : /\ i \in DOMAIN tasks /\ tasks[i].key \in receipts
                                         /\ Waits(x, tasks[i])
    BY <1>1, SettledRecord
  <2>2. ASSUME NEW i \in DOMAIN tasks, tasks[i].key \in receipts, Waits(x, tasks[i])
        PROVE  x.client = x.id[2]
    <3>1. tasks[i].op = "create"
      <4>1. x.id = tasks[i].target
        BY <2>2 DEF Waits
      <4>2. QED
        BY <1>1, <2>1, <2>2, <4>1, DoneTask DEF Remote
    <3>2. tasks[i].target = Local(tasks[i].key) /\ x.id = tasks[i].target
      BY <2>2, <3>1 DEF PullInv, DeviceInv, NameInv, Waits
    <3>3. x.client = tasks[i].key
      BY <2>2, <3>1, ByKeyOrId
    <3>4. QED
      BY <3>2, <3>3 DEF Local
  <2>3. QED
    BY <1>1, <2>1, <2>2 DEF PullInv, DeviceInv, OwnInv
<1>2. ASSUME NEW c \in feed', c.op = "create", Passed(c)', c.expense \notin missed'
      PROVE  /\ \A r \in records' : r.id = Local(c.expense) /\ r.state = "synced" => r.deleted
             /\ \A i \in Unfinished' : tasks'[i].target = Local(c.expense) => tasks'[i].op # "create"
  <2>1. c \in feed /\ Passed(c) /\ c.expense \notin missed
    BY <1>2 DEF SeesNoMore
  <2>2. \A i \in Unfinished : tasks[i].target = Local(c.expense) => tasks[i].op # "create"
    BY <1>2, <2>1 DEF PullInv, DeviceInv, OwnInv
  <2>3. ASSUME NEW r \in records', r.id = Local(c.expense), r.state = "synced"
        PROVE  r.deleted
    <3>1. PICK x \in records :
               /\ x.id = r.id /\ x.client = r.client /\ x.deleted = r.deleted
               /\ \/ x.state = "synced"
                  \/ \E i \in Unfinished : /\ i \in DOMAIN tasks /\ tasks[i].key \in receipts
                                           /\ Waits(x, tasks[i])
      BY <2>3, SettledRecord
    <3>2. ASSUME NEW i \in Unfinished, i \in DOMAIN tasks, tasks[i].key \in receipts, Waits(x, tasks[i])
          PROVE  FALSE
      <4>1. tasks[i].target = Local(c.expense)
        BY <2>3, <3>1, <3>2 DEF Waits
      <4>2. tasks[i].op # "create"
        BY <2>2, <4>1
      <4>3. PICK d \in feed : tasks[i].target = Remote(d.expense)
        BY <3>2, <4>2, DoneTask
      <4>4. QED
        BY <4>1, <4>3 DEF Remote, Local
    <3>3. QED
      BY <1>2, <2>1, <2>3, <3>1, <3>2 DEF PullInv, DeviceInv, OwnInv
  <2>4. \A i \in Unfinished' : /\ i \in Unfinished /\ tasks'[i].target = tasks[i].target
                               /\ tasks'[i].op = tasks[i].op
    BY DEF Settles, SameTasks, Unfinished
  <2>5. QED
    BY <2>2, <2>3, <2>4
<1>3. QED
  BY <1>1, <1>2 DEF OwnInv

LEMMA SettledPulled ==
    ASSUME IInv, PullInv, NEW f, Settles(f), SeesNoMore, UNCHANGED <<rows, receipts, feed>>
    PROVE  PulledInv'
<1>1. \A i \in Unfinished' :
        /\ i \in Unfinished /\ tasks'[i].key = tasks[i].key /\ tasks'[i].op = tasks[i].op
        /\ tasks'[i].target = tasks[i].target /\ tasks'[i].body = tasks[i].body
  BY DEF Settles, SameTasks, Unfinished
<1>2. ASSUME NEW k, Pulled(k) PROVE Pulled(k)'
  <2>1. \A i \in Unfinished' : Agrees(k, i)'
    BY <1>1, <1>2 DEF Pulled, Agrees
  <2>2. ASSUME NEW i \in Unfinished, NEW x \in records, tasks[i].key \in receipts, Waits(x, tasks[i]),
               x.id = Remote(k)
        PROVE  IF rows[k].state = "deleted" THEN x.deleted ELSE ~x.deleted /\ x.body = rows[k].body
    BY <1>2, <2>2 DEF Pulled, Agrees, Waits
  <2>3. ASSUME rows[k].state = "deleted", NEW r \in records', r.id = Remote(k), r.state = "synced"
        PROVE  r.deleted
    <3>1. PICK x \in records :
               /\ x.id = r.id /\ x.deleted = r.deleted
               /\ \/ x.state = "synced"
                  \/ \E i \in Unfinished : tasks[i].key \in receipts /\ Waits(x, tasks[i])
      BY <2>3, SettledRecord
    <3>2. QED
      BY <1>2, <2>2, <2>3, <3>1 DEF Pulled
  <2>4. ASSUME rows[k].state # "deleted"
        PROVE  \E r \in records' : /\ r.id = Remote(k)
                                   /\ r.state = "synced" => ~r.deleted /\ r.body = rows[k].body
    <3>1. PICK x \in records : /\ x.id = Remote(k)
                               /\ x.state = "synced" => ~x.deleted /\ x.body = rows[k].body
      BY <1>2, <2>4 DEF Pulled
    <3>2. /\ f[x] \in records' /\ f[x].id = x.id /\ f[x].deleted = x.deleted /\ f[x].body = x.body
          /\ f[x].state = "synced" =>
                \/ x.state = "synced"
                \/ \E i \in Unfinished : tasks[i].key \in receipts /\ Waits(x, tasks[i])
      BY DEF Settles, Renewed
    <3>3. QED
      BY <2>2, <2>4, <3>1, <3>2
  <2>5. QED
    BY <2>1, <2>3, <2>4 DEF Pulled
<1>3. ASSUME NEW k, AwaitsRefusal(k) PROVE AwaitsRefusal(k)'
  <2>1. PICK i \in Unfinished : tasks[i].target = Local(k) /\ tasks[i].op # "create"
    BY <1>3 DEF AwaitsRefusal
  <2>2. i \in DOMAIN tasks
    BY DEF Unfinished
  <2>3. tasks[i].key \notin receipts
    BY <2>1, <2>2, DoneTask DEF Local, Remote
  <2>4. i \in Unfinished'
    BY <2>3 DEF Settles
  <2>5. QED
    BY <1>1, <2>1, <2>4 DEF AwaitsRefusal
<1>4. QED
  BY <1>2, <1>3, PulledKept DEF PullInv, DeviceInv

LEMMA PullSettles ==
    ASSUME IInv, PullInv, NEW f, Settles(f), UNCHANGED <<server, cursor, page, listed, dialog, missed>>,
           ServerInv', SameCalls, phase # "apply", phase' = "push", CreateInv'
    PROVE  PullInv'
<1>1. /\ UNCHANGED <<now, rows, receipts, feed, drawn>> /\ Extends /\ RowsGrow /\ SameTasks /\ Renewed(f)
  BY RowsKept DEF server, Extends, Settles, SameTasks
<1>2. ClaimInv'
  BY <1>1, ClaimsShrink, ClaimsKept DEF PullInv
<1>3. \A r \in records' : \E x \in records : x.id = r.id /\ x.client = r.client /\ x.time = r.time
  BY SettledRecord
<1>4. \A i \in DOMAIN tasks' : i \in DOMAIN tasks
  BY <1>1 DEF SameTasks
<1>5. NameInv' /\ StampInv'
  BY <1>1, <1>3, <1>4, NamesKept, StampsKept DEF PullInv, DeviceInv
<1>6. SeesNoMore /\ PageInv'
  BY <1>1, SeesTheSame, PageKept DEF PullInv, DeviceInv
<1>7. AnswerInv'
  BY DEF AnswerInv
<1>8. UntoldInv' /\ OwnInv' /\ PulledInv'
  BY <1>1, <1>6, SettledUntold, SettledOwn, SettledPulled
<1>9. QED
  BY <1>2, <1>5, <1>6, <1>7, <1>8 DEF PullInv, DeviceInv

LEMMA PullStartRun ==
    ASSUME IInv, PullInv, StartRun
    PROVE  PullInv'
<1>1. /\ phase' = "push" /\ UNCHANGED <<plan, server, tx, cursor, page, listed, dialog, missed>>
      /\ SameTasks /\ Unfinished' = Unfinished
      /\ \A i \in DOMAIN tasks : tasks'[i].status \in {"pending", tasks[i].status}
  BY RunStarted
<1>2. PICK f : /\ Renewed(f)
               /\ \A r \in records :
                    /\ f[r].deleted = r.deleted /\ f[r].body = r.body /\ f[r].time = r.time
                    /\ f[r] = r \/ f[r].state # "synced"
  BY RunStarted
<1>3. Settles(f)
  BY <1>1, <1>2 DEF Settles
<1>4. UNCHANGED <<now, rows, receipts, feed, drawn>> /\ phase # "apply"
  BY <1>1 DEF server, StartRun
<1>5. ServerInv' /\ SameCalls
  BY <1>1, <1>4, MovingNone DEF PullInv, SameCalls
<1>6. CreateInv'
  BY <1>1, <1>4 DEF PullInv, DeviceInv, CreateInv, SameTasks
<1>7. QED
  BY <1>1, <1>3, <1>4, <1>5, <1>6, PullSettles

\* Task i is answered, or left.
LEMMA PullAnswers ==
    ASSUME IInv, PullInv, NEW i \in InState("pending"), NEW t, NEW state, AnswerTo(i, t, state),
           UNCHANGED <<server, asked, fresh, cursor, page, listed, dialog, missed, given>>,
           ServerInv', SameCalls, phase # "apply",
           tasks[i].op = "create" => /\ t.status # "conflict"
                                     /\ t.status = "synced" => \E c \in feed : c.client = tasks[i].key
    PROVE  PullInv'
<1>1. i \in Unfinished /\ i \in DOMAIN tasks
  BY DEF InState, Unfinished
<1>2. /\ SameTasks /\ Remarks(i, state) /\ tasks'[i] = t
      /\ \A j \in DOMAIN tasks : j # i => tasks'[j] = tasks[j]
  BY <1>1, Marking DEF AnswerTo
<1>3. /\ t.status = "synced" <=> state = "synced"
      /\ t.status = "synced" => tasks[i].key \in receipts
      /\ phase' = "push"
  BY DEF AnswerTo
<1>4. PICK f : \E r \in records :
        /\ Renewed(f) /\ Waits(r, tasks[i])
        /\ f[r].state = state /\ f[r].deleted = r.deleted
        /\ f[r].body = r.body /\ f[r].time = r.time
        /\ \A x \in records : x # r => f[x] = x
  BY <1>2 DEF Remarks
<1>5. Settles(f)
  <2>1. /\ Unfinished' \subseteq Unfinished
        /\ \A j \in Unfinished : j \notin Unfinished' => j = i /\ t.status = "synced"
    BY <1>1, <1>2 DEF Unfinished, SameTasks
  <2>2. QED
    BY <1>1, <1>2, <1>3, <1>4, <2>1 DEF Settles
<1>6. CreateInv'
  <2>1. feed' = feed
    BY DEF server
  <2>2. QED
    BY <1>2, <2>1 DEF PullInv, DeviceInv, CreateInv, SameTasks
<1>7. QED
  BY <1>3, <1>5, <1>6, PullSettles

LEMMA PullTakeAnswer ==
    ASSUME IInv, PullInv, TakeAnswer
    PROVE  PullInv'
<1>1. PICK i \in InState("pending") :
        /\ phase = "wait" /\ IsNext(i) /\ tx["device"].stage = "answered"
        /\ Outcome(i, tx["device"].answer)
        /\ tx' = [tx EXCEPT !["device"] = NoTx]
        /\ UNCHANGED <<plan, server, asked, fresh, cursor, page, listed, dialog, missed, given>>
  BY DEF TakeAnswer
<1>2. attempt \in Nat /\ Expects(i)
  BY <1>1, NextTask
<1>3. PICK answer : answer = tx["device"].answer
  OBVIOUS
<1>4. answer \in Answers /\ (answer = "done" => tasks[i].key \in receipts)
  <2>1. tx["device"] \in Tx
    BY DEF IInv, TypeOK, Slot
  <2>2. QED
    BY <1>1, <1>2, <1>3, <2>1 DEF Tx, Answers, Expects
<1>5. /\ UNCHANGED <<now, rows, receipts, feed, drawn>>
      /\ NoTx.stage = "none" /\ tx \in [Slot -> Tx]
      /\ \A s \in Slot : tx'[s] = IF s = "device" THEN NoTx ELSE tx[s]
  BY <1>1 DEF server, NoTx, IInv, TypeOK
<1>6. ServerInv' /\ SameCalls
  <2>1. \A s \in Slot : tx'[s].stage \in {"appending", "drawn"} => tx'[s] = tx[s]
    BY <1>5
  <2>2. QED
    BY <1>1, <1>5, <2>1, MovingNone DEF PullInv, SameCalls, Busy
<1>7. tasks[i].op = "create" =>
        /\ answer \notin {"none", "version_mismatch", "record_soft_deleted"}
        /\ answer = "done" => \E c \in feed : c.client = tasks[i].key
  BY <1>1, <1>3 DEF PullInv, DeviceInv, AnswerInv
<1>8. ASSUME NEW status \in {"failed", "synced"}, NEW state, status = "synced" => answer = "done",
             state = IF status = "synced" THEN "synced" ELSE "failed", Settle(i, status, "none", state)
      PROVE  PullInv'
  <2>1. PICK t : AnswerTo(i, t, state) /\ t.status = status
    BY <1>4, <1>8, Settling
  <2>2. QED
    BY <1>1, <1>6, <1>7, <1>8, <2>1, PullAnswers
<1>9. CASE answer = "done"
  <2>1. Settle(i, "synced", "none", "synced")
    BY <1>1, <1>3, <1>9 DEF Outcome
  <2>2. QED
    BY <1>8, <1>9, <2>1
<1>10. CASE answer = "refused"
  <2>1. Settle(i, "failed", "none", "failed")
    BY <1>1, <1>3, <1>10 DEF Outcome
  <2>2. QED
    BY <1>8, <1>10, <2>1
<1>11. CASE answer = "error"
  <2>1. CountError(i)
    BY <1>1, <1>3, <1>11 DEF Outcome
  <2>2. PICK t, state : AnswerTo(i, t, state) /\ t.status \notin {"conflict", "synced"}
    BY <1>2, <2>1, Counting
  <2>3. QED
    BY <1>1, <1>6, <2>2, PullAnswers
<1>12. CASE answer \notin {"done", "refused", "error"}
  <2>1. Settle(i, "conflict", answer, "failed")
    BY <1>1, <1>3, <1>12 DEF Outcome
  <2>2. answer \in {"none", "version_mismatch", "record_soft_deleted"}
    BY <1>4, <1>12 DEF Answers
  <2>3. PICK t : AnswerTo(i, t, "failed") /\ t.status = "conflict"
    BY <2>1, <2>2, Settling
  <2>4. QED
    BY <1>1, <1>6, <1>7, <2>2, <2>3, PullAnswers
<1>13. QED
  BY <1>9, <1>10, <1>11, <1>12

LEMMA PullGiveUp ==
    ASSUME IInv, PullInv, GiveUp
    PROVE  PullInv'
<1>1. PICK i \in InState("pending") :
        /\ phase = "push" /\ Settle(i, "failed", "none", "failed")
        /\ UNCHANGED <<plan, server, tx, asked, fresh, cursor, page, listed, dialog, missed, given>>
  BY DEF GiveUp, UsedUp
<1>2. PICK t : AnswerTo(i, t, "failed") /\ t.status = "failed"
  BY <1>1, Settling
<1>3. UNCHANGED <<now, rows, receipts, feed, drawn>>
  BY <1>1 DEF server
<1>4. ServerInv' /\ SameCalls
  BY <1>1, <1>3, MovingNone DEF PullInv, SameCalls
<1>5. QED
  BY <1>1, <1>2, <1>4, PullAnswers

LEMMA AbandonedCalls ==
    ASSUME IInv, tx' = Abandoned
    PROVE  SameCalls
<1>1. tx \in [Slot -> Tx] /\ NoTx.stage = "none"
  BY DEF IInv, TypeOK, NoTx
<1>2. \A s \in Slot : tx'[s] = NoTx \/ \E t \in Slot : tx'[s] = tx[t]
  BY <1>1 DEF Abandoned, Slot
<1>3. QED
  BY <1>1, <1>2 DEF SameCalls, Busy

LEMMA PullTimeOut ==
    ASSUME IInv, PullInv, TimeOut
    PROVE  PullInv'
<1>1. PICK i \in InState("pending") :
        /\ phase = "wait" /\ IsNext(i) /\ tx["late"] = NoTx
        /\ plan' = [plan EXCEPT !.faults = @ - 1]
        /\ tx' = Abandoned /\ CountError(i)
        /\ UNCHANGED <<server, asked, fresh, cursor, page, listed, dialog, missed, given>>
  BY DEF TimeOut
<1>2. attempt \in Nat
  BY <1>1, NextTask
<1>3. PICK t, state : AnswerTo(i, t, state) /\ t.status \notin {"conflict", "synced"}
  BY <1>1, <1>2, Counting
<1>4. plan'.skew = plan.skew
  BY <1>1, SkewKept
<1>5. ServerInv' /\ SameCalls
  BY <1>1, <1>4, AbandonedServer, AbandonedCalls DEF PullInv
<1>6. QED
  BY <1>1, <1>3, <1>5, PullAnswers

-----------------------------------------------------------------------------
(* What is stored from a pull or a list.                                   *)

\* Records change and nothing else that the queue or the server knows.
LEMMA PullWrites ==
    ASSUME IInv, PullInv, UNCHANGED <<server, tx, tasks, dialog>>, plan'.skew = plan.skew,
           listed' \subseteq listed, phase' = "wait" => phase = "wait",
           \A r \in records' :
               \/ \E x \in records : /\ x.id = r.id /\ x.client = r.client /\ x.time = r.time
                                     /\ r.state = "synced" /\ ~r.deleted =>
                                           x.state = "synced" /\ ~x.deleted /\ x.body = r.body
               \/ /\ Placed(r.id) /\ Called(r) /\ Stamped(r)
                  /\ \A k \in Key : ~Told(k) /\ r.id = Remote(k) /\ r.state = "synced" /\ ~r.deleted =>
                        r.body = rows[k].body
    PROVE  /\ ServerInv' /\ ClaimInv' /\ NameInv' /\ StampInv' /\ UntoldInv'
           /\ CreateInv' /\ AnswerInv'
<1>1. /\ UNCHANGED <<now, rows, receipts, feed, drawn>> /\ Extends /\ SameTasks /\ SameCalls /\ RowsGrow
  BY RowsKept DEF server, Extends, SameTasks, SameCalls
<1>2. ServerInv' /\ ClaimInv'
  BY <1>1, MovingNone, ClaimsShrink, ClaimsKept DEF PullInv
<1>3. ASSUME NEW r \in records', Placed(r.id), Called(r), Stamped(r)
      PROVE  Placed(r.id)' /\ Called(r)' /\ Stamped(r)'
  BY <1>1, <1>3 DEF Placed, Exists, OwnTask, Called, Held, Stamped
<1>4. \A r \in records' : \/ \E x \in records : x.id = r.id /\ x.client = r.client
                          \/ Placed(r.id)' /\ Called(r)'
  BY <1>3
<1>5. \A r \in records' : \/ \E x \in records : x.id = r.id /\ x.time = r.time
                          \/ Stamped(r)'
  BY <1>3
<1>6. NameInv' /\ StampInv'
  BY <1>1, <1>4, <1>5, NamesKept, StampsKept DEF PullInv, DeviceInv
<1>7. \A k \in Key : ~Told(k)' <=> ~Told(k)
  BY <1>1 DEF Told
<1>8. UntoldInv'
  BY <1>1, <1>7, UntoldKept DEF PullInv, DeviceInv
<1>9. CreateInv' /\ AnswerInv'
  BY <1>1 DEF PullInv, DeviceInv, CreateInv, AnswerInv, InState, IsNext
<1>10. QED
  BY <1>2, <1>6, <1>8, <1>9

\* A list has no keys of operations: it finds the records of its expenses.
LEMMA ListedIds ==
    ASSUME IInv, NEW new, new.client = new.id, new.id \in Id, NEW r \in Matching(new)
    PROVE  r.id = new.id
  BY DEF IInv, RecordInv, Matching

\* A change finds records of its expense, by the server's id or, if it is its
\* creation, by the device's own.
LEMMA FoundIds ==
    ASSUME IInv, PullInv, NEW c \in feed, NEW new, new.id = Remote(c.expense), new.client = c.client,
           NEW r \in Matching(new)
    PROVE  r.id = Remote(c.expense) \/ (c.op = "create" /\ r.id = Local(c.expense))
<1>1. r \in records /\ (r.id = Remote(c.expense) \/ r.client = c.client)
  BY DEF Matching
<1>2. c.client \in Key /\ c.expense \in Key /\ Exists(c.expense)
  BY ServerTyped DEF PullInv, ServerInv, FeedInv, Version
<1>3. <<c.client, c.op>> \in Uses
  BY DEF Uses
<1>4. SUFFICES ASSUME r.client = c.client
               PROVE  r.id = Remote(c.expense) \/ (c.op = "create" /\ r.id = Local(c.expense))
  BY <1>1
<1>5. \/ r.id \in {Local(c.client), Remote(c.client)}
      \/ \E p \in Held : p[1] = c.client /\ p[2] = r.id
  BY <1>1, <1>2, <1>4 DEF PullInv, DeviceInv, NameInv, Called
<1>6. CASE c.op = "create"
  <2>1. c.client = c.expense
    BY <1>6 DEF PullInv, ServerInv, FeedInv
  <2>2. \A p \in Held : p[1] # c.client
    <3>1. \A q \in Uses : q[1] = c.client => q[2] = "create"
      BY <1>2, <2>1 DEF PullInv, ClaimInv
    <3>2. Held \subseteq Claims
      BY DEF Claims
    <3>3. QED
      BY <3>1, <3>2, ClaimsUse
  <2>3. QED
    BY <1>5, <1>6, <2>1, <2>2
<1>7. CASE c.op # "create"
  <2>1. \A q \in Uses : q[1] = c.client => q[2] # "create"
    BY <1>3, <1>7 DEF IInv, UsesInv
  <2>2. ~Exists(c.client)
    BY <1>2, <1>3, <1>7 DEF PullInv, ClaimInv
  <2>3. ~OwnTask(c.client)
    <3>1. \A j \in DOMAIN tasks : <<tasks[j].key, tasks[j].op>> \in Uses
      BY DEF Uses
    <3>2. QED
      BY <2>1, <3>1 DEF OwnTask
  <2>4. r.id \notin {Local(c.client), Remote(c.client)}
    BY <1>1, <2>2, <2>3 DEF PullInv, DeviceInv, NameInv, Placed, Local, Remote
  <2>5. PICK p \in Held : p[1] = c.client /\ p[2] = r.id
    BY <1>5, <2>4
  <2>6. <<c.client, Remote(c.expense), c.body>> \in Claims /\ p \in Claims
    BY <1>7, <2>5 DEF Claims, Held
  <2>7. p = <<c.client, Remote(c.expense), c.body>>
    BY <2>5, <2>6 DEF PullInv, ClaimInv
  <2>8. QED
    BY <2>5, <2>7
<1>8. QED
  BY <1>6, <1>7

LEMMA PullStoreListed ==
    ASSUME IInv, PullInv, StoreListed
    PROVE  PullInv'
<1>1. PICK new \in listed :
        /\ records' = IF Keeps(new) THEN records ELSE (records \ Matching(new)) \union {new}
        /\ listed' = listed \ {new}
        /\ missed' = IF TurnsBack(new) THEN missed \union {new.id[2]} ELSE missed
        /\ UNCHANGED <<plan, server, tx, tasks, run, asked, dialog, given>>
  BY DEF StoreListed, StoreSnapshot
<1>2. PICK k \in Key : k = new.id[2]
  BY DeviceTyped
<1>3. /\ new.id = Remote(k) /\ new.client = new.id /\ new.id \in Id /\ new.time \in Int
      /\ new.state = "synced"
  BY <1>2, DeviceTyped
<1>4. ~new.deleted /\ Version(k, new.time) /\ Says(k, new.time, new.body)
  BY <1>2 DEF PullInv, DeviceInv, StampInv, Fetched
<1>5. \A r \in Matching(new) : r.id = Remote(k)
  BY <1>3, ListedIds
<1>6. /\ Placed(new.id) /\ Called(new) /\ Stamped(new)
      /\ \A j \in Key : ~Told(j) /\ new.id = Remote(j) => new.body = rows[j].body
  <2>1. Version(k, new.time)
    BY <1>4
  <2>2. Placed(new.id) /\ Stamped(new)
    BY <1>3, <2>1 DEF Placed, Stamped, Version, Remote
  <2>3. Called(new)
    BY <1>3, GroupSyncAssumption DEF Called
  <2>4. \A j \in Key : ~Told(j) /\ new.id = Remote(j) => new.body = rows[j].body
    BY DEF PullInv, DeviceInv, UntoldInv
  <2>5. QED
    BY <2>2, <2>3, <2>4
<1>7. \A r \in records' : r \in records \/ r = new
  BY <1>1
<1>8. /\ UNCHANGED <<rows, receipts, feed, cursor, page, phase>> /\ missed \subseteq missed'
  BY <1>1 DEF server, run
<1>9. /\ ServerInv' /\ ClaimInv' /\ NameInv' /\ StampInv' /\ UntoldInv' /\ CreateInv' /\ AnswerInv'
  BY <1>1, <1>6, <1>7, <1>8, PullWrites
<1>10. SeesNoMore
  BY <1>8, SeesTheSame
<1>11. PageInv'
  BY <1>8 DEF PullInv, DeviceInv, PageInv, Horizon, Passed
<1>12. Unfinished' = Unfinished /\ tasks' = tasks
  BY <1>1 DEF Unfinished
<1>13. OwnInv'
  <2>1. \A r \in records' : r.id[1] = "local" => r \in records
    BY <1>3, <1>7 DEF Remote
  <2>2. \A r \in records' : r.deleted \in BOOLEAN
    BY <1>7, DeviceTyped DEF IInv, TypeOK, Record
  <2>3. QED
    BY <1>10, <1>12, <2>1, <2>2, OwnKept, DeviceTyped DEF PullInv, DeviceInv
<1>14. PulledInv'
  <2>1. ASSUME NEW c \in feed, Pulled(c.expense), c.expense # k PROVE Pulled(c.expense)'
    <3>1. PICK e \in Key : e = c.expense /\ Pulled(e) /\ e # k
      BY <2>1, ServerTyped
    <3>2. \A r \in records' : r.id = Remote(e) => r \in records
      BY <1>3, <1>7, <3>1 DEF Remote
    <3>3. \A r \in records : r.id = Remote(e) => r \in records'
      BY <1>1, <1>5, <3>1 DEF Remote
    <3>4. QED
      BY <1>8, <1>12, <3>1, <3>2, <3>3, PulledRecords
  <2>2. ASSUME NEW c \in feed, Passed(c)', Newest(c), c.expense \notin missed', Pulled(c.expense),
               c.expense = k
        PROVE  Pulled(c.expense)'
    <3>1. Pulled(k)
      BY <2>2
    <3>2. CASE Keeps(new)
      BY <1>1, <1>8, <1>12, <2>2, <3>2 DEF Pulled, Agrees
    <3>3. CASE ~Keeps(new)
      <4>1. new \in records'
        BY <1>1, <3>3
      <4>2. ~Outdated(k, new.time)
        BY <1>1, <1>2, <2>2, <3>3 DEF TurnsBack
      <4>3. Passed(c) /\ c.time \in Int
        BY <1>8, <2>2, ServerTyped DEF Passed
      <4>4. c.time <= new.time /\ new.time <= rows[k].time /\ c.time = rows[k].time
        BY <1>3, <1>4, <2>2, <4>2, <4>3 DEF Outdated, Version, Newest
      <4>5. rows[k].state = "live" /\ new.body = rows[k].body
        BY <1>3, <1>4, <4>3, <4>4 DEF Says
      <4>6. ~new.deleted
        BY <1>4
      <4>7. Pulled(k)'
        BY <1>3, <1>8, <1>12, <3>1, <4>1, <4>5, <4>6 DEF Pulled, Agrees
      <4>8. QED
        BY <2>2, <4>7
    <3>4. QED
      BY <3>2, <3>3
  <2>3. ASSUME NEW c \in feed, AwaitsRefusal(c.expense) PROVE AwaitsRefusal(c.expense)'
    BY <1>12, <2>3 DEF AwaitsRefusal
  <2>4. QED
    BY <1>8, <1>10, <2>1, <2>2, <2>3, PulledKept DEF PullInv, DeviceInv
<1>15. QED
  BY <1>9, <1>11, <1>13, <1>14 DEF PullInv, DeviceInv

-----------------------------------------------------------------------------
(* A change of the feed is stored.                                         *)

\* The first change of the page is passed.
LEMMA PageTurns ==
    ASSUME IInv, PageInv, phase = "apply", feed' = feed, missed \subseteq missed',
           page' = [page EXCEPT !.changes = Tail(@)],
           IF Len(page.changes) > 1 THEN UNCHANGED <<phase, cursor>>
           ELSE cursor' = Head(page.changes).seq /\ phase' \in {"pull", "idle"}
    PROVE  /\ PageInv'
           /\ \A d \in feed : Passed(d)' /\ d.expense \notin missed' =>
                 Passed(d) \/ d = Head(page.changes)
<1>1. PICK s : s = page.changes
  OBVIOUS
<1>2. /\ s \in Seq(Change) /\ s # <<>> /\ Head(s) = s[1] /\ Len(s) \in Nat /\ Len(s) >= 1
      /\ DOMAIN s = 1 .. Len(s) /\ cursor \in Nat
      /\ \A n \in 1 .. Len(s) : s[n] \in feed
  BY <1>1 DEF IInv, TypeOK, ReadInv
<1>3. /\ \A n \in 1 .. Len(s) : s[n].seq \in Nat
      /\ \A d \in feed : d.seq \in Nat
  BY <1>2, ServerTyped
<1>4. page'.changes = Tail(s)
  BY <1>1 DEF IInv, TypeOK
<1>5. /\ \A m, n \in 1 .. Len(s) : m < n => s[m].seq < s[n].seq
      /\ cursor < s[1].seq
      /\ \A d \in feed : d.expense \notin missed /\ d.seq <= s[Len(s)].seq =>
            d.seq < s[1].seq \/ \E n \in 1 .. Len(s) : s[n] = d
      /\ \A d \in feed : Passed(d) <=> d.seq < s[1].seq
  BY <1>1, <1>2 DEF PageInv, Horizon, Passed
<1>6. CASE Len(s) > 1
  <2>1. PICK t : t = Tail(s)
    OBVIOUS
  <2>2. /\ t \in Seq(Change) /\ Len(t) = Len(s) - 1 /\ DOMAIN t = 1 .. Len(s) - 1 /\ t # <<>>
        /\ \A n \in 1 .. Len(s) - 1 : t[n] = s[n + 1]
        /\ Head(t) = t[1]
    BY <1>2, <1>6, <2>1
  <2>3. /\ phase' = "apply" /\ cursor' = cursor /\ page'.changes = t
    BY <1>1, <1>4, <1>6, <2>1
  <2>4. /\ Head(t) = s[2] /\ t[Len(t)] = s[Len(s)] /\ s[1].seq < s[2].seq
        /\ s[2].seq <= s[Len(s)].seq
    <3>1. t[1] = s[2] /\ t[Len(t)] = s[Len(s)] /\ s[1].seq < s[2].seq
      BY <1>2, <1>5, <1>6, <2>2
    <3>2. Len(s) = 2 \/ s[2].seq < s[Len(s)].seq
      BY <1>2, <1>5, <1>6
    <3>3. QED
      BY <1>2, <1>3, <1>6, <2>2, <3>1, <3>2
  <2>5. \A d \in feed : Passed(d)' <=> d.seq < s[2].seq
    BY <2>3, <2>4 DEF Passed
  <2>6. Horizon' = s[Len(s)].seq
    BY <2>2, <2>3, <2>4 DEF Horizon
  <2>7. ASSUME NEW n \in 1 .. Len(s)
        PROVE  n = 1 \/ (s[2].seq <= s[n].seq /\ t[n - 1] = s[n] /\ n - 1 \in 1 .. Len(s) - 1)
    <3>1. n = 1 \/ n = 2 \/ s[2].seq < s[n].seq
      BY <1>2, <1>5, <1>6
    <3>2. n = 1 \/ (n - 1 \in 1 .. Len(s) - 1 /\ t[n - 1] = s[n])
      BY <1>2, <2>2
    <3>3. QED
      BY <1>2, <1>3, <1>6, <3>1, <3>2
  <2>8. ASSUME NEW d \in feed, Passed(d)', d.expense \notin missed'
        PROVE  Passed(d) \/ d = s[1]
    <3>1. d.seq < s[2].seq /\ d.seq <= s[Len(s)].seq /\ d.expense \notin missed
      BY <1>2, <1>3, <1>6, <2>4, <2>5, <2>8
    <3>2. CASE d.seq < s[1].seq
      BY <1>5, <3>2
    <3>3. ASSUME NEW n \in 1 .. Len(s), s[n] = d PROVE d = s[1]
      BY <1>3, <2>7, <3>1, <3>3, <1>2, <1>6
    <3>4. QED
      BY <1>5, <3>1, <3>2, <3>3
  <2>9. ASSUME NEW d \in feed, d.expense \notin missed', d.seq <= s[Len(s)].seq
        PROVE  Passed(d)' \/ \E n \in DOMAIN t : t[n] = d
    <3>1. CASE d.seq < s[1].seq
      BY <1>2, <1>3, <1>6, <2>4, <2>5, <3>1
    <3>2. ASSUME NEW n \in 1 .. Len(s), s[n] = d PROVE Passed(d)' \/ \E m \in DOMAIN t : t[m] = d
      BY <2>2, <2>4, <2>5, <2>7, <3>2
    <3>3. QED
      BY <1>5, <2>9, <3>1, <3>2
  <2>10. \A m, n \in DOMAIN t : m < n => t[m].seq < t[n].seq
    <3>1. ASSUME NEW m \in 1 .. Len(s) - 1, NEW n \in 1 .. Len(s) - 1, m < n
          PROVE  t[m].seq < t[n].seq
      <4>1. m + 1 \in 1 .. Len(s) /\ n + 1 \in 1 .. Len(s) /\ m + 1 < n + 1
        BY <1>2, <3>1
      <4>2. s[m + 1].seq < s[n + 1].seq
        BY <1>5, <4>1
      <4>3. QED
        BY <2>2, <4>2
    <3>2. QED
      BY <2>2, <3>1
  <2>11. cursor < Head(t).seq
    <3>1. cursor \in Nat /\ s[1].seq \in Nat /\ s[2].seq \in Nat
      BY <1>2, <1>3, <1>6
    <3>2. cursor < s[1].seq /\ s[1].seq < s[2].seq /\ Head(t) = s[2]
      BY <1>5, <2>4
    <3>3. QED
      BY <3>1, <3>2
  <2>12. PageInv'
    <3>1. cursor' = 0 \/ \E c \in feed' : c.seq = cursor'
      BY <2>3 DEF PageInv
    <3>2. \A m, n \in DOMAIN page'.changes : m < n => page'.changes[m].seq < page'.changes[n].seq
      BY <2>3, <2>10
    <3>3. cursor' < Head(page'.changes).seq
      BY <2>3, <2>11
    <3>4. ASSUME NEW c \in feed', c.expense \notin missed', c.seq <= Horizon'
          PROVE  Passed(c)' \/ \E n \in DOMAIN page'.changes : page'.changes[n] = c
      BY <2>3, <2>6, <2>9, <3>4
    <3>5. QED
      BY <2>3, <3>1, <3>2, <3>3, <3>4 DEF PageInv
  <2>13. QED
    BY <1>1, <1>2, <2>8, <2>12
<1>7. CASE Len(s) = 1
  <2>1. Tail(s) = <<>>
    <3>1. PICK t : t = Tail(s)
      OBVIOUS
    <3>2. t \in Seq(Change) /\ Len(t) = 0
      BY <1>2, <1>7, <3>1
    <3>3. QED
      BY <3>1, <3>2
  <2>2. phase' \in {"pull", "idle"} /\ cursor' = s[1].seq /\ page'.changes = <<>>
    BY <1>1, <1>2, <1>4, <1>7, <2>1
  <2>3. s[1] \in feed
    BY <1>2
  <2>4. PageInv'
    BY <2>2, <2>3 DEF PageInv
  <2>5. ASSUME NEW d \in feed, Passed(d)', d.expense \notin missed'
        PROVE  Passed(d) \/ d = s[1]
    <3>1. d.seq <= s[Len(s)].seq /\ d.expense \notin missed
      BY <1>7, <2>2, <2>5 DEF Passed
    <3>2. QED
      BY <1>5, <1>7, <3>1
  <2>6. QED
    BY <1>1, <1>2, <2>4, <2>5
<1>8. QED
  BY <1>2, <1>6, <1>7

LEMMA AddSize ==
    ASSUME NEW S, NEW x, IsFiniteSet(S), x \notin S
    PROVE  Cardinality(S \union {x}) = Cardinality(S) + 1
  BY FS_AddElement

LEMMA PairSize ==
    ASSUME NEW a, NEW b, a # b PROVE Cardinality({a} \union {b}) = 2
<1>1. IsFiniteSet({a}) /\ Cardinality({a}) = 1
  BY FS_Singleton
<1>2. b \notin {a}
  OBVIOUS
<1>3. Cardinality({a} \union {b}) = Cardinality({a}) + 1
  BY <1>1, <1>2, AddSize
<1>4. QED
  BY <1>1, <1>3

\* Two records are all that a change can find.
LEMMA FoundTwo ==
    ASSUME IInv, NEW new, NEW k, \A r \in Matching(new) : r.id \in {Remote(k), Local(k)},
           NEW r \in Matching(new), NEW x \in Matching(new), r # x
    PROVE  Cardinality(Matching(new)) = 2
<1>1. \A a, b \in Matching(new) : a.id = b.id => a = b
  BY DEF IInv, RecordInv, Matching
<1>2. ASSUME NEW y \in Matching(new) PROVE y = r \/ y = x
  <2>1. r.id # x.id
    BY <1>1
  <2>2. y.id = r.id \/ y.id = x.id
    BY <2>1
  <2>3. QED
    BY <1>1, <2>2
<1>3. Matching(new) = {r} \union {x}
  BY <1>2
<1>4. Cardinality({r} \union {x}) = 2
  BY PairSize, Zenon
<1>5. QED
  BY <1>3, <1>4

\* The device takes change c, to be stored as new.
Takes(c, new) ==
    /\ c \in feed /\ c.expense \in Key /\ phase = "apply"
    /\ new.id = Remote(c.expense) /\ new.client = c.client /\ new.time = c.time
    /\ new.body = c.body /\ new.state = "synced" /\ new.deleted = FALSE
    /\ IF c.op = "delete" THEN StoreTombstone(c) ELSE StoreSnapshot(new)
    /\ missed \subseteq missed' /\ missed' \subseteq missed \union {c.expense}
    /\ c.expense \notin missed' => ~InVain(c, new) /\ (c.op = "delete" \/ ~TurnsBack(new))
    /\ UNCHANGED <<plan, server, tx, tasks, listed, dialog>> /\ phase' # "wait"
    /\ PageInv'
    /\ \A d \in feed : Passed(d)' /\ d.expense \notin missed' => Passed(d) \/ d = c

LEMMA ApplyTakes ==
    ASSUME IInv, PullInv, ApplyChange
    PROVE  \E c, new : Takes(c, new)
<1>1. PICK c : c = Head(page.changes)
  OBVIOUS
<1>2. PICK new : new = Snapshot(c.expense, c.client, c.time, c.body)
  OBVIOUS
<1>3. /\ phase = "apply"
      /\ IF c.op = "delete" THEN StoreTombstone(c) ELSE StoreSnapshot(new)
      /\ missed' = IF InVain(c, new) \/ (c.op # "delete" /\ TurnsBack(new))
                   THEN missed \union {c.expense} ELSE missed
      /\ page' = [page EXCEPT !.changes = Tail(@)]
      /\ IF Len(page.changes) > 1 THEN UNCHANGED <<phase, cursor>>
         ELSE cursor' = c.seq /\ phase' \in {"pull", "idle"}
      /\ UNCHANGED <<plan, server, tx, tasks, attempt, asked, fresh, listed, dialog, given>>
  BY <1>1, <1>2 DEF ApplyChange
<1>4. c \in feed /\ c.expense \in Key
  BY <1>1, <1>3, HorizonFacts, ServerTyped DEF PullInv, DeviceInv
<1>5. /\ new.id = Remote(c.expense) /\ new.client = c.client /\ new.time = c.time
      /\ new.body = c.body /\ new.state = "synced" /\ new.deleted = FALSE
  BY <1>2 DEF Snapshot
<1>6. feed' = feed
  BY <1>3 DEF server
<1>7. missed \subseteq missed' /\ missed' \subseteq missed \union {c.expense}
  BY <1>3
<1>8. /\ PageInv'
      /\ \A d \in feed : Passed(d)' /\ d.expense \notin missed' => Passed(d) \/ d = c
  BY <1>1, <1>3, <1>6, <1>7, PageTurns DEF PullInv, DeviceInv
<1>9. c.expense \notin missed' => ~InVain(c, new) /\ (c.op = "delete" \/ ~TurnsBack(new))
  BY <1>3
<1>10. phase' # "wait"
  BY <1>3
<1>11. Takes(c, new)
  BY <1>3, <1>4, <1>5, <1>7, <1>8, <1>9, <1>10 DEF Takes
<1>12. QED
  BY <1>11

\* What it means that the newest change, or the creation, is not in vain.
LEMMA NotInVain ==
    ASSUME NEW c, NEW new, Takes(c, new), c.expense \notin missed', c.op = "create" \/ Newest(c)
    PROVE  /\ \A i \in Unfinished :
                 tasks[i].key \in receipts /\ Of(tasks[i]) \intersect Matching(new) # {} =>
                     tasks[i].key = c.client /\ c.op # "create"
           /\ c.op # "delete" /\ Keeps(new) =>
                 /\ Cardinality(Matching(new)) # 2
                 /\ \A r \in Matching(new) : ~(r.time > c.time /\ r.time % 2 = 1)
  BY DEF Takes, InVain, Newest

\* An operation on expense k that was committed is the newest change of it.
LEMMA TakenAgrees ==
    ASSUME IInv, PullInv, NEW c, NEW new, Takes(c, new), c.expense \notin missed', Newest(c),
           NEW i \in Unfinished
    PROVE  Agrees(c.expense, i)
<1>1. SUFFICES ASSUME tasks[i].target = Remote(c.expense), tasks[i].key \in receipts
               PROVE  IF rows[c.expense].state = "deleted" THEN tasks[i].op = "delete"
                      ELSE tasks[i].op = "update" /\ tasks[i].body = rows[c.expense].body
  BY DEF Agrees
<1>2. i \in DOMAIN tasks /\ c \in feed /\ c.expense \in Key
  BY DEF Unfinished, Takes
<1>3. PICK r \in records : Of(tasks[i]) = {r} /\ r.id = tasks[i].target
  BY DEF IInv, QueueInv, Waits
<1>4. r \in Matching(new)
  BY <1>1, <1>3 DEF Takes, Matching
<1>5. tasks[i].key = c.client /\ c.op # "create"
  BY <1>1, <1>3, <1>4, NotInVain
<1>6. <<tasks[i].key, tasks[i].op>> \in Uses /\ <<c.client, c.op>> \in Uses
  BY <1>2 DEF Uses
<1>7. tasks[i].op = c.op
  BY <1>5, <1>6 DEF IInv, UsesInv
<1>8. /\ <<tasks[i].key, tasks[i].target, tasks[i].body>> \in Claims
      /\ <<c.client, Remote(c.expense), c.body>> \in Claims
  BY <1>2, <1>5, <1>7 DEF Claims, Held
<1>9. tasks[i].body = c.body
  BY <1>5, <1>8 DEF PullInv, ClaimInv
<1>10. c.op \in Op
  BY <1>2, ServerTyped
<1>11. CASE c.op = "delete"
  BY <1>2, <1>7, <1>11 DEF PullInv, ServerInv, FeedInv
<1>12. CASE c.op # "delete"
  <2>1. rows[c.expense].state = "live" /\ c.body = rows[c.expense].body
    BY <1>2, <1>12 DEF PullInv, ServerInv, FeedInv, Says, Newest
  <2>2. tasks[i].op = "update"
    BY <1>5, <1>7, <1>10, <1>12 DEF Op
  <2>3. QED
    BY <1>9, <2>1, <2>2
<1>13. QED
  BY <1>11, <1>12

\* The newest change is not stored only because an operation waits.
LEMMA TakenKeeps ==
    ASSUME IInv, PullInv, NEW c, NEW new, Takes(c, new), c.expense \notin missed', Newest(c),
           c.op # "delete", Keeps(new)
    PROVE  \/ \E r \in records : r.id = Remote(c.expense) /\ r.state # "synced"
           \/ AwaitsRefusal(c.expense)
<1>1. /\ c \in feed /\ c.expense \in Key /\ new.id = Remote(c.expense) /\ new.client = c.client
      /\ new.time = c.time /\ c.time \in Int
  BY ServerTyped DEF Takes
<1>2. \A r \in Matching(new) : /\ r \in records
                               /\ r.id = Remote(c.expense) \/ (c.op = "create" /\ r.id = Local(c.expense))
  BY <1>1, FoundIds DEF Matching
<1>3. CASE KeepsWaiting(new)
  <2>1. PICK r \in Matching(new) : r.state # "synced"
    BY <1>3 DEF KeepsWaiting
  <2>2. CASE r.id = Remote(c.expense)
    BY <1>2, <2>1, <2>2
  <2>3. CASE r.id = Local(c.expense) /\ c.op = "create"
    <3>1. PICK i \in Unfinished : tasks[i].target = r.id
      BY <1>2, <2>1 DEF IInv, QueueInv
    <3>2. i \in DOMAIN tasks
      BY DEF Unfinished
    <3>3. ASSUME tasks[i].op = "create" PROVE FALSE
      <4>1. tasks[i].key = c.expense
        BY <2>3, <3>1, <3>2, <3>3 DEF PullInv, DeviceInv, NameInv, Local
      <4>2. c.client = c.expense /\ c.client \in receipts
        BY <1>1, <2>3 DEF PullInv, ServerInv, FeedInv, IInv, ReadInv
      <4>3. PICK x \in records : Of(tasks[i]) = {x} /\ x.id = tasks[i].target
        BY DEF IInv, QueueInv, Waits
      <4>4. x = r
        BY <1>2, <3>1, <4>3 DEF IInv, RecordInv
      <4>5. Of(tasks[i]) \intersect Matching(new) # {}
        BY <4>3, <4>4
      <4>6. QED
        BY <2>3, <4>1, <4>2, <4>5, NotInVain
    <3>4. QED
      BY <2>3, <3>1, <3>3 DEF AwaitsRefusal
  <2>4. QED
    BY <1>2, <2>2, <2>3
<1>4. CASE ~KeepsWaiting(new)
  <2>1. PICK r \in Matching(new) : r.time > c.time
    BY <1>1, <1>4 DEF Keeps, KeepsNewer
  <2>2. r \in records /\ r.time \in Int
    BY <1>2, DeviceTyped
  <2>3. Even(r.time)
    BY <2>1, <2>2, NotInVain DEF Even
  <2>4. r.id[1] = "server" /\ r.time <= rows[r.id[2]].time
    BY <2>2, <2>3 DEF PullInv, DeviceInv, StampInv, Stamped
  <2>5. r.id[2] = c.expense
    BY <1>2, <2>4 DEF Remote, Local
  <2>6. r.time <= c.time
    BY <2>4, <2>5 DEF Newest
  <2>7. QED
    BY <1>1, <2>1, <2>2, <2>6
<1>5. QED
  BY <1>3, <1>4

\* A creation that is stored replaces the device's own expense.
LEMMA TakenOwn ==
    ASSUME IInv, PullInv, NEW c, NEW new, Takes(c, new), c.op = "create", c.expense \notin missed'
    PROVE  /\ \A r \in records' : r.id = Local(c.expense) /\ r.state = "synced" => r.deleted
           /\ \A i \in Unfinished : tasks[i].target = Local(c.expense) => tasks[i].op # "create"
<1>1. /\ c \in feed /\ c.expense \in Key /\ new.id = Remote(c.expense) /\ new.client = c.client
      /\ new.time = c.time /\ c.time \in Int /\ StoreSnapshot(new)
  BY ServerTyped DEF Takes
<1>2. c.client = c.expense /\ c.client \in receipts
  BY <1>1 DEF PullInv, ServerInv, FeedInv, IInv, ReadInv
<1>3. \A r \in Matching(new) : r \in records /\ r.id \in {Remote(c.expense), Local(c.expense)}
  BY <1>1, FoundIds DEF Matching
<1>4. ASSUME NEW i \in Unfinished, tasks[i].target = Local(c.expense), tasks[i].op = "create"
      PROVE  FALSE
  <2>1. i \in DOMAIN tasks
    BY DEF Unfinished
  <2>2. tasks[i].key = c.expense
    BY <1>4, <2>1 DEF PullInv, DeviceInv, NameInv, Local
  <2>3. PICK x \in records : Waits(x, tasks[i])
    BY DEF IInv, QueueInv
  <2>4. Of(tasks[i]) = {x} /\ x.client = tasks[i].key
    BY <1>4, <2>3, ByKeyOrId DEF Waits
  <2>5. x \in Matching(new)
    BY <1>1, <1>2, <2>2, <2>4 DEF Matching
  <2>6. QED
    BY <1>2, <2>2, <2>4, <2>5, NotInVain
<1>5. ASSUME NEW r \in records', r.id = Local(c.expense), r.state = "synced", ~r.deleted
      PROVE  FALSE
  <2>1. r.id[1] = "local" /\ r.id[2] = c.expense /\ r # new
    BY <1>1, <1>5 DEF Local, Remote
  <2>2. r \in records
    BY <1>1, <1>5, <2>1 DEF StoreSnapshot
  <2>3. r.client = c.client
    BY <1>2, <1>5, <2>1, <2>2 DEF PullInv, DeviceInv, OwnInv
  <2>4. r \in Matching(new)
    BY <1>1, <2>2, <2>3 DEF Matching
  <2>5. Keeps(new)
    BY <1>1, <1>5, <2>1, <2>4 DEF StoreSnapshot
  <2>6. /\ Cardinality(Matching(new)) # 2
        /\ \A x \in Matching(new) : ~(x.time > c.time /\ x.time % 2 = 1)
    BY <2>5, NotInVain
  <2>7. \A x \in Matching(new) : x = r
    BY <1>3, <2>4, <2>6, FoundTwo
  <2>8. r.time > c.time
    BY <1>1, <1>5, <2>5, <2>7 DEF Keeps, KeepsWaiting, KeepsNewer
  <2>9. Even(r.time)
    BY <2>2, <2>4, <2>6, <2>8, DeviceTyped DEF Even
  <2>10. QED
    BY <2>1, <2>2, <2>9 DEF PullInv, DeviceInv, StampInv, Stamped
<1>6. QED
  BY <1>4, <1>5

\* What the records are then.
LEMMA TakenRecords ==
    ASSUME IInv, PullInv, NEW c, NEW new, Takes(c, new)
    PROVE  /\ \A r \in records' :
                 \/ r \in records
                 \/ r = new /\ c.op # "delete" /\ ~Keeps(new)
                 \/ /\ c.op = "delete" /\ r.deleted = TRUE /\ r.time = c.time /\ r.id = Remote(c.expense)
                    /\ \E x \in records : x.id = r.id /\ x.client = r.client
           /\ \A r \in records : r.id # Remote(c.expense) /\ r.id # Local(c.expense) => r \in records'
           /\ c.op # "delete" => IF Keeps(new) THEN records' = records ELSE new \in records'
           /\ c.op = "delete" => \A r \in records' : r.id = Remote(c.expense) /\ r.state = "synced" => r.deleted
<1>1. c \in feed /\ new.id = Remote(c.expense) /\ new.client = c.client
  BY DEF Takes
<1>2. CASE c.op = "delete"
  <2>1. PICK found : /\ found = {r \in records : r.id = Remote(c.expense) /\ r.state = "synced"}
                     /\ records' = (records \ found) \union
                                      {[r EXCEPT !.deleted = TRUE, !.time = c.time] : r \in found}
    BY <1>2 DEF Takes, StoreTombstone
  <2>2. records \subseteq Record
    BY DEF IInv, TypeOK
  <2>3. ASSUME NEW r \in records', r \notin records
        PROVE  /\ r.deleted = TRUE /\ r.time = c.time /\ r.id = Remote(c.expense)
               /\ \E x \in records : x.id = r.id /\ x.client = r.client
    <3>1. PICK x \in found : r = [x EXCEPT !.deleted = TRUE, !.time = c.time]
      BY <2>1, <2>3
    <3>2. x \in Record /\ x \in records /\ x.id = Remote(c.expense)
      BY <2>1, <2>2
    <3>3. r.deleted = TRUE /\ r.time = c.time /\ r.id = x.id /\ r.client = x.client
      BY <3>1, <3>2 DEF Record
    <3>4. QED
      BY <3>2, <3>3
  <2>4. \A r \in records : r.id # Remote(c.expense) => r \in records'
    BY <2>1
  <2>5. ASSUME NEW r \in records', r.id = Remote(c.expense), r.state = "synced" PROVE r.deleted
    <3>1. CASE r \notin records
      BY <2>3, <3>1
    <3>2. CASE r \in records
      <4>1. r \in found
        BY <2>1, <2>5, <3>2
      <4>2. PICK x \in found : r = [x EXCEPT !.deleted = TRUE, !.time = c.time]
        BY <2>1, <4>1
      <4>3. x \in Record
        BY <2>1, <2>2
      <4>4. r.deleted = TRUE
        BY <4>2, <4>3 DEF Record
      <4>5. QED
        BY <4>4
    <3>3. QED
      BY <3>1, <3>2
  <2>6. QED
    BY <1>2, <2>3, <2>4, <2>5
<1>3. CASE c.op # "delete"
  <2>1. records' = IF Keeps(new) THEN records ELSE (records \ Matching(new)) \union {new}
    BY <1>3 DEF Takes, StoreSnapshot
  <2>2. \A r \in Matching(new) : r.id = Remote(c.expense) \/ r.id = Local(c.expense)
    BY <1>1, FoundIds
  <2>3. CASE Keeps(new)
    BY <1>3, <2>1, <2>3
  <2>4. CASE ~Keeps(new)
    <3>1. records' = (records \ Matching(new)) \union {new}
      BY <2>1, <2>4
    <3>2. \A r \in records' : r \in records \/ r = new
      BY <3>1
    <3>3. \A r \in records : r.id # Remote(c.expense) /\ r.id # Local(c.expense) => r \in records'
      BY <2>2, <3>1
    <3>4. new \in records'
      BY <3>1
    <3>5. QED
      BY <1>3, <2>4, <3>2, <3>3, <3>4
  <2>5. QED
    BY <2>3, <2>4
<1>4. QED
  BY <1>2, <1>3

LEMMA TakenStored ==
    ASSUME IInv, PullInv, NEW c, NEW new, Takes(c, new), NEW r \in records', r \notin records
    PROVE  /\ Placed(r.id) /\ Called(r) /\ Stamped(r)
           /\ \A k \in Key : ~Told(k) /\ r.id = Remote(k) /\ r.state = "synced" /\ ~r.deleted =>
                 r.body = rows[k].body
<1>1. /\ c \in feed /\ c.expense \in Key /\ new.id = Remote(c.expense) /\ new.client = c.client
      /\ new.time = c.time
  BY DEF Takes
<1>2. Version(c.expense, c.time)
  BY <1>1 DEF PullInv, ServerInv, FeedInv
<1>3. r.id = Remote(c.expense) /\ r.time = c.time
  BY <1>1, TakenRecords
<1>4. Placed(r.id) /\ Stamped(r)
  BY <1>2, <1>3 DEF Placed, Stamped, Version, Remote
<1>5. Called(r)
  <2>1. CASE \E x \in records : x.id = r.id /\ x.client = r.client
    BY <2>1 DEF PullInv, DeviceInv, NameInv, Called
  <2>2. CASE r = new
    <3>1. CASE c.op = "create"
      <4>1. c.client = c.expense
        BY <1>1, <3>1 DEF PullInv, ServerInv, FeedInv
      <4>2. QED
        BY <1>1, <2>2, <4>1 DEF Called
    <3>2. CASE c.op # "create"
      <4>1. PICK p : p = <<c.client, Remote(c.expense), c.body>>
        OBVIOUS
      <4>2. p \in Held /\ p[1] = c.client /\ p[2] = Remote(c.expense)
        BY <1>1, <3>2, <4>1 DEF Held
      <4>3. QED
        BY <1>1, <2>2, <4>2 DEF Called
    <3>3. QED
      BY <3>1, <3>2
  <2>3. QED
    BY <2>1, <2>2, TakenRecords
<1>6. \A k \in Key : r.id = Remote(k) => Told(k)
  BY <1>1, <1>3 DEF Told, Remote
<1>7. QED
  BY <1>4, <1>5, <1>6

\* The newest change is on the device as the server has it.
LEMMA TakenPulled ==
    ASSUME IInv, PullInv, NEW c, NEW new, Takes(c, new)
    PROVE  PulledInv'
<1>0. PICK k \in Key : k = c.expense
  BY DEF Takes
<1>1. /\ c \in feed /\ UNCHANGED <<rows, receipts, feed, tasks>> /\ Unfinished' = Unfinished
      /\ new.state = "synced" /\ new.deleted = FALSE /\ new.body = c.body /\ new.time = c.time
      /\ new.id = Remote(k) /\ missed \subseteq missed' /\ c.time \in Int
  BY <1>0, ServerTyped DEF Takes, server, Unfinished
<1>2. /\ \A r \in records' : r \in records \/ r.id = Remote(k)
      /\ \A r \in records : r.id # Remote(k) /\ r.id # Local(k) => r \in records'
      /\ c.op # "delete" => IF Keeps(new) THEN records' = records ELSE new \in records'
      /\ c.op = "delete" => \A r \in records' : r.id = Remote(k) /\ r.state = "synced" => r.deleted
  BY <1>0, <1>1, TakenRecords
<1>3. SUFFICES ASSUME NEW d \in feed, Passed(d)', Newest(d), d.expense \notin missed'
               PROVE  Pulled(d.expense)' \/ (rows[d.expense].state = "live" /\ AwaitsRefusal(d.expense)')
  BY <1>1 DEF PulledInv, Newest
<1>4. Passed(d) \/ d = c
  BY <1>3 DEF Takes
<1>5. \A e : AwaitsRefusal(e) <=> AwaitsRefusal(e)'
  BY <1>1 DEF AwaitsRefusal
<1>6. CASE d.expense # k
  <2>1. Passed(d) /\ d.expense \notin missed
    BY <1>0, <1>1, <1>3, <1>4, <1>6
  <2>2. Pulled(d.expense) \/ (rows[d.expense].state = "live" /\ AwaitsRefusal(d.expense))
    BY <1>3, <2>1 DEF PullInv, DeviceInv, PulledInv
  <2>3. ASSUME Pulled(d.expense) PROVE Pulled(d.expense)'
    <3>1. PICK e \in Key : e = d.expense /\ e # k /\ Pulled(e)
      BY <1>6, <2>3, ServerTyped
    <3>2. Remote(e) # Remote(k) /\ Remote(e) # Local(k)
      BY <3>1 DEF Remote, Local
    <3>3. QED
      BY <1>1, <1>2, <3>1, <3>2, PulledRecords
  <2>4. QED
    BY <1>5, <2>2, <2>3
<1>7. CASE d.expense = k /\ Newest(c)
  <2>1. c.expense \notin missed' /\ k \notin missed'
    BY <1>0, <1>3, <1>7
  <2>2. \A i \in Unfinished : Agrees(k, i)
    BY <1>0, <1>7, <2>1, TakenAgrees
  <2>3. \A i \in Unfinished' : Agrees(k, i)'
    BY <1>1, <2>2 DEF Agrees
  <2>4. CASE c.op = "delete"
    <3>1. rows[k].state = "deleted"
      BY <1>0, <1>1, <2>4 DEF PullInv, ServerInv, FeedInv
    <3>2. Pulled(k)'
      BY <1>1, <1>2, <2>3, <2>4, <3>1 DEF Pulled
    <3>3. QED
      BY <1>7, <3>2
  <2>5. CASE c.op # "delete"
    <3>1. rows[k].state = "live" /\ c.body = rows[k].body
      BY <1>0, <1>1, <1>7, <2>5 DEF PullInv, ServerInv, FeedInv, Says, Newest
    <3>2. CASE Keeps(new)
      <4>1. (\E r \in records : r.id = Remote(k) /\ r.state # "synced") \/ AwaitsRefusal(k)
        BY <1>0, <1>7, <2>1, <2>5, <3>2, TakenKeeps
      <4>2. records' = records
        BY <1>2, <2>5, <3>2
      <4>3. Pulled(k)' \/ AwaitsRefusal(k)'
        BY <1>1, <1>5, <2>3, <3>1, <4>1, <4>2 DEF Pulled
      <4>4. QED
        BY <1>7, <3>1, <4>3
    <3>3. CASE ~Keeps(new)
      <4>1. new \in records'
        BY <1>2, <2>5, <3>3
      <4>2. Pulled(k)'
        BY <1>1, <2>3, <3>1, <4>1 DEF Pulled
      <4>3. QED
        BY <1>7, <4>2
    <3>4. QED
      BY <3>2, <3>3
  <2>6. QED
    BY <2>4, <2>5
<1>8. CASE d.expense = k /\ ~Newest(c)
  <2>1. Passed(d) /\ d.expense \notin missed /\ d # c
    BY <1>1, <1>3, <1>4, <1>8
  <2>2. c.op # "delete"
    BY <1>1, <1>8 DEF PullInv, ServerInv, FeedInv
  <2>3. c.time < d.time
    <3>1. c.time <= rows[k].time /\ c.time # rows[k].time /\ d.time = rows[k].time /\ rows[k].time \in Int
      BY <1>0, <1>1, <1>3, <1>8, ServerTyped DEF PullInv, ServerInv, FeedInv, Version, Newest
    <3>2. QED
      BY <1>1, <3>1
  <2>4. Outdated(k, c.time)
    BY <1>8, <2>1, <2>3 DEF Outdated
  <2>5. ~TurnsBack(new)
    BY <1>0, <1>3, <1>8, <2>2 DEF Takes
  <2>6. Keeps(new)
    BY <1>1, <2>4, <2>5 DEF TurnsBack, Remote
  <2>7. records' = records
    BY <1>2, <2>2, <2>6
  <2>8. Pulled(k) \/ (rows[k].state = "live" /\ AwaitsRefusal(k))
    BY <1>3, <1>8, <2>1 DEF PullInv, DeviceInv, PulledInv
  <2>9. Pulled(k) => Pulled(k)'
    BY <1>1, <2>7 DEF Pulled, Agrees
  <2>10. QED
    BY <1>5, <1>8, <2>8, <2>9
<1>9. QED
  BY <1>6, <1>7, <1>8

LEMMA PullApplyChange ==
    ASSUME IInv, PullInv, ApplyChange
    PROVE  PullInv'
<1>1. PICK c, new : Takes(c, new)
  BY ApplyTakes
<1>2. /\ UNCHANGED <<plan, server, tx, tasks, listed, dialog>> /\ phase' # "wait"
      /\ c \in feed /\ new.id = Remote(c.expense) /\ new.deleted = FALSE /\ PageInv'
  BY <1>1 DEF Takes
<1>3. /\ ServerInv' /\ ClaimInv' /\ NameInv' /\ StampInv' /\ UntoldInv'
      /\ CreateInv' /\ AnswerInv'
  BY <1>1, <1>2, TakenStored, PullWrites
<1>4. Unfinished' = Unfinished /\ tasks' = tasks /\ feed' = feed
  BY <1>2 DEF Unfinished, server
<1>5. OwnInv'
  <2>1. ASSUME NEW r \in records', r.id[1] = "local" PROVE r \in records
    <3>1. r.id # Remote(c.expense) /\ new.id[1] # "local"
      BY <1>2, <2>1 DEF Remote
    <3>2. QED
      BY <1>1, <2>1, <3>1, TakenRecords
  <2>2. \A r \in records' : r.id[1] = "local" /\ r.state = "synced" /\ ~r.deleted => r.client = r.id[2]
    BY <2>1 DEF PullInv, DeviceInv, OwnInv
  <2>3. ASSUME NEW d \in feed', d.op = "create", Passed(d)', d.expense \notin missed'
        PROVE  /\ \A r \in records' : r.id = Local(d.expense) /\ r.state = "synced" => r.deleted
               /\ \A i \in Unfinished' : tasks'[i].target = Local(d.expense) => tasks'[i].op # "create"
    <3>1. CASE d = c
      BY <1>1, <1>4, <2>3, <3>1, TakenOwn
    <3>2. CASE d # c
      <4>1. d \in feed /\ Passed(d) /\ d.expense \notin missed
        BY <1>1, <1>4, <2>3, <3>2 DEF Takes
      <4>2. \A r \in records' : r.id = Local(d.expense) => r \in records
        BY <2>1 DEF Local
      <4>3. QED
        BY <1>4, <2>3, <4>1, <4>2 DEF PullInv, DeviceInv, OwnInv
    <3>3. QED
      BY <3>1, <3>2
  <2>4. QED
    BY <2>2, <2>3 DEF OwnInv
<1>6. PulledInv'
  BY <1>1, TakenPulled
<1>7. QED
  BY <1>2, <1>3, <1>5, <1>6 DEF PullInv, DeviceInv

-----------------------------------------------------------------------------
(* What the user saves and decides.                                        *)

\* What is queued anew is about an expense that is there or comes into being.
Enters(q, t, new) ==
    /\ Queued(q, t, new) /\ Replaces(new)
    /\ IF t.op = "create" THEN new.id = Local(t.key) ELSE \E x \in records : x.id = new.id
    /\ new.client = t.key \/ \E x \in records : x.id = new.id /\ x.client = new.client
    /\ ~Even(new.time) \/ \E x \in records : x.id = new.id /\ x.time = new.time
    /\ \A j \in DOMAIN tasks : q[j].status \in {tasks[j].status, "synced"}
    /\ \A i \in Unfinished : tasks[i].target = new.id => new.id[1] = "server"

\* The queue is longer by one task, and one may be done with.
LEMMA EnteredTasks ==
    ASSUME IInv, PullInv, NEW q, NEW t, NEW new, Enters(q, t, new)
    PROVE  \E n \in Nat :
             /\ DOMAIN tasks' = DOMAIN tasks \union {n} /\ n \notin DOMAIN tasks
             /\ tasks'[n] = t /\ t.status = "pending" /\ t.target = new.id
             /\ t.key \in New(plan) /\ t.key \in Key /\ t.op \in Op /\ t.target[2] \in Key
             /\ \A j \in DOMAIN tasks :
                  /\ j < n
                  /\ tasks'[j].key = tasks[j].key /\ tasks'[j].op = tasks[j].op
                  /\ tasks'[j].target = tasks[j].target /\ tasks'[j].body = tasks[j].body
                  /\ tasks'[j].status = "pending" <=> tasks[j].status = "pending"
                  /\ \/ tasks'[j].status = tasks[j].status
                     \/ tasks'[j].status = "synced" /\ tasks[j].target[1] = "server"
             /\ \A i \in Unfinished' : i \in Unfinished \/ i = n
             /\ \A i \in Unfinished : i \in Unfinished' \/ tasks[i].target[1] = "server"
<1>1. PICK n \in Nat : n = Len(tasks) + 1
  BY DEF IInv, TypeOK
<1>2. /\ DOMAIN tasks' = DOMAIN tasks \union {n} /\ n \notin DOMAIN tasks
      /\ \A j \in DOMAIN tasks : tasks'[j] = q[j] /\ j <= n
      /\ tasks'[n] = t /\ tasks \in Seq(Task)
  BY <1>1, Queue DEF Enters
<1>3. /\ t \in Task /\ t.status = "pending" /\ t.target = new.id /\ t.key \in New(plan)
      /\ \A j \in DOMAIN tasks :
          /\ q[j].key = tasks[j].key /\ q[j].op = tasks[j].op
          /\ q[j].target = tasks[j].target /\ q[j].body = tasks[j].body
          /\ q[j].status = "pending" <=> tasks[j].status = "pending"
          /\ q[j].status # "synced" <=> tasks[j].status # "synced" /\ tasks[j].target # new.id
  BY DEF Enters, Queued
<1>4. t.key \in Key /\ t.op \in Op /\ t.target[2] \in Key
  BY <1>3 DEF Task, Id
<1>5. ASSUME NEW j \in DOMAIN tasks
      PROVE  /\ j < n
             /\ \/ tasks'[j].status = tasks[j].status
                \/ tasks'[j].status = "synced" /\ tasks[j].target[1] = "server"
  <2>1. j \in Nat /\ j <= n /\ j # n
    BY <1>2
  <2>2. \/ q[j].status = tasks[j].status
        \/ q[j].status = "synced" /\ tasks[j].target[1] = "server"
    BY <1>3 DEF Enters, Unfinished
  <2>3. QED
    BY <1>1, <1>2, <2>1, <2>2
<1>6. \A i \in Unfinished' : i \in Unfinished \/ i = n
  BY <1>2, <1>3 DEF Unfinished
<1>7. \A i \in Unfinished : i \in Unfinished' \/ tasks[i].target[1] = "server"
  BY <1>2, <1>5 DEF Unfinished
<1>8. QED
  BY <1>2, <1>3, <1>4, <1>5, <1>6, <1>7

LEMMA EnteredNames ==
    ASSUME IInv, PullInv, NEW q, NEW t, NEW new, Enters(q, t, new), UNCHANGED server
    PROVE  NameInv' /\ (tx' = tx => ClaimInv')
<1>1. PICK n \in Nat :
             /\ DOMAIN tasks' = DOMAIN tasks \union {n} /\ n \notin DOMAIN tasks
             /\ tasks'[n] = t /\ t.target = new.id
             /\ t.key \in New(plan) /\ t.key \in Key /\ t.op \in Op /\ t.target[2] \in Key
             /\ \A j \in DOMAIN tasks :
                  /\ tasks'[j].key = tasks[j].key /\ tasks'[j].op = tasks[j].op
                  /\ tasks'[j].target = tasks[j].target /\ tasks'[j].body = tasks[j].body
  BY EnteredTasks
<1>2. UNCHANGED <<now, rows, receipts, feed, drawn>>
  BY DEF server
<1>3. Extends /\ RowsGrow
  BY <1>1, <1>2, RowsKept DEF Extends
<1>4. ASSUME t.op # "create" PROVE <<t.key, t.target, t.body>> \in Held'
  BY <1>1, <1>4 DEF Held
<1>5. /\ t.op = "create" => t.target = Local(t.key)
      /\ Placed(new.id)'
  <2>1. CASE t.op = "create"
    <3>1. t.target = Local(t.key) /\ new.id = Local(t.key)
      BY <1>1, <2>1 DEF Enters
    <3>2. OwnTask(t.key)'
      BY <1>1, <2>1 DEF OwnTask
    <3>3. QED
      BY <3>1, <3>2 DEF Placed, Local, OwnTask
  <2>2. CASE t.op # "create"
    <3>1. PICK x \in records : x.id = new.id
      BY <2>2 DEF Enters
    <3>2. Placed(new.id) /\ new.id[2] \in Key
      BY <3>1, DeviceTyped DEF PullInv, DeviceInv, NameInv
    <3>3. QED
      BY <1>3, <2>2, <3>2, PlacedKept
  <2>3. QED
    BY <2>1, <2>2
<1>6. Placed(tasks[n].target)'
  BY <1>1, <1>5 DEF Placed, OwnTask
<1>7. ASSUME new.client = t.key PROVE Called(new)'
  <2>1. CASE t.op = "create"
    BY <1>1, <1>5, <1>7, <2>1 DEF Called
  <2>2. CASE t.op # "create"
    <3>1. PICK p : p = <<t.key, t.target, t.body>>
      OBVIOUS
    <3>2. p \in Held' /\ p[1] = new.client /\ p[2] = new.id
      BY <1>1, <1>4, <1>7, <2>2, <3>1
    <3>3. QED
      BY <3>2 DEF Called
  <2>3. QED
    BY <2>1, <2>2
<1>8. \A r \in records' : \/ \E x \in records : x.id = r.id /\ x.client = r.client
                          \/ Placed(r.id)' /\ Called(r)'
  <2>1. \A r \in records' : r \in records \/ r = new
    BY DEF Enters, Replaces
  <2>2. new.client = t.key \/ \E x \in records : x.id = new.id /\ x.client = new.client
    BY DEF Enters
  <2>3. QED
    BY <1>5, <1>7, <2>1, <2>2
<1>9. NameInv'
  <2>1. \A i \in DOMAIN tasks' : i \notin DOMAIN tasks =>
            /\ tasks'[i].op = "create" => tasks'[i].target = Local(tasks'[i].key)
            /\ Placed(tasks[i].target)'
    BY <1>1, <1>5, <1>6
  <2>2. QED
    BY <1>2, <1>3, <1>8, <2>1, NamesKept DEF PullInv, DeviceInv
<1>10. ASSUME tx' = tx PROVE ClaimInv'
  <2>1. \A i \in DOMAIN tasks' : <<tasks'[i].key, tasks'[i].op>> \in Uses \union {<<t.key, t.op>>}
    BY <1>1 DEF Uses
  <2>2. Uses' \subseteq Uses \union {<<t.key, t.op>>}
    BY <1>2, <1>10, <2>1 DEF Uses, Underway
  <2>3. ASSUME NEW i \in DOMAIN tasks', tasks'[i].op # "create"
        PROVE  <<tasks'[i].key, tasks'[i].target, tasks'[i].body>>
                   \in Claims \union {<<t.key, t.target, t.body>>}
    <3>1. CASE i = n
      BY <1>1, <3>1
    <3>2. CASE i \in DOMAIN tasks
      BY <1>1, <2>3, <3>2 DEF Claims, Held
    <3>3. QED
      BY <1>1, <3>1, <3>2
  <2>4. Claims' \subseteq Claims \union {<<t.key, t.target, t.body>>}
    BY <1>2, <1>10, <2>3 DEF Claims, Held, Underway
  <2>5. QED
    BY <1>1, <1>2, <2>2, <2>4, ClaimsTaken DEF PullInv
<1>11. QED
  BY <1>9, <1>10

\* The record waits, so nothing it says of the server's expense is shown.
LEMMA PullEnters ==
    ASSUME IInv, PullInv, NEW q, NEW t, NEW new, Enters(q, t, new),
           UNCHANGED <<server, tx, run, listed, missed>>, plan'.skew = plan.skew,
           dialog' = dialog \/ dialog' = None
    PROVE  PullInv'
<1>1. PICK n \in Nat :
             /\ DOMAIN tasks' = DOMAIN tasks \union {n} /\ n \notin DOMAIN tasks
             /\ tasks'[n] = t /\ t.status = "pending" /\ t.target = new.id
             /\ t.key \in New(plan) /\ t.key \in Key /\ t.op \in Op /\ t.target[2] \in Key
             /\ \A j \in DOMAIN tasks :
                  /\ j < n
                  /\ tasks'[j].key = tasks[j].key /\ tasks'[j].op = tasks[j].op
                  /\ tasks'[j].target = tasks[j].target /\ tasks'[j].body = tasks[j].body
                  /\ tasks'[j].status = "pending" <=> tasks[j].status = "pending"
                  /\ \/ tasks'[j].status = tasks[j].status
                     \/ tasks'[j].status = "synced" /\ tasks[j].target[1] = "server"
             /\ \A i \in Unfinished' : i \in Unfinished \/ i = n
             /\ \A i \in Unfinished : i \in Unfinished' \/ tasks[i].target[1] = "server"
  BY EnteredTasks
<1>2. /\ UNCHANGED <<now, rows, receipts, feed, drawn, cursor, page, phase, missed, listed, tx>>
  BY DEF server, run
<1>3. Extends /\ RowsGrow /\ t.key \notin receipts /\ \A c \in feed : c.expense # t.key
  BY <1>1, <1>2, RowsKept, NewClaims DEF Extends, PullInv
<1>4. ServerInv'
  BY <1>2, MovingNone DEF PullInv
<1>5. ClaimInv' /\ NameInv'
  BY <1>2, EnteredNames
<1>6. /\ \A r \in records' : r \in records \/ r = new
      /\ \A r \in records' : r.state = "synced" => r \in records
      /\ new \in records' /\ \A x \in records : x.id = new.id \/ x \in records'
      /\ new.state # "synced" /\ new.deleted \in BOOLEAN
  BY DEF Enters, Replaces, Queued
<1>7. StampInv'
  <2>1. \A r \in records' : \/ \E x \in records : x.id = r.id /\ x.time = r.time
                            \/ Stamped(r)'
    BY <1>6 DEF Enters, Stamped, Even
  <2>2. QED
    BY <1>2, <1>3, <2>1, StampsKept DEF PullInv, DeviceInv
<1>8. UntoldInv'
  BY <1>2, <1>3, <1>6, UntoldKept DEF PullInv, DeviceInv
<1>9. CreateInv'
  <2>1. ASSUME NEW i \in DOMAIN tasks', tasks'[i].op = "create"
        PROVE  /\ tasks'[i].status # "conflict"
               /\ tasks'[i].status = "synced" => \E c \in feed : c.client = tasks'[i].key
    <3>1. CASE i = n
      BY <1>1, <3>1
    <3>2. CASE i \in DOMAIN tasks
      <4>1. tasks[i].op = "create" /\ tasks[i].target[1] # "server"
        BY <1>1, <2>1, <3>2 DEF PullInv, DeviceInv, NameInv, Local
      <4>2. tasks'[i].status = tasks[i].status /\ tasks'[i].key = tasks[i].key
        BY <1>1, <3>2, <4>1
      <4>3. QED
        BY <3>2, <4>1, <4>2 DEF PullInv, DeviceInv, CreateInv
    <3>3. QED
      BY <1>1, <3>1, <3>2
  <2>2. QED
    BY <1>2, <2>1 DEF CreateInv
<1>10. AnswerInv'
  <2>1. ASSUME phase = "wait", NEW i \in InState("pending")', IsNext(i)', tasks'[i].op = "create"
        PROVE  i \in InState("pending") /\ IsNext(i) /\ tasks[i].op = "create"
               /\ tasks[i].key = tasks'[i].key
    <3>1. \A j \in InState("pending") : j \in InState("pending")' /\ j < n /\ j \in Nat
      BY <1>1 DEF InState, IInv, TypeOK
    <3>2. PICK j \in InState("pending") : IsNext(j)
      BY <2>1 DEF IInv, PushInv
    <3>3. i <= j /\ i \in DOMAIN tasks'
      BY <2>1, <3>1, <3>2 DEF IsNext, InState
    <3>4. i \in DOMAIN tasks
      BY <1>1, <3>1, <3>2, <3>3
    <3>5. i \in InState("pending") /\ tasks[i].op = "create" /\ tasks[i].key = tasks'[i].key
      BY <1>1, <2>1, <3>4 DEF InState
    <3>6. IsNext(i)
      BY <2>1, <3>1, <3>5 DEF IsNext
    <3>7. QED
      BY <3>5, <3>6
  <2>2. QED
    BY <1>2, <2>1 DEF PullInv, DeviceInv, AnswerInv
<1>11. SeesNoMore /\ PageInv'
  BY <1>2, SeesTheSame, PageKept DEF PullInv, DeviceInv
<1>12. OwnInv'
  <2>1. \A i \in Unfinished' : tasks'[i].op = "create" =>
               \/ i \in Unfinished /\ tasks[i].op = "create" /\ tasks[i].target = tasks'[i].target
               \/ \A c \in feed : tasks'[i].target # Local(c.expense)
    <3>1. t.op = "create" => t.target = Local(t.key)
      BY <1>1 DEF Enters
    <3>2. t.op = "create" => \A c \in feed : t.target # Local(c.expense)
      BY <1>3, <3>1 DEF Local
    <3>3. QED
      BY <1>1, <3>2 DEF Unfinished
  <2>2. \A r \in records' : r.deleted \in BOOLEAN
    BY <1>6, DeviceTyped
  <2>3. QED
    BY <1>6, <1>11, <2>1, <2>2, OwnKept, DeviceTyped DEF PullInv, DeviceInv
<1>13. PulledInv'
  <2>1. ASSUME NEW c \in feed, Pulled(c.expense) PROVE Pulled(c.expense)'
    <3>1. PICK k : k = c.expense /\ Pulled(k)
      BY <2>1
    <3>2. \A i \in Unfinished' :
               \/ /\ i \in Unfinished /\ tasks'[i].key = tasks[i].key /\ tasks'[i].op = tasks[i].op
                  /\ tasks'[i].target = tasks[i].target /\ tasks'[i].body = tasks[i].body
                  /\ tasks[i].target = Remote(k) /\ tasks[i].key \in receipts' => tasks[i].key \in receipts
               \/ tasks'[i].key \notin receipts'
               \/ tasks'[i].target # Remote(k)
      BY <1>1, <1>2, <1>3 DEF Unfinished
    <3>3. \A x \in records : x.id = Remote(k) =>
               \E r \in records' : /\ r.id = x.id
                                   /\ \/ r.state # "synced"
                                      \/ /\ r.state = x.state /\ r.deleted = x.deleted
                                         /\ r.body = x.body
      BY <1>6
    <3>4. \A r \in records' : r.id = Remote(k) /\ r.state = "synced" =>
               \E x \in records : x.id = r.id /\ x.state = "synced" /\ x.deleted = r.deleted
      BY <1>6
    <3>5. Pulled(k)'
      BY <1>2, <3>1, <3>2, <3>3, <3>4, PulledRecords
    <3>6. QED
      BY <3>1, <3>5
  <2>2. ASSUME NEW c \in feed, AwaitsRefusal(c.expense) PROVE AwaitsRefusal(c.expense)'
    <3>1. \A i \in Unfinished : tasks[i].target = Local(c.expense) /\ tasks[i].op # "create" =>
               i \in Unfinished' /\ tasks'[i].target = tasks[i].target /\ tasks'[i].op = tasks[i].op
      BY <1>1 DEF Unfinished, Local
    <3>2. QED
      BY <2>2, <3>1, AwaitsKept
  <2>3. QED
    BY <1>2, <1>11, <2>1, <2>2, PulledKept DEF PullInv, DeviceInv
<1>14. QED
  BY <1>4, <1>5, <1>7, <1>8, <1>9, <1>10, <1>11, <1>12, <1>13 DEF PullInv, DeviceInv

\* The device's stamps are never the server's.
LEMMA OddClock ==
    ASSUME IInv, ServerInv PROVE ~Even(Clock) /\ Clock \in Int
<1>1. now \in Int /\ plan.skew \in Int
  BY DEF IInv, TypeOK, Plan
<1>2. Even(now) /\ Even(plan.skew)
  BY DEF ServerInv, ClockInv
<1>3. QED
  BY <1>1, <1>2, OddStamp DEF Clock

LEMMA PullSave ==
    ASSUME IInv, PullInv, NEW k \in Key,
           SaveCreate(k) \/ \E r \in Shown : SaveUpdate(k, r) \/ SaveDelete(k, r)
    PROVE  PullInv'
<1>1. PICK op, target, expected, new : Saves(k, op, target, expected, new)
  BY SaveSaves
<1>2. /\ plan' = [plan EXCEPT !.mine = @ \ {<<k, op>>}]
      /\ UNCHANGED <<server, tx, run, listed, dialog, missed>>
  BY <1>1, SavedQueue
<1>3. PICK t : Queued(tasks, t, new) /\ t.key = k /\ t.op = op /\ t.target = target
  BY <1>1, SavedQueue
<1>4. ~Even(new.time)
  BY <1>1, OddClock DEF Saves, PullInv
<1>5. Enters(tasks, t, new)
  BY <1>1, <1>3, <1>4 DEF Enters, Saves
<1>6. plan'.skew = plan.skew
  BY <1>2, SkewKept
<1>7. QED
  BY <1>2, <1>5, <1>6, PullEnters

LEMMA PullKeepLocal ==
    ASSUME IInv, PullInv, NEW n \in Key, KeepLocal(n)
    PROVE  PullInv'
<1>1. /\ dialog # None /\ dialog.row.state = "live" /\ dialog' = None
      /\ plan' = [plan EXCEPT !.spare = @ \ {n}]
      /\ UNCHANGED <<server, tx, run, listed, missed>>
  BY KeptLocal
<1>2. PICK i, q, t, new :
        /\ i = dialog.task /\ i \in Unfinished /\ i \in DOMAIN tasks
        /\ tasks[i].status = "conflict"
        /\ Queued(q, t, new) /\ Replaces(new)
        /\ t.key = n /\ t.op = tasks[i].op
        /\ new.client = n /\ new.id = tasks[i].target
        /\ \E x \in records : x.id = new.id /\ new.time \in {x.time, Clock}
        /\ \A j \in DOMAIN tasks : q[j].status \in {tasks[j].status, "synced"}
  BY KeptLocal
<1>3. tasks[i].target[1] = "server" /\ tasks[i].op # "create"
  BY <1>1, <1>2 DEF IInv, ReadInv, PullInv, DeviceInv, CreateInv
<1>4. ~Even(new.time) \/ \E x \in records : x.id = new.id /\ x.time = new.time
  BY <1>2, OddClock DEF PullInv
<1>5. Enters(q, t, new)
  BY <1>2, <1>3, <1>4 DEF Enters
<1>6. plan'.skew = plan.skew
  BY <1>1, SkewKept
<1>7. QED
  BY <1>1, <1>5, <1>6, PullEnters

\* The choice for the server's expense: the conflict is done with.
Yields(i, new) ==
    /\ i \in Unfinished /\ i \in DOMAIN tasks /\ tasks[i].op # "create"
    /\ Replaces(new) /\ new.state = "synced" /\ new.id = tasks[i].target
    /\ SameTasks /\ Unfinished' = Unfinished \ {i}
    /\ \A j \in DOMAIN tasks : j # i => tasks'[j] = tasks[j]
    /\ InState("pending")' = InState("pending")
    /\ \A r \in records' : r = new \/ (r \in records /\ r.id # new.id)
    /\ \A r \in records : r.id # new.id => r \in records'
    /\ new \in records' /\ new.deleted \in BOOLEAN
    /\ missed \subseteq missed'
    /\ \/ /\ new.id = Remote(new.id[2]) /\ new.id[2] \in Key /\ ~new.deleted /\ new.client = new.id
          /\ new.time \in Int /\ Version(new.id[2], new.time) /\ Says(new.id[2], new.time, new.body)
          /\ ~Told(new.id[2]) => new.body = rows[new.id[2]].body
          /\ Outdated(new.id[2], new.time) => new.id[2] \in missed'
       \/ /\ new.deleted /\ ~Even(new.time)
          /\ \E x \in records : x.id = new.id /\ x.client = new.client
          /\ \/ new.id[1] = "server" /\ rows[new.id[2]].state = "deleted"
             \/ /\ new.id[1] = "local"
                /\ \A c \in feed : c.expense = new.id[2] /\ Passed(c) => new.id[2] \in missed'

\* What the dialog showed was the server's expense when it was fetched.
LEMMA UsesYield ==
    ASSUME IInv, PullInv, UseServer
    PROVE  \E i, new : Yields(i, new)
<1>1. PICK i, old, row : i = dialog.task /\ old = tasks[i] /\ row = dialog.row
  OBVIOUS
<1>2. PICK k : k = old.target[2]
  OBVIOUS
<1>3. /\ dialog # None /\ old.status = "conflict"
      /\ tasks' = [tasks EXCEPT ![i].status = "synced"]
      /\ missed' = IF Outdated(k, row.time) THEN missed \union {k} ELSE missed
  BY <1>1, <1>2, Zenon DEF UseServer
<1>4. PICK new \in Record :
         /\ Replaces(new) /\ new.state = "synced" /\ new.id = old.target
         /\ IF row.state = "live"
            THEN /\ ~new.deleted /\ new.client = new.id
                 /\ new.time = row.time /\ new.body = row.body
            ELSE /\ new.deleted /\ new.time = Clock
                 /\ \E x \in records : x.id = new.id /\ x.client = new.client
  BY <1>1, UsedServer
<1>5. i \in Unfinished /\ i \in DOMAIN tasks /\ tasks \in Seq(Task) /\ row.time \in Int
  BY <1>1, <1>3, Conflict DEF IInv, TypeOK
<1>6. old \in Task /\ k \in Key /\ old.target[1] \in {"local", "server"} /\ old.target \in Id
  BY <1>1, <1>2, <1>5, TaskTypes, DeviceTyped
<1>7. PICK u : u = [old EXCEPT !.status = "synced"]
  OBVIOUS
<1>8. /\ u \in Task /\ u.key = old.key /\ u.op = old.op /\ u.target = old.target
      /\ u.body = old.body /\ u.status = "synced"
  BY <1>6, <1>7 DEF Task
<1>9. /\ DOMAIN tasks' = DOMAIN tasks /\ tasks'[i] = u
      /\ \A j \in DOMAIN tasks : j # i => tasks'[j] = tasks[j]
  <2>1. tasks' = [tasks EXCEPT ![i] = u]
    BY <1>1, <1>3, <1>5, <1>7
  <2>2. QED
    BY <1>5, <1>8, <2>1
<1>10. /\ SameTasks /\ Unfinished' = Unfinished \ {i}
       /\ InState("pending")' = InState("pending")
  BY <1>1, <1>3, <1>8, <1>9 DEF SameTasks, Unfinished, InState
<1>11. old.op # "create"
  BY <1>1, <1>3, <1>5 DEF PullInv, DeviceInv, CreateInv
<1>12. /\ \A r \in records' : r = new \/ (r \in records /\ r.id # new.id)
       /\ \A r \in records : r.id # new.id => r \in records'
       /\ new \in records' /\ new.deleted \in BOOLEAN
  BY <1>4 DEF Replaces, Record
<1>13. missed \subseteq missed'
  BY <1>3
<1>14. Shows(old.target, row)
  BY <1>1, <1>3 DEF PullInv, DeviceInv, StampInv
<1>15. CASE row.state = "live"
  <2>1. old.target = Remote(k) /\ old.target[1] = "server"
    BY <1>1, <1>2, <1>3, <1>5, <1>15, <1>6, Conflict DEF Remote, Id
  <2>2. Version(k, row.time) /\ Says(k, row.time, row.body)
    BY <1>2, <1>14, <1>15, <2>1 DEF Shows
  <2>3. ~Told(k) => row.body = rows[k].body
    BY <1>1, <1>3, <1>6, <2>1 DEF PullInv, DeviceInv, UntoldInv
  <2>4. Outdated(k, row.time) => k \in missed'
    BY <1>3
  <2>5. new.id[2] = k
    BY <1>2, <1>4
  <2>6. QED
    BY <1>1, <1>4, <1>5, <1>6, <1>9, <1>10, <1>11, <1>12, <1>13, <1>15, <2>1, <2>2, <2>3, <2>4, <2>5
       DEF Yields
<1>16. CASE row.state # "live"
  <2>1. ~Even(new.time)
    BY <1>4, <1>16, OddClock DEF PullInv
  <2>2. \/ new.id[1] = "server" /\ rows[new.id[2]].state = "deleted"
        \/ /\ new.id[1] = "local"
           /\ \A c \in feed : c.expense = new.id[2] /\ Passed(c) => new.id[2] \in missed'
    <3>1. CASE old.target[1] = "server"
      <4>1. old.target[1] # "local"
        BY <3>1
      <4>2. QED
        BY <1>4, <1>14, <1>16, <3>1, <4>1 DEF Shows
    <3>2. CASE old.target[1] = "local"
      <4>1. row = NoRow /\ row.time = 0
        BY <1>14, <3>2 DEF Shows, NoRow
      <4>2. ASSUME NEW c \in feed, c.expense = k, Passed(c) PROVE k \in missed'
        <5>1. c.time > 0
          BY ServerTyped DEF PullInv, ServerInv, FeedInv, Version
        <5>2. Outdated(k, row.time)
          BY <4>1, <4>2, <5>1 DEF Outdated
        <5>3. QED
          BY <1>3, <5>2
      <4>3. QED
        BY <1>2, <1>4, <3>2, <4>2
    <3>3. QED
      BY <1>6, <3>1, <3>2
  <2>3. QED
    BY <1>1, <1>4, <1>5, <1>9, <1>10, <1>11, <1>12, <1>13, <1>16, <2>1, <2>2 DEF Yields
<1>17. QED
  BY <1>15, <1>16

LEMMA YieldedRecords ==
    ASSUME IInv, PullInv, NEW i, NEW new, Yields(i, new), UNCHANGED <<server, listed>>, dialog' = None
    PROVE  NameInv' /\ StampInv' /\ UntoldInv'
<1>1. /\ UNCHANGED <<now, rows, receipts, feed, drawn>>
      /\ \A r \in records' : r = new \/ r \in records
  BY DEF Yields, server
<1>2. Extends /\ RowsGrow
  BY <1>1, RowsKept DEF Extends, SameTasks, Yields
<1>3. NameInv'
  <2>1. \/ \E x \in records : x.id = new.id /\ x.client = new.client
        \/ Placed(new.id)' /\ Called(new)'
    <3>1. ASSUME new.id = Remote(new.id[2]), new.client = new.id, new.id[2] \in Key,
                 Version(new.id[2], new.time)
          PROVE  Placed(new.id)' /\ Called(new)'
      <4>1. new.id \in Id
        BY <3>1 DEF Remote, Id
      <4>2. new.client \notin Key
        BY <3>1, <4>1, GroupSyncAssumption
      <4>3. Placed(new.id)'
        BY <1>1, <3>1 DEF Placed, Exists, Version, Remote
      <4>4. QED
        BY <4>2, <4>3 DEF Called
    <3>2. QED
      BY <3>1 DEF Yields
  <2>2. \A j \in DOMAIN tasks' : j \in DOMAIN tasks
    BY DEF Yields, SameTasks
  <2>3. QED
    BY <1>1, <1>2, <2>1, <2>2, NamesKept DEF PullInv, DeviceInv
<1>4. StampInv'
  <2>1. Stamped(new)'
    <3>1. ASSUME new.id = Remote(new.id[2]), Version(new.id[2], new.time)
          PROVE  new.id[1] = "server" /\ new.time <= rows'[new.id[2]].time
      BY <1>1, <3>1 DEF Version, Remote
    <3>2. QED
      BY <3>1 DEF Yields, Stamped, Even
  <2>2. QED
    BY <1>1, <1>2, <2>1, StampsKept DEF PullInv, DeviceInv
<1>5. UntoldInv'
  <2>1. ASSUME NEW k \in Key, ~Told(k)', new.id = Remote(k), ~new.deleted PROVE new.body = rows'[k].body
    <3>1. new.id[2] = k /\ ~Told(k)
      BY <1>1, <2>1 DEF Told, Remote
    <3>2. QED
      BY <1>1, <2>1, <3>1 DEF Yields
  <2>2. QED
    BY <1>1, <1>2, <2>1, UntoldKept DEF PullInv, DeviceInv
<1>6. QED
  BY <1>3, <1>4, <1>5

\* It is stored although a newer change has passed only if that is missed.
LEMMA YieldedPulled ==
    ASSUME IInv, PullInv, NEW i, NEW new, Yields(i, new), UNCHANGED <<server, run>>
    PROVE  PulledInv' /\ OwnInv'
<1>1. UNCHANGED <<rows, receipts, feed, cursor, page, phase>> /\ missed \subseteq missed'
  BY DEF Yields, server, run
<1>2. SeesNoMore
  BY <1>1, SeesTheSame
<1>3. \A j \in Unfinished' : /\ j \in Unfinished
                             /\ tasks'[j].key = tasks[j].key /\ tasks'[j].op = tasks[j].op
                             /\ tasks'[j].target = tasks[j].target /\ tasks'[j].body = tasks[j].body
  BY DEF Yields, SameTasks, Unfinished
<1>4. OwnInv'
  <2>1. \A r \in records' : r.id[1] = "local" /\ ~r.deleted => r \in records
    BY DEF Yields, Remote
  <2>2. \A r \in records' : r.deleted \in BOOLEAN
    BY DeviceTyped DEF Yields
  <2>3. QED
    BY <1>2, <1>3, <2>1, <2>2, OwnKept, DeviceTyped DEF PullInv, DeviceInv
<1>5. ASSUME NEW c \in feed, Passed(c)', Newest(c), c.expense \notin missed', Pulled(c.expense)
      PROVE  Pulled(c.expense)'
  <2>1. PICK k \in Key : k = c.expense /\ Pulled(k)
    BY <1>5, ServerTyped
  <2>2. \A j \in Unfinished' : Agrees(k, j)'
    BY <1>1, <1>3, <2>1 DEF Pulled, Agrees
  <2>3. CASE new.id # Remote(k)
    <3>1. \A r \in records' : r.id = Remote(k) => r \in records
      BY <2>3 DEF Yields
    <3>2. \A r \in records : r.id = Remote(k) => r \in records'
      BY <2>3 DEF Yields
    <3>3. Pulled(k)'
      BY <1>1, <2>1, <2>2, <3>1, <3>2 DEF Pulled
    <3>4. QED
      BY <2>1, <3>3
  <2>4. CASE new.id = Remote(k) /\ ~new.deleted
    <3>1. /\ new.time \in Int /\ Version(k, new.time) /\ Says(k, new.time, new.body)
          /\ Outdated(k, new.time) => k \in missed'
      BY <2>4 DEF Yields, Remote
    <3>2. Passed(c)
      BY <1>1, <1>5 DEF Passed
    <3>3. c.time <= new.time
      BY <1>5, <2>1, <3>1, <3>2, ServerTyped DEF Outdated
    <3>4. rows[k].time = new.time
      <4>1. c.time = rows[k].time /\ rows[k].time \in Int /\ new.time <= rows[k].time
        BY <1>5, <2>1, <3>1, ServerTyped DEF Newest, Version
      <4>2. QED
        BY <3>1, <3>3, <4>1
    <3>5. rows[k].state = "live" /\ new.body = rows[k].body
      BY <3>1, <3>4 DEF Says
    <3>6. new \in records'
      BY DEF Yields
    <3>7. Pulled(k)'
      BY <1>1, <2>2, <2>4, <3>5, <3>6 DEF Pulled
    <3>8. QED
      BY <2>1, <3>7
  <2>5. CASE new.id = Remote(k) /\ new.deleted
    <3>1. rows[k].state = "deleted"
      BY <2>5 DEF Yields, Remote
    <3>2. \A r \in records' : r.id = Remote(k) => r.deleted
      BY <2>5 DEF Yields
    <3>3. Pulled(k)'
      BY <1>1, <2>2, <3>1, <3>2 DEF Pulled
    <3>4. QED
      BY <2>1, <3>3
  <2>6. QED
    BY <2>3, <2>4, <2>5
<1>6. ASSUME NEW c \in feed, Passed(c)', c.expense \notin missed', AwaitsRefusal(c.expense)
      PROVE  AwaitsRefusal(c.expense)'
  <2>1. PICK j \in Unfinished : tasks[j].target = Local(c.expense) /\ tasks[j].op # "create"
    BY <1>6 DEF AwaitsRefusal
  <2>2. CASE j = i
    <3>1. new.id = Local(c.expense)
      BY <2>1, <2>2 DEF Yields
    <3>2. Passed(c)
      BY <1>1, <1>6 DEF Passed
    <3>3. QED
      BY <1>6, <3>1, <3>2 DEF Yields, Local, Remote
  <2>3. CASE j # i
    <3>1. j \in Unfinished' /\ tasks'[j] = tasks[j]
      BY <2>3 DEF Yields, Unfinished
    <3>2. QED
      BY <2>1, <3>1 DEF AwaitsRefusal
  <2>4. QED
    BY <2>2, <2>3
<1>7. PulledInv'
  BY <1>1, <1>2, <1>5, <1>6, PulledKept DEF PullInv, DeviceInv
<1>8. QED
  BY <1>4, <1>7

LEMMA PullUseServer ==
    ASSUME IInv, PullInv, UseServer
    PROVE  PullInv'
<1>1. PICK i, new : Yields(i, new)
  BY UsesYield
<1>2. /\ UNCHANGED <<plan, server, tx, run, listed>> /\ dialog' = None
  BY DEF UseServer
<1>3. UNCHANGED <<now, rows, receipts, feed, drawn, cursor, page, phase>>
  BY <1>2 DEF server, run
<1>4. ServerInv'
  BY <1>2, <1>3, MovingNone DEF PullInv
<1>5. ClaimInv'
  <2>1. SameTasks /\ SameCalls
    BY <1>1, <1>2 DEF Yields, SameCalls
  <2>2. QED
    BY <1>3, <2>1, ClaimsShrink, ClaimsKept DEF PullInv
<1>6. CreateInv'
  <2>1. \A j \in DOMAIN tasks' : tasks'[j].op = "create" => j \in DOMAIN tasks /\ tasks'[j] = tasks[j]
    BY <1>1 DEF Yields, SameTasks
  <2>2. QED
    BY <1>3, <2>1 DEF PullInv, DeviceInv, CreateInv
<1>7. AnswerInv'
  <2>1. \A j \in InState("pending") : tasks'[j].op = tasks[j].op /\ tasks'[j].key = tasks[j].key
    BY <1>1 DEF Yields, SameTasks, InState
  <2>2. InState("pending")' = InState("pending")
    BY <1>1 DEF Yields
  <2>3. \A j : IsNext(j)' <=> IsNext(j)
    BY <2>2 DEF IsNext
  <2>4. QED
    BY <1>2, <1>3, <2>1, <2>2, <2>3 DEF PullInv, DeviceInv, AnswerInv
<1>8. PageInv'
  <2>1. missed \subseteq missed'
    BY <1>1 DEF Yields
  <2>2. QED
    BY <1>3, <2>1 DEF PullInv, DeviceInv, PageInv, Horizon, Passed
<1>9. NameInv' /\ StampInv' /\ UntoldInv'
  BY <1>1, <1>2, YieldedRecords
<1>10. PulledInv' /\ OwnInv'
  BY <1>1, <1>2, YieldedPulled
<1>11. QED
  BY <1>4, <1>5, <1>6, <1>7, <1>8, <1>9, <1>10 DEF PullInv, DeviceInv

-----------------------------------------------------------------------------
(* Every behaviour.                                                        *)

\* The device starts empty, with the feed of what is known.
LEMMA InitPullInv ==
    ASSUME Init PROVE PullInv
<1>1. /\ now = 2 /\ plan \in Scenario /\ plan \in Plan /\ plan.skew % 2 = 0
  BY GroupSyncAssumption DEF Init
<1>2. PICK known : known = plan.known
  OBVIOUS
<1>3. known \in Seq(Key) /\ DOMAIN known = 1 .. Len(known) /\ Len(known) \in Nat
  BY <1>1, <1>2 DEF Plan
<1>4. /\ drawn = Len(known)
      /\ rows = [k \in Key |-> IF \E n \in DOMAIN known : known[n] = k
                               THEN [state |-> "live", time |-> 2, body |-> k] ELSE NoRow]
      /\ receipts = {k \in Key : \E n \in DOMAIN known : known[n] = k}
      /\ feed = {[seq |-> n, op |-> "create", expense |-> known[n], client |-> known[n],
                  time |-> 2, body |-> known[n]] : n \in DOMAIN known}
      /\ tx = [s \in Slot |-> NoTx]
      /\ records = {} /\ tasks = <<>>
      /\ phase = "idle" /\ cursor = 0 /\ page = NoPage /\ listed = {} /\ dialog = None /\ missed = {}
  BY <1>2 DEF Init
<1>5. Even(2) /\ Even(plan.skew)
  BY <1>1 DEF Even
<1>6. ASSUME NEW k \in Key
      PROVE  /\ Exists(k) <=> k \in receipts
             /\ Exists(k) => rows[k].state = "live" /\ rows[k].time = 2 /\ rows[k].body = k
             /\ rows[k].state # "deleted"
  <2>1. CASE \E n \in DOMAIN known : known[n] = k
    <3>1. rows[k] = [state |-> "live", time |-> 2, body |-> k] /\ k \in receipts
      BY <1>4, <2>1
    <3>2. QED
      BY <3>1 DEF Exists
  <2>2. CASE ~\E n \in DOMAIN known : known[n] = k
    <3>1. rows[k] = NoRow /\ k \notin receipts
      BY <1>4, <2>2
    <3>2. QED
      BY <3>1 DEF Exists, NoRow
  <2>3. QED
    BY <2>1, <2>2
<1>7. ASSUME NEW c \in feed
      PROVE  /\ c.seq \in DOMAIN known /\ c.op = "create" /\ c.client = c.expense /\ c.time = 2
             /\ c.body = c.expense /\ c.expense \in Key /\ Exists(c.expense)
             /\ c = [seq |-> c.seq, op |-> "create", expense |-> known[c.seq], client |-> known[c.seq],
                     time |-> 2, body |-> known[c.seq]]
  <2>1. PICK n \in DOMAIN known :
          c = [seq |-> n, op |-> "create", expense |-> known[n], client |-> known[n],
               time |-> 2, body |-> known[n]]
    BY <1>4
  <2>2. known[n] \in Key /\ known[n] \in receipts
    BY <1>3, <1>4
  <2>3. QED
    BY <1>6, <2>1, <2>2
<1>8. \A s \in Slot : tx[s].stage = "none"
  BY <1>4 DEF NoTx
<1>9. ClockInv
  BY <1>1, <1>5, <1>6 DEF ClockInv, Version
<1>10. FeedInv
  <2>1. PICK f : f = [n \in 1 .. Len(known) |->
                        [seq |-> n, op |-> "create", expense |-> known[n], client |-> known[n],
                         time |-> 2, body |-> known[n]]]
    OBVIOUS
  <2>2. f \in Surjection(1 .. Len(known), feed)
    BY <1>3, <1>4, <2>1 DEF Surjection
  <2>3. IsFiniteSet(1 .. Len(known))
    BY <1>3, FS_Interval
  <2>4. IsFiniteSet(feed)
    BY <2>2, <2>3, FS_Surjection
  <2>5. ASSUME NEW c \in feed
        PROVE  /\ Version(c.expense, c.time) /\ c.seq \in 1 .. drawn /\ c.op # "delete"
               /\ Says(c.expense, c.time, c.body) /\ c.client = c.expense
    BY <1>3, <1>4, <1>5, <1>6, <1>7 DEF Version, Says
  <2>6. QED
    BY <2>4, <2>5 DEF FeedInv
<1>11. DrawnInv
  BY <1>7, <1>8 DEF DrawnInv
<1>12. NewestInv
  BY <1>6, <1>7, <1>8 DEF NewestInv, Told, Newest, Creates
<1>13. ChangeInv
  BY <1>8 DEF ChangeInv, Creates, Mutates
<1>14. ClaimInv
  <2>1. Underway = {}
    BY <1>8 DEF Underway, Busy
  <2>2. Uses = {<<c.client, c.op>> : c \in feed}
    BY <1>4, <2>1 DEF Uses
  <2>3. Held = {}
    BY <1>4, <1>7 DEF Held
  <2>4. Claims = {}
    BY <2>1, <2>3 DEF Claims
  <2>5. \A p \in Uses : p[2] = "create"
    BY <1>7, <2>2
  <2>6. \A k \in receipts : Exists(k)
    BY <1>4, <1>6
  <2>7. QED
    BY <2>4, <2>5, <2>6 DEF ClaimInv
<1>15. NameInv /\ StampInv /\ CreateInv /\ AnswerInv
  BY <1>4 DEF NameInv, StampInv, CreateInv, AnswerInv
<1>16. UntoldInv
  BY <1>4 DEF UntoldInv
<1>17. ASSUME NEW c \in feed PROVE ~Passed(c)
  BY <1>3, <1>4, <1>7 DEF Passed
<1>18. PageInv
  <2>1. page.changes = <<>> /\ DOMAIN page.changes = {}
    BY <1>4 DEF NoPage
  <2>2. QED
    BY <1>4, <2>1 DEF PageInv
<1>19. OwnInv /\ PulledInv
  BY <1>4, <1>17 DEF OwnInv, PulledInv
<1>20. QED
  BY <1>9, <1>10, <1>11, <1>12, <1>13, <1>14, <1>15, <1>16, <1>18, <1>19
     DEF PullInv, ServerInv, DeviceInv

LEMMA StepPullInv ==
    ASSUME IInv, PullInv, [Next]_vars
    PROVE  PullInv'
<1>1. ASSUME NEW s \in Slot, Serve(s) \/ Fail(s, "error") \/ Fail(s, "refused") PROVE PullInv'
  BY <1>1, PullCreateExpense, PullAppendChange, PullMutate, PullAsks, PullCommit DEF Serve
<1>2. ASSUME NEW k \in Key, NEW op \in Op, OtherPushes(k, op) PROVE PullInv'
  BY <1>2, PullOtherPushes
<1>3. CASE Coordinate
  BY <1>3, PullStartRun, PullSendTask, PullTakeAnswer, PullGiveUp, PullFetchPage,
     PullApplyChange DEF Coordinate
<1>4. CASE ConnectivityRestored \/ TimeOut \/ PullFails \/ Restart
  BY <1>4, PullAsk, PullTimeOut, PullRestart
<1>5. ASSUME User PROVE PullInv'
  <2>1. ASSUME NEW k \in Key, SaveCreate(k) PROVE PullInv'
    BY <2>1, PullSave
  <2>2. ASSUME NEW k \in Key, NEW r \in Shown, SaveUpdate(k, r) \/ SaveDelete(k, r) PROVE PullInv'
    BY <2>2, PullSave
  <2>3. CASE SyncNow \/ RetryFailed \/ Closed
    BY <2>3, PullAsk
  <2>4. CASE Refresh \/ StoreListed
    BY <2>4, PullRefresh, PullStoreListed
  <2>5. ASSUME NEW i \in DOMAIN tasks, Decide(i) PROVE PullInv'
    BY <2>5, PullDecide
  <2>6. CASE UseServer
    BY <2>6, PullUseServer
  <2>7. ASSUME NEW n \in Key, KeepLocal(n) PROVE PullInv'
    BY <2>7, PullKeepLocal
  <2>8. QED
    BY <1>5, <2>1, <2>2, <2>3, <2>4, <2>5, <2>6, <2>7 DEF User
<1>6. CASE UNCHANGED vars
  BY <1>6, PullAsk
<1>7. QED
  BY <1>1, <1>2, <1>3, <1>4, <1>5, <1>6 DEF Next

\* When all is pushed and pulled, every change has been given to the device,
\* no record waits, and no own creation is shown.
LEMMA QuietDevice ==
    ASSUME IInv, PullInv, Quiet, NEW k \in Key, k \notin missed
    PROVE  /\ \A r \in records : r.state = "synced"
           /\ \A r \in Shown : r.id # Local(k)
           /\ ~AwaitsRefusal(k)
           /\ (\E c \in feed : c.expense = k /\ Newest(c)) => Pulled(k)
<1>1. Unfinished = {} /\ phase = "idle" /\ \A c \in feed : c.seq <= cursor
  BY DEF Quiet
<1>2. \A r \in records : r.state = "synced"
  BY <1>1 DEF IInv, QueueInv
<1>3. ASSUME NEW c \in feed PROVE Passed(c)
  BY <1>1 DEF Passed
<1>4. ~AwaitsRefusal(k)
  BY <1>1 DEF AwaitsRefusal
<1>5. ASSUME NEW r \in Shown, r.id = Local(k) PROVE FALSE
  <2>1. r \in records /\ ~r.deleted
    BY DEF Shown
  <2>2. OwnTask(k)
    BY <1>5, <2>1 DEF PullInv, DeviceInv, NameInv, Placed, Local
  <2>3. PICK j \in DOMAIN tasks : tasks[j].op = "create" /\ tasks[j].key = k
    BY <2>2 DEF OwnTask
  <2>4. tasks[j].status = "synced"
    BY <1>1 DEF Unfinished
  <2>5. PICK c \in feed : c.client = k
    BY <2>3, <2>4 DEF PullInv, DeviceInv, CreateInv
  <2>6. <<k, "create">> \in Uses /\ <<k, c.op>> \in Uses
    BY <2>3, <2>5 DEF Uses
  <2>7. c.op = "create"
    <3>1. PICK p \in Uses, q \in Uses : p = <<k, "create">> /\ q = <<k, c.op>>
      BY <2>6
    <3>2. p[2] = q[2]
      BY <3>1 DEF IInv, UsesInv
    <3>3. QED
      BY <3>1, <3>2
  <2>8. c.expense = k
    BY <2>5, <2>7 DEF PullInv, ServerInv, FeedInv
  <2>9. QED
    BY <1>2, <1>3, <1>5, <2>1, <2>7, <2>8 DEF PullInv, DeviceInv, OwnInv
<1>6. ASSUME NEW c \in feed, c.expense = k, Newest(c) PROVE Pulled(k)
  BY <1>3, <1>4, <1>6 DEF PullInv, DeviceInv, PulledInv
<1>7. QED
  BY <1>2, <1>4, <1>5, <1>6

\* What is shown is what the newest changes say.
LEMMA InvImpliesCurrent ==
    ASSUME IInv, PullInv PROVE PulledIsCurrent
<1>1. SUFFICES ASSUME Quiet, NEW k \in Key, k \notin missed,
                      NEW shown, shown = {r \in Shown : r.id \in {Remote(k), Local(k)}}
               PROVE  IF rows[k].state # "live" THEN shown = {}
                      ELSE \/ shown = {} /\ ~\E c \in feed : c.client = k
                           \/ \E r \in shown : shown = {r} /\ r.id = Remote(k) /\ r.body = rows[k].body
  BY DEF PulledIsCurrent
<1>2. /\ \A r \in records : r.state = "synced"
      /\ \A r \in Shown : r.id # Local(k)
      /\ (\E c \in feed : c.expense = k /\ Newest(c)) => Pulled(k)
  BY <1>1, QuietDevice
<1>3. /\ \A r \in shown : r \in records /\ ~r.deleted /\ r.id = Remote(k) /\ r.state = "synced"
      /\ \A r \in records : r.id = Remote(k) /\ ~r.deleted => r \in shown
  BY <1>1, <1>2 DEF Shown
<1>4. \A r \in shown : shown = {r}
  BY <1>3 DEF IInv, RecordInv
<1>5. CASE rows[k].state = "none"
  <2>1. \A r \in records : r.id # Remote(k)
    BY <1>5 DEF PullInv, DeviceInv, NameInv, Placed, Exists, Remote
  <2>2. QED
    BY <1>3, <1>5, <2>1
<1>6. CASE rows[k].state = "deleted"
  <2>1. Pulled(k)
    BY <1>2, <1>6 DEF PullInv, ServerInv, NewestInv
  <2>2. QED
    BY <1>3, <1>6, <2>1 DEF Pulled
<1>7. CASE rows[k].state = "live" /\ Told(k)
  <2>1. Pulled(k)
    BY <1>2, <1>7 DEF PullInv, ServerInv, NewestInv
  <2>2. PICK r \in records : r.id = Remote(k) /\ ~r.deleted /\ r.body = rows[k].body
    BY <1>2, <1>7, <2>1 DEF Pulled
  <2>3. QED
    BY <1>3, <1>4, <1>7, <2>2
<1>8. CASE rows[k].state = "live" /\ ~Told(k)
  <2>1. \A r \in shown : r.body = rows[k].body
    BY <1>3, <1>8 DEF PullInv, DeviceInv, UntoldInv
  <2>2. ASSUME NEW c \in feed, c.client = k PROVE FALSE
    <3>1. PICK p \in Uses : p = <<k, c.op>>
      BY <2>2 DEF Uses
    <3>2. c.op = "create"
      BY <1>8, <3>1 DEF PullInv, ClaimInv, Exists
    <3>3. QED
      BY <1>8, <2>2, <3>2 DEF PullInv, ServerInv, FeedInv, Told
  <2>3. QED
    BY <1>3, <1>4, <1>8, <2>1, <2>2
<1>9. QED
  BY <1>5, <1>6, <1>7, <1>8, ServerTyped

\* The invariant of the feed, of what operations claim and of what the device
\* has read holds in every behaviour of device, server and other member.
THEOREM PullInvariance == Spec => [](IInv /\ PullInv)
<1>1. Init => IInv /\ PullInv
  BY InitIInv, InitPullInv
<1>2. (IInv /\ PullInv) /\ [Next]_vars => (IInv /\ PullInv)'
  BY StepIInv, StepPullInv
<1>3. QED
  BY <1>1, <1>2, PTL DEF Spec

\* When everything is pushed and pulled, the device shows the server's expenses
\* as the server has them, but for those the code fails (missed): for any number
\* of expenses, edits of the user and of others, lost answers, restarts, page
\* sizes and clocks, and whatever lists and conflicts were stored in between.
THEOREM PulledExpensesAreCurrent == Spec => []PulledIsCurrent
<1>1. IInv /\ PullInv => PulledIsCurrent
  BY InvImpliesCurrent
<1>2. QED
  BY <1>1, PullInvariance, PTL
=============================================================================
