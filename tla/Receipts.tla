------------------------------- MODULE Receipts -------------------------------
(***************************************************************************)
(* Receipts of one user: n8n posts what it finds in e-mails and retries,   *)
(* the user approves or rejects these drafts, group expenses take receipts *)
(* over or bring their own, and a device pulls the personal ones           *)
(* (n8n_webhook.py, CloudReceiptService, CloudReceiptRepository,           *)
(* GroupExpenseService).                                                   *)
(*                                                                         *)
(* A request is one READ COMMITTED transaction.  Decisions and expenses    *)
(* read the receipt without a lock and write it, by primary key, at their  *)
(* commit; updated_at is the start of the transaction that wrote the row.  *)
(*                                                                         *)
(* Left out: signatures, rate limits, malformed events (nothing is read or *)
(* written), what a receipt says, how an expense divides it (Splits), and  *)
(* the group's own checks (Groups).                                        *)
(***************************************************************************)
EXTENDS Integers, FiniteSets

CONSTANTS
    Event,     \* event_id, which becomes the client_record_id of a receipt
    Scan,      \* client_record_id of receipts that itemized expenses bring
    Key,       \* pairs of an event type and an idempotency key
    Message,   \* what n8n sends
    Request,   \* requests of a behaviour, each served once
    None,
    MaxClock,  \* bound: starts of transactions the clock tells apart
    Workload   \* bound: the messages and operations that may arrive

Record == Event \union Scan
Operation == {"approve", "reject", "split", "itemize", "pull", "close"}

\* parsed tells a receipt from an event the backend only notes; the rest of the
\* payload matters only as far as two payloads differ.
Envelope == [key: Key, event: Event, parsed: BOOLEAN]

ASSUME ReceiptsAssumption ==
    /\ Record \subseteq Nat /\ Event \intersect Scan = {} /\ MaxClock \in Nat \ {0}
    /\ Message \subseteq Envelope
    /\ Workload \subseteq [mail: SUBSET Message, ops: SUBSET Operation]

\* A row of cloud_receipts; linked when an expense refers to it.
Row == [state: {"none", "draft", "approved", "rejected"}, at: Nat, linked: BOOLEAN]
NoRow == [state |-> "none", at |-> 0, linked |-> FALSE]
NoRows == [rec \in Record |-> NoRow]

VARIABLES
    active,     \* the user can be found by e-mail address
    receipts,   \* receipts[rec]: the committed row of rec
    events,     \* messages whose row is in n8n_webhook_events
    clock,      \* the last start of a transaction
    tx,         \* tx[r]: the transaction of r
    told,       \* messages n8n has had a final answer to, and the answer
    failed,     \* messages answered 500 for a duplicate of theirs
    made,       \* made[e]: receipts committed for event e
    decisions,  \* decisions answered with success
    raced,      \* receipts decided by two requests that had both seen a draft
    cursor,     \* where a pulling device has come to
    view,       \* the receipts that device has
    behind,     \* receipts approved behind the cursor
    workload    \* what may arrive in this behaviour

rows   == <<active, receipts, events>>
ghosts == <<failed, made, decisions, raced>>
device == <<cursor, view, behind>>
vars   == <<rows, clock, tx, told, ghosts, device, workload>>

Transaction ==
    [step: {"new", "lookup", "user", "receipt", "note", "decide", "split", "itemize", "link",
            "done"},
     message: Message \union {None}, record: Record \union {None},
     verdict: {"approved", "rejected", None}, start: Nat, holds: BOOLEAN,
     late: BOOLEAN]

New == [step |-> "new", message |-> None, record |-> None, verdict |-> None,
        start |-> 0, holds |-> FALSE, late |-> FALSE]
Done == [New EXCEPT !.step = "done"]

TypeOK ==
    /\ active \in BOOLEAN
    /\ receipts \in [Record -> Row]
    /\ events \subseteq Message
    /\ clock \in 0 .. MaxClock
    /\ tx \in [Request -> Transaction]
    /\ told \subseteq Message \X {"created", "accepted", "conflict", "refused"}
    /\ failed \subseteq Message
    /\ made \in [Event -> Nat]
    /\ decisions \subseteq Record \X {"approved", "rejected"}
    /\ raced \subseteq Record
    /\ cursor \in [at: Int, id: Int]
    /\ view \in [Record -> Row]
    /\ behind \subseteq Record
    /\ workload \in [mail: SUBSET Message, ops: SUBSET Operation]

-----------------------------------------------------------------------------
Go(r, t) == tx' = [tx EXCEPT ![r] = t]
To(r, step) == Go(r, [tx[r] EXCEPT !.step = step])
Quiet == UNCHANGED <<rows, clock, ghosts, device, workload>>
Fail(r) == Go(r, Done) /\ Quiet /\ UNCHANGED told

Here(rec) == receipts[rec].state # "none"

\* A transaction that writes receipts starts; its now() is this instant.
Begin(r, t) ==
    /\ tx[r] = New
    /\ \E now \in (clock .. clock + 1) \intersect (0 .. MaxClock) :
          clock' = now /\ Go(r, [t EXCEPT !.start = now])
    /\ UNCHANGED <<rows, told, ghosts, device, workload>>

\* The process dies or the connection is lost: nothing uncommitted stays.
Crash(r) == tx[r].step \notin {"new", "done"} /\ Fail(r)

-----------------------------------------------------------------------------
(* Events of n8n.                                                          *)

\* n8n sends a message until it has an answer that is not 5xx; it may send
\* it again while an attempt is still being served.
Deliver(r) ==
    \E m \in workload.mail :
        /\ \A answer \in told : answer[1] # m
        /\ Begin(r, [New EXCEPT !.step = "lookup", !.message = m])

\* The answer reaches n8n, or is lost on its way.
Respond(m, answer) == told' = told \/ told' = told \union {<<m, answer>>}

\* What a successful event is answered with, and stored to be repeated.
Success(m) == IF m.parsed THEN "created" ELSE "accepted"

\* The row of the key decides: the same request is answered again, another
\* one conflicts, and a new one is processed.
LookUp(r) ==
    LET m == tx[r].message
        Known == {n \in events : n.key = m.key}
    IN /\ tx[r].step = "lookup"
       /\ IF Known = {} THEN To(r, IF m.parsed THEN "user" ELSE "note") /\ UNCHANGED told
          ELSE /\ Go(r, Done)
               /\ Respond(m, IF m \in Known THEN Success(m) ELSE "conflict")
       /\ Quiet

FindUser(r) ==
    /\ tx[r].step = "user"
    /\ IF active THEN To(r, "receipt") /\ UNCHANGED told
       ELSE Go(r, Done) /\ Respond(tx[r].message, "refused")
    /\ Quiet

Held(r, rec) == \E q \in Request \ {r} : tx[q].holds /\ tx[q].message.event = rec

\* Mutant of IsDuplicate: the receipt gets an id of its own.
NeverDuplicate(rec) == FALSE

\* Another receipt of the user has the client_record_id.
IsDuplicate(rec) == Here(rec)

\* A 500 whose cause is a row that is already there.
FailDuplicate(r) ==
    /\ Go(r, Done)
    /\ failed' = failed \union {tx[r].message}
    /\ UNCHANGED <<rows, clock, told, made, decisions, raced, device, workload>>

\* The draft is flushed: the insert waits for one that is not committed yet.
InsertReceipt(r) ==
    LET rec == tx[r].message.event IN
    /\ tx[r].step = "receipt"
    /\ ~Held(r, rec)
    /\ IF ~active THEN Fail(r)
       ELSE IF IsDuplicate(rec) THEN FailDuplicate(r)
       ELSE Go(r, [tx[r] EXCEPT !.step = "note", !.holds = TRUE]) /\ Quiet /\ UNCHANGED told

Draft(t) == [state |-> "draft", at |-> t.start, linked |-> FALSE]

\* Mutant of NoteEvent: the receipt is committed before its event is noted.
NoteLater(r) ==
    LET t == tx[r]  m == t.message IN
    /\ t.step = "note"
    /\ IF t.holds
       THEN /\ receipts' = [receipts EXCEPT ![m.event] = Draft(t)]
            /\ made' = [made EXCEPT ![m.event] = @ + 1]
            /\ Go(r, [t EXCEPT !.holds = FALSE])
            /\ UNCHANGED <<events, told>>
       ELSE /\ events' = events \union {m}
            /\ Go(r, Done)
            /\ Respond(m, Success(m))
            /\ UNCHANGED <<receipts, made>>
    /\ UNCHANGED <<active, clock, failed, decisions, raced, device, workload>>

\* Mutant of KeyTaken: the keys are not unique.
NeverTaken(key) == FALSE

KeyTaken(key) == \E n \in events : n.key = key

\* The event is added and everything committed, unless the key was faster.
NoteEvent(r) ==
    LET t == tx[r]  m == t.message IN
    /\ t.step = "note"
    /\ IF KeyTaken(m.key) THEN FailDuplicate(r)
       ELSE /\ events' = events \union {m}
            /\ receipts' = IF t.holds THEN [receipts EXCEPT ![m.event] = Draft(t)]
                           ELSE receipts
            /\ made' = IF t.holds THEN [made EXCEPT ![m.event] = @ + 1] ELSE made
            /\ Go(r, Done)
            /\ Respond(m, Success(m))
            /\ UNCHANGED <<active, clock, failed, decisions, raced, device, workload>>

-----------------------------------------------------------------------------
(* Decisions of the user.                                                  *)

\* Mutant of IsDraft: any receipt of the user.
IsReceipt(rec) == Here(rec)

\* get_draft_by_id, which does not ask for an expense and takes no lock.
IsDraft(rec) == receipts[rec].state = "draft"

\* The route looks the draft up; without one the answer is 404.
Decide(r, op, verdict) ==
    /\ op \in workload.ops
    /\ active
    /\ \E rec \in Record :
          /\ IsDraft(rec)
          /\ Begin(r, [New EXCEPT !.step = "decide", !.record = rec, !.verdict = verdict])

Approve(r) == Decide(r, "approve", "approved")
Reject(r)  == Decide(r, "reject", "rejected")

\* ORDER BY updated_at, id.
Before(p, q) == p.at < q.at \/ (p.at = q.at /\ p.id < q.id)

\* Mutant of After: rows of the same instant are not told apart.
AfterInstant(q, from) == q.at > from.at

\* The condition on rows that come after a cursor.
After(q, from) == q.at > from.at \/ (q.at = from.at /\ q.id > from.id)

At(rec, row) == [at |-> row.at, id |-> rec]
Personal(row) == row.state = "approved" /\ ~row.linked

\* Whether a device is past a row that becomes one to pull.
Passed(rec, row) == Personal(row) /\ ~After(At(rec, row), cursor)

\* The changed columns are written by primary key; other requests that have
\* seen the draft are late now.
CommitDecision(r) ==
    LET t == tx[r]  rec == t.record
        row == [receipts[rec] EXCEPT !.state = t.verdict, !.at = t.start]
    IN /\ t.step = "decide"
       /\ IF ~Here(rec) THEN Fail(r)
          ELSE /\ receipts' = [receipts EXCEPT ![rec] = row]
               /\ decisions' = decisions \union {<<rec, t.verdict>>}
               /\ raced' = IF t.late THEN raced \union {rec} ELSE raced
               /\ behind' = IF Passed(rec, row) THEN behind \union {rec}
                            ELSE behind \ {rec}
               /\ tx' = [q \in Request |->
                    IF q = r THEN Done
                    ELSE [tx[q] EXCEPT !.late = @ \/ (tx[q].step = "decide"
                                                      /\ tx[q].record = rec)]]
               /\ UNCHANGED <<active, events, clock, told, failed, made, cursor,
                              view, workload>>

-----------------------------------------------------------------------------
(* Group expenses.                                                         *)

\* create_fast_split: the expense may refer to any receipt of its author.
Split(r) ==
    /\ "split" \in workload.ops
    /\ active
    /\ \E rec \in Record :
          /\ Here(rec)
          /\ Begin(r, [New EXCEPT !.step = "split", !.record = rec])

Link(r) ==
    /\ receipts' = [receipts EXCEPT ![tx[r].record].linked = TRUE]
    /\ Go(r, Done)
    /\ UNCHANGED <<active, events, clock, told, ghosts, cursor, view, workload>>
    /\ behind' = behind \ {tx[r].record}

\* The expense refers to a row that must still be there.
CommitSplit(r) ==
    /\ tx[r].step = "split"
    /\ IF Here(tx[r].record) THEN Link(r) ELSE Fail(r)

\* create_itemized_from_receipt_draft: the receipt is inserted, as approved
\* as a receipt is by default, and the expense that refers to it.
Itemize(r) ==
    /\ "itemize" \in workload.ops
    /\ active
    /\ \E rec \in Scan :
          /\ ~Here(rec) /\ \A q \in Request : tx[q].record # rec
          /\ Begin(r, [New EXCEPT !.step = "itemize", !.record = rec])

Scanned(t, linked) == [state |-> "approved", at |-> t.start, linked |-> linked]

\* Mutant of CommitItemized: the receipt is committed before its expense.
CommitScan(r) ==
    LET t == tx[r] IN
    \/ /\ t.step = "itemize"
       /\ receipts' = [receipts EXCEPT ![t.record] = Scanned(t, FALSE)]
       /\ To(r, "link")
       /\ UNCHANGED <<active, events, clock, told, ghosts, device, workload>>
    \/ t.step = "link" /\ Link(r)

CommitItemized(r) ==
    LET t == tx[r] IN
    /\ t.step = "itemize"
    /\ IF ~active THEN Fail(r)
       ELSE /\ receipts' = [receipts EXCEPT ![t.record] = Scanned(t, TRUE)]
            /\ Go(r, Done)
            /\ UNCHANGED <<active, events, clock, told, ghosts, device, workload>>

-----------------------------------------------------------------------------
(* The pull, and the end of the account.                                   *)

\* list_changes: approved, not in an expense, after the cursor.
Changes == {rec \in Record : /\ Personal(receipts[rec])
                             /\ After(At(rec, receipts[rec]), cursor)}

\* One page, up to and including last: how far it goes is the device's limit.
Page(last) == {rec \in Changes : ~Before(At(last, receipts[last]), At(rec, receipts[rec]))}

Pull ==
    /\ "pull" \in workload.ops
    /\ \E last \in Changes :
          /\ cursor' = At(last, receipts[last])
          /\ view' = [rec \in Record |-> IF rec \in Page(last) THEN receipts[rec]
                                         ELSE view[rec]]
    /\ UNCHANGED <<rows, clock, tx, told, ghosts, behind, workload>>

\* The account is deleted, with its receipts; the deletion waits for inserts
\* that refer to the user.
Close ==
    /\ "close" \in workload.ops /\ active
    /\ \A r \in Request : ~tx[r].holds
    /\ active' = FALSE
    /\ receipts' = NoRows
    /\ view' = NoRows /\ behind' = {}
    /\ UNCHANGED <<events, clock, tx, told, ghosts, cursor, workload>>

Start == [at |-> -1, id |-> -1]

Init ==
    /\ active = TRUE
    /\ receipts = NoRows /\ events = {}
    /\ clock = 1
    /\ tx = [r \in Request |-> New]
    /\ told = {} /\ failed = {} /\ decisions = {} /\ raced = {}
    /\ made = [e \in Event |-> 0]
    /\ cursor = Start /\ view = NoRows /\ behind = {}
    /\ workload \in Workload

Serve(r) ==
    \/ Deliver(r) \/ LookUp(r) \/ FindUser(r) \/ InsertReceipt(r) \/ NoteEvent(r)
    \/ Approve(r) \/ Reject(r) \/ CommitDecision(r)
    \/ Split(r) \/ CommitSplit(r) \/ Itemize(r) \/ CommitItemized(r)
    \/ Crash(r)

Next == Pull \/ Close \/ \E r \in Request : Serve(r)

Spec == Init /\ [][Next]_vars

-----------------------------------------------------------------------------
(* Properties.                                                             *)

\* However often an event is delivered, under however many keys, it becomes
\* one receipt, n8n is told that it did only when it did, and no key is taken
\* for two events.
EventTakenOnce ==
    /\ \A e \in Event : made[e] <= 1
    /\ \A p \in told : p[2] = "created" => made[p[1].event] = 1
    /\ \A m, n \in events : m.key = n.key => m = n

\* A 500 for a duplicate is as transient as the contract says
\* (docs/n8n_webhook_contract.md, 5xx): the key is answered from now on.  The
\* same event under two keys is left out.
RetryIsAnswered ==
    \A m \in failed :
        \/ \E n \in events : n.key = m.key
        \/ \E n \in workload.mail : n.event = m.event /\ n.key # m.key

\* A receipt is approved or rejected once and stays so, unless two requests
\* had both seen the draft.
DecisionIsFinal ==
    \A d \in decisions :
        \/ d[1] \in raced
        \/ receipts[d[1]].state = IF active THEN d[2] ELSE "none"

\* A receipt that an itemized expense brings is the group's: no device ever
\* pulls it as a personal one (docs/n8n_webhook_contract.md:193).
GroupReceiptsStayOut == \A rec \in Scan : view[rec] = NoRow

\* A device that pulls page by page has every personal receipt its cursor
\* has passed, unless it was approved behind the cursor.
OnlyOvertakenIsSkipped ==
    \A rec \in Record \ behind :
        Passed(rec, receipts[rec]) => view[rec] = receipts[rec]

-----------------------------------------------------------------------------
(* The inductive invariant.                                                *)

\* What the step of a transaction says of what it carries.
Fits(t) ==
    /\ t.step \in {"lookup", "user", "receipt", "note"} => t.message \in workload.mail
    /\ t.step \in {"user", "receipt"} => t.message.parsed
    /\ t.holds => t.step = "note" /\ t.message.parsed
    /\ t.step = "note" /\ t.message.parsed => t.holds
    /\ t.step \in {"decide", "split"} => t.record \in Record
    /\ t.step = "decide" => t.verdict \in {"approved", "rejected"}
    /\ t.step = "itemize" => t.record \in Scan

TxInv == \A r \in Request : Fits(tx[r])

\* An uncommitted draft is the only row of its event.
HoldInv ==
    \A r \in Request : tx[r].holds =>
        /\ active
        /\ ~Here(tx[r].message.event)
        /\ \A q \in Request \ {r} :
               tx[q].holds => tx[q].message.event # tx[r].message.event

\* So is the receipt an itemized expense is about to bring.
ItemizeInv ==
    \A r \in Request : tx[r].step = "itemize" =>
        /\ ~Here(tx[r].record)
        /\ \A q \in Request \ {r} :
               tx[q].step = "itemize" => tx[q].record # tx[r].record

\* Who has not been overtaken still decides about a draft.
LateInv ==
    \A r \in Request :
        active /\ tx[r].step = "decide" /\ ~tx[r].late => IsDraft(tx[r].record)

ClosedInv == ~active => \A rec \in Record : receipts[rec] = NoRow

\* A receipt of an event has its event, and an event counted has its receipt
\* as long as there is an account.
EventInv ==
    /\ events \subseteq workload.mail
    /\ \A e \in Event : Here(e) => \E n \in events : n.event = e
    /\ \A e \in Event : active /\ made[e] # 0 => Here(e)
    /\ \A m \in events : m.parsed => made[m.event] = 1

ScanInv == \A rec \in Scan : Here(rec) => receipts[rec].linked

IInv ==
    /\ TypeOK /\ TxInv /\ HoldInv /\ ItemizeInv /\ LateInv /\ ClosedInv
    /\ EventInv /\ ScanInv
    /\ EventTakenOnce /\ RetryIsAnswered /\ DecisionIsFinal
    /\ GroupReceiptsStayOut /\ OnlyOvertakenIsSkipped
=============================================================================
