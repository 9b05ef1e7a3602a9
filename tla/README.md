# EconBuddy: a TLA+ model of the backend and the group synchronisation

EconBuddy is an expense tracker: a Flutter app that scans receipts and works
offline, and a FastAPI backend (PostgreSQL, Redis) that keeps the accounts, the
shared ledgers of groups and a copy of personal transactions.  What is hard to
get right is what happens between the two and between two requests: the app
queues operations while it is offline and sends them again until it has an
answer, several devices and users write the same rows in READ COMMITTED
transactions that lock some of them, and every other device learns of it from a
feed it pulls.

## Inventory

| Component (source) | State | Operations | Hard behaviours | What makes it correct | Module |
| --- | --- | --- | --- | --- | --- |
| Idempotent creation of expenses and settlements (`backend/app/api/routers/groups.py`, `settlements.py`, `services/settlement_service.py`) | idempotency records, expenses, settlements, the locked group row | check of the membership, create, replay, archive, delete, leave and rejoin | retransmissions beside their original or after the sender has left, crash between two transactions, failed cache invalidation | a key is applied at most once, answers do not contradict each other unless a membership ended, a told success is durable and reaches the feed | `IdempotentCreate`, `CreateOnce` |
| Offline mutation of expenses and shares (`routers/sync.py`) | expense rows, shares, receipts of operations, settlements | update, delete, operations on a share | row lock or none, version check, clock read before or after the wait for the row, financial lock read without the group lock | no lost update, one effect per operation, deleted and settled expenses stay as they are | `ExpenseLedger` |
| Change feed and its client (`models/group_sync_change.py`, pull in `sync.py`, `finance_database/.../group_expense_offline_repository.dart`) | rows with a sequence number; the device's cursor and records | append, pull, apply snapshot or tombstone, refresh | numbers commit out of order, records with pending operations, restart from the beginning | a device that has pushed and pulled everything shows the ledger | `GroupSync` |
| Group sync client (`features/groups/application/*.dart`) | task queue, attempts, conflicts | save, push with retry, requeue, use server version, keep local version | one run at a time with reruns, lost answers, the end of the app | no queued edit is lost, each is decided | `GroupSync` |
| Debt summary and cache (`services/debt_summary_service.py`, `debt_summary_cache.py`) | Redis entry per group with a time to live | read through, invalidate after commit | reader racing writer, reads by several statements, Redis failures | a summary fails only when its reads do not fit, an acknowledged settlement has cleared the cache, what is cached is current in the end | `DebtCache` |
| Debt simplification and splits (`domain/debts.py`, `services/group_expense_service.py`) | none | simplify, apply settlements; equal, percentage, fixed and itemized splits | remainders, ties, zero balances | everyone is settled exactly with few transfers; shares add up | `DebtSimplification`, `Splits` |
| Accounts, e-mail and OAuth (`services/auth_service.py`, `oauth_service.py`, `routers/auth.py`) | users, one-time links, provider identities | register, log in, verify, resend, forgot, reset, delete | two requests on one address or link, provider failures, deadlocks | a link works once, identities join verified accounts, deletions complete | `Accounts` |
| Refresh sessions (`services/session_service.py`) | session rows in families, `auth_version` | issue, rotate, log out, revoke all | rotation beside rotation or revocation | one usable token per family, revocations end sessions | `Accounts` |
| Groups and membership (`services/group_service.py`, `group_invitation_service.py`) | groups, members with roles, invitations | create, add, remove, leave, change role, archive, invite, accept | the group lock is taken by some operations only | an active group has an owner, nobody leaves with an open balance, an invitation works once | `Groups` |
| Friends and direct groups (`friend_service.py`, `friend_invitation_service.py`) | friend invitations, two-person groups | invite, accept, first expense | commit in the middle of the handler | one direct group per pair | `Groups` |
| Personal transaction sync (`services/sync_service.py`, `repositories/cloud_transactions.py`) | cloud rows with two clocks, claims | claim, push, pull | newest writer wins, several statements per record, cursor over timestamps | answers stay true, a claim has one answer, a pull misses nothing | `TransactionSync` |
| Receipts (`routers/receipts.py`, `n8n_webhook.py`, `cloud_receipt_service.py`) | drafts, webhook events | deliver, approve, reject, attach to an expense, pull | duplicate delivery, approve beside reject, expenses taking receipts over | an event yields one receipt, a draft one decision | `Receipts` |
| Receipt parser, assistant, rate limits, activity log, local storage, screens, migrations | | | | | not modelled, see below |

How they interact: the app's queue calls `POST /sync/groups/push`, which calls
the same `create_*` functions as the plain endpoints or one of the two mutation
handlers; all of them write PostgreSQL, then drop the Redis entry of the group,
and append to `group_sync_changes`, in the same transaction (mutations) or in a
second one (creations).  Devices poll `GET /sync/groups/pull`, and beside it
refresh the list of expenses.  Settlements, archives and role changes meet on the
group row lock; expense mutations on the expense row lock; invitations on their
own rows; account deletions on rows of groups and members; little orders the one
against the other.  Sessions, links and identities meet on the user row.

`PROJECT.json` lists every component with its status, and the hazards with the
line where each bites.

## Modules

| Module | Models |
| --- | --- |
| `CreateOnce` | the promise of the creation endpoints to a caller that retries |
| `IdempotentCreate` | the endpoints, statement by statement; implements `CreateOnce` |
| `IdempotentCreateProofs` | type correctness, the inductive invariant, the safety properties and the refinement, for every value of the constants |
| `ExpenseLedger` | the life of an expense after its creation: updates, deletes, share operations, settlements, feed rows |
| `ExpenseLedgerProofs` | type correctness, the inductive invariant, the count of applied operations, the faithful feed and the two action properties, for any operations, calls and faults |
| `GroupSync` | the expenses of a group on a device: queue, coordinator, conflicts, feed, list and restarts, with the push endpoint as the feed sees it |
| `GroupSyncProofs` | type correctness, two inductive invariants, the safety of queued edits and that what was pulled is current, for any expenses, edits, faults and clocks |
| `DebtCache` | the debt summary of a group: its computation, its Redis entry, the writes that clear it |
| `AmountProofs` | `DebtCache`: type correctness, the inductive invariant and the safety properties, for any writes, requests and faults; `DebtSimplification`: the plan is exact, for any members and balances; `Splits`: the four invariants of the run, for any totals, participants and itemized requests |
| `DebtSimplification` | the greedy plan of payments, computed again as members pay |
| `Splits` | the shares the app shows and the ones the backend stores, itemized ones included |
| `Accounts` | users, sessions, links and provider identities as interleaved transactions |
| `AccountsProofs` | type correctness, the inductive invariant and the four invariants of the run, for any requests, users, sessions and links |
| `Groups` | groups, members, invitations, direct groups and what a deleted account leaves behind |
| `GroupsProofs` | type correctness, the inductive invariant and the four invariants of the run, for any users, groups, invitations and requests |
| `TransactionSync` | push, claim and pull of personal transactions |
| `TransactionSyncProofs` | type correctness, the inductive invariant and the three invariants of the run, for any pushes and claims |
| `Receipts` | the webhook, decisions on drafts, receipts of group expenses, the pull of personal ones |
| `ReceiptsProofs` | type correctness, the inductive invariant and the five invariants of the run, for any deliveries, decisions and expenses |
| `MC*` | workloads, scenarios and symmetry sets of the runs |

How they fit together: `GroupSync` sees of `IdempotentCreate` the two
transactions of a creation, and of `ExpenseLedger` the receipt, the row lock, the
version check and the commit; those two modules show what the server does with
retransmissions, `GroupSync` what the device makes of the answers and the feed.
`DebtCache` takes up after the commits: each of its writes is one
`CommitMutation` or `WriteShare` of `ExpenseLedger` or one `create` of
`IdempotentCreate`, reduced to what a summary can see of it.  The balances a
summary holds are the ones `DebtSimplification` starts from, and the shares they
are made of come from `Splits`.  `Groups` says who may settle or leave on these
balances.  `Receipts` and `TransactionSync` share the form of their pull.

A definition marked as a mutant is a plausible wrong version of the
definition that follows; it is not used by the specification.  Variables named
as history or observed (`raced`, `missed`, `behind`, `drift`, ...) are read by no
guard: they record how a known exception came about, so that a property can
leave out exactly that exception.

### IdempotentCreate

A *call* is one HTTP request in flight; calls of one *intent* (an
Idempotency-Key with a body) are an original and its retransmissions.  `pc[c]`
is the statement the call executes next: `member` (`require_group_member`, before
anything else), `lookup` (first SELECT of the record),
`reserve` (INSERT ... ON CONFLICT DO NOTHING, which waits for the session that
holds an uncommitted row of the key), `lock` (SELECT ... FOR UPDATE of the
group), `create` (validation and the commit of resource and record together),
`replay`, `invalidate`, `append` and `insert` (the push handler's second
transaction), `answered`.  `record`, `resources`, `deleted`, `archived` and
`feed` are committed tables; `reservedBy` and `groupLock` are the rows open
transactions hold and are freed by commit, rollback and crash (`ReleaseLocks`).
`told[i]` is what the app's queue keeps: 2xx and 4xx are final, a 5xx (and the
503 of a failed invalidation) leaves the operation pending.

A request of a user who is no member is refused with 403 before its key is looked up,
so a committed create is refused too when its sender has left before the retry.
`Leave` takes the row lock of the group, `Rejoin` (a member is added again, or accepts
an invitation) does not; `away` is who has left, `departed` who ever has (history).
Under the group lock the creation reads the memberships of the users its body names
again (`Names`), of a split the sender's too; the sender of an itemized expense that
does not name him was looked up by the first check only.  Left out is that a member
needs a zero balance to leave: the rest of the ledger can bring that about, and
`Groups` has it.

Expenses and settlements differ in two places, both in the model: a settlement's
failed cache invalidation is a 503 after the commit, an expense's is ignored;
an expense can be soft-deleted before a replay, a settlement cannot.

### ExpenseLedger

A call is a push of one operation; `Body[o]` says what it asks for.  An update
or delete goes through `CheckReceipt`, `LockRow` (with the deleted and version
checks on the locked row), `ReadSettlements` (`is_financially_locked`), then
`Refuse` or `CommitMutation`, which writes row, receipt and feed row together.
A share operation goes through `CheckReceipt`, `CheckExpense` (no lock),
`ReadShare` and `WriteShare`.  `updated_at` is a reading of the server's clock, of which
the order within one expense matters: `clock[e]` counts the readings made for `e`.
A mutation reads it while it holds the row.  A share operation reads it in
`ReadShare` (`stamp`), before a flush that may wait for the row, so that what it writes
may be older than what it replaces, and older than what the feed tells before
it.  That no two readings are equal, and that one clock makes them, is
assumed.  `expected[o]` is the version of the local copy when the user made the
edit, or `Unversioned` for requests without `expected_updated_at`, which the API
admits.  An amount is a number, a split is a function from members to amounts
with `Absent` for no share.  A receipt's unique key turns a second commit of one
operation into a 500 (`error`).

### GroupSync

`tx[s]` is the push served for the device, for a request the device has given up
waiting for (`late`), and for another member.  A creation commits expense
(`CreateExpense`) and change (`AppendChange`, `Commit`) in two transactions, a
mutation in one (`GetReceipt`, `Mutate`, `Commit`).  A change has its number from
the insert (`drawn`) and is in `feed` from the commit.

`records` and `tasks` are the two Isar collections.  `SaveCreate`, `SaveUpdate`
and `SaveDelete` write both in one transaction; `StoreSnapshot` and
`StoreTombstone` are `saveSyncedFromPull` and `applyPulledTombstone`; `Mark` is
what an answer writes.  `phase` is where the coordinator's run is: `push` (choose
a task), `wait` (for the answer), `pull`, `apply` (changes are stored one by
one, the cursor after the last).  `asked` holds the three flags of
`_startSync`.  `Decide`, `UseServer`, `KeepLocal` and `Closed` are the conflict
dialog, which fetches the server's expense first.  `Restart` is the end of the
app at any point; what is in memory is gone and the request goes on.

`SaveUpdate` and `SaveDelete` join what are two steps in
`offline_first_group_expense_mutator.dart`: the look at the sync state of the record
(25-48, 56-69) and the transaction that writes it (71-86).  They also take the stored record for
the expense the screen showed, which the code takes body and expected `updated_at` from,
and leave out the check of `isFinanciallyLocked` on that expense.  Every edit has a modal
sheet or dialog of its own, so two edits do not overlap; one made on a shown expense that
is no longer the stored one is sent with an old `updated_at` and ends in the conflict
states the model has.  In `AppendChange` a second request waits for the uncommitted change
of the same key and then answers `done`; the code's insert (sync.py:213-220, 746-754)
ends in an integrity error and a 500, the states after which are those of `Fail`.

Times are even when the server made them and odd when the device did, shifted
by `plan.skew`, which is even, so a device's stamp is never equal to the server's.

`missed` is no state of the code.  It holds the expenses the device was given a
change of in vain, or stored over such a change (`InVain`, `TurnsBack`), since the
app was started; `PulledIsCurrent` excepts these and no others.

### DebtCache

The ledger is the set of `committed` writes, each of a kind: `create`, `update`,
`delete`, `share` (the share operations of the push handler) and `settle`.
`Raise[w]` is by how much an update changes a total and its shares, or a share
operation a share; it is all that decides whether balances add up.

A request for the summary (`Lookup`, `LookupFails`) is answered from the cache
or goes through the positions `expenses`, `shares`, `settlements` and `storing`.
Each is a statement at READ COMMITTED and sees what is committed when it runs.
`ReadShares` reads the shares of the expenses already returned, so that only
writes that change shares of a live expense make a difference there.
`ReadSettlements` also computes the summary and raises when the balances do not
add up.  `Store` is the SET with its time to live, `Expire` its end.

A write's request (`writer[w]`) commits and then deletes the key, up to
`MaxAttempts` times (`Delete`, `DeleteFails`); a DEL that raises may have been
carried out.  What it does when the last attempt fails is `GiveUp`: 503 for a
settlement, success for the others.  A handler that dies, or answered 503, is
repeated; `ReplayInvalidates` says which replays clear the cache (a create's
does not).  Share operations never clear it.  Left out: a cached value that does
not parse, which counts as a miss, and permissions.

### DebtSimplification and Splits

`open` stands for the two heaps at once: the debtors are the members below zero,
the creditors those above, and the top of a heap is `Largest`.  `Match` is one
turn of the loop, `Finish` the check of the result.  `Pay` is a member who
records a payment of the plan as a settlement; the next summary applies it
(`Settled`) and computes the plan again.

In `Splits` a participant is a position of the request, a percentage is in basis
points (`Whole` is 100 %).  `Send` is the form, which computes what it shows and
blocks the button when that fails; `SendDirectly` any other client of the API;
`SendItemized` a receipt whose lines are assigned to members, with extra amounts;
`Store` the backend.  Both sides go through the participants in the order of the
request; only fixed amounts are sorted before they are stored, which changes
nobody's share.

### Accounts, Groups, TransactionSync, Receipts

These four have one form.  A request `r` is one transaction: `tx[r]` holds the
statement it executes next, what it has read and the rows it has locked.  Reads
and locks are steps; writes show when the transaction commits, so a step named
`Commit...` is the handler's last.  A handler that reads a row and writes the
whole value back later is modelled so, and that is where most of the findings
below come from.

* `Accounts`: sessions form families (`family` is the session of the login);
  `LockSession`, `DecideRotation`, `InsertReplacement` and `CommitRotation` are a
  refresh, `CommitReuse` what follows a token that was rotated before.  `Scan` and
  `LockScanned` are the UPDATE of all sessions of a user: it sees the committed
  rows when it starts and locks them one by one.  `DeadlockAbort` is PostgreSQL
  ending one of two transactions that wait for each other.  Links expire, Apple
  may refuse.
* `Groups`: `LockGroup` is `_get_authorized_group`; archive, add, remove, role
  changes and settlements go through it, acceptances and deletions do not.
  `Mutate` is an offline mutation that moves a balance.  The acceptance of a
  friend's invitation is two transactions with `MakeDirectGroup` between them.
* `TransactionSync`: the insert that may find a row, the update of an older
  version and the look at what stood in the way are three steps, per record of the
  batch.  `time` is the device's clock, `at` the server's, read before the
  statement that may have to wait.
* `Receipts`: `LookUp`, `FindUser`, `InsertReceipt` and `NoteEvent` are the
  webhook's four statements; an insert waits for an uncommitted row of its key and
  fails if that commits.  Decisions and expenses read the receipt without a lock.

## Runs

| Run | Bounds | Shows |
| --- | --- | --- |
| `Create` | a queued expense sent with two bodies, one of them retransmitted, a posted settlement, one sender whom one of the bodies names; 2 calls at a time, 1 fault, and an archive, a deletion or a departure (`OneDisturbance`); fairness | durable successes, no mixed answers unless a membership ended, one writer per ledger, the refinement of `CreateOnce`; intents are answered, committed queued records reach the feed unless deleted or their sender left |
| `Ledger` | four workloads of 2 to 4 calls among a versioned and an unversioned update, one with wrong shares, a delete, a share dropped, restored, adjusted; 1 fault | applied once and told once, with the time that was written and, of updates and deletes, later than all told before; the feed reproduces the ledger, no lost update, deleted and settled expenses stay closed |
| `LedgerSettlementRace` (violation) | an update, a delete, a settlement | a settlement that slips in after the check does not stop the change |
| `GroupSync` | 10 scenarios: up to 2 expenses, 2 edits of the user, 2 of another member, a retry under a new key, a right, fast or slow clock, up to 3 faults; 2 attempts, pages of 2; fairness | no queued edit is lost, a device that has pushed and pulled everything is current but for the listed exceptions, every edit is decided |
| `CacheConsistency` | one write of each of the five kinds, a request repeated without end, 2 attempts, 2 faults; fairness | a summary fails only when the shares it read are not those of its totals, acknowledged settlements have cleared the cache, only overtaken requests store anything stale, the cache becomes current in the end |
| `PaymentPlan` | 5 members, every balance from -5 to 5; fairness | the plan settles everybody, is short, exact at every step, one transfer per pair; paying suggestions in any order ends in a settled group |
| `SplitShares` | up to 4 participants, 8 totals from -1 to 10001, 9 percentages or amounts; itemized: up to 2 lines, 3 assignments, 2 extra amounts | shares add up, rounding is fair, the receipt is paid, the backend accepts what the form lets through and stores what was shown unless someone has 0 % |
| `Accounts` | 6 sets of operations, 2 requests, 2 users on 1 address, 3 sessions, 2 links, a Google and an Apple identity, 1 revocation | one usable token per family, revocations and reuse end what they did not race with, links work once, identities join verified accounts |
| `AccountDeletion` (violation) | logins and deletions of one user, Apple may refuse; fairness of the user too | a refused deletion is never completed |
| `Groups` | 7 kinds of scenario, 3 users, 3 requests, room for 3 groups, 2 invitations | the owner is lost only in a race of unlocked writers, whoever leaves is settled, an invitation works once, one direct group per pair |
| `TransactionSync` | 4 scenarios, 2 records, 3 requests of up to 3 entries, 3 readings of the clock | answers stay true, a claim has one answer, a pull misses only what was committed behind its cursor |
| `Receipts` | 5 workloads, 2 events under 3 keys, an itemized receipt, 4 requests, 3 readings of the clock | an event becomes one receipt, a failed delivery is answered on retry, a decision stays, group receipts stay out of the personal pull |

Why the bounds are enough:

* `Create`, `Ledger`: the rows and locks of different keys and expenses are
  independent except for the group lock, which two keys already contend for; the
  calls are an original, its retransmission and a stranger; one fault can hit any
  step.  An archive, a deletion and a departure each end what a retry could otherwise
  still do, so `Create` has one of them in a behaviour, at any point, and a sender who
  came back stays (93,563 states; with all three together the run takes too
  long).  `NoLostUpdate` needs two writers of one row and has four, `AppliedOnce`
  an operation sent twice.  No run has an invalid body: a refusal comes from an
  archive, which takes the same branch; the proofs admit both.
* `GroupSync`: what is stored for one expense does not depend on others, except
  through the cursor, the page and the order of the queue, for which the second
  expense and pages of two are there.  An edit in the queue, one on its way and one
  of another member are what can meet at a record; two attempts have a last and a
  not-last one; three faults can use up the attempts and then end the app.
* `CacheConsistency`: a stale store needs one request and one write, and a request
  that could not read the cache stores over what is in it as a second request
  would; the proofs are for any number of requests.  Each kind of write occurs; two
  faults can spend both attempts, or kill a handler and fail the DEL of its
  repetition.
* `PaymentPlan`, `SplitShares`: five members allow two debtors against three
  creditors with ties and remainders on both sides, and the sums of balances up to 5
  reach every order of the two heads.  The totals of `Splits` include ones below the
  number of participants, ones that divide evenly and ones that leave every rest.
* `Accounts`: rows of different users meet only through an address or an
  identity, so one of each with two users reaches every conflict; a family race
  needs the presented session, a replacement and a second one.  Two requests
  overlap at a time, and any number follow each other while rows are left; a
  third overlapping one would matter for deadlocks of three only.
* `Groups`: three requests are a writer under the lock, one without it and a
  third that follows; a third user is needed as an heir.
* `TransactionSync`, `Receipts`: a conflict needs two writers of a row, and a lost
  answer a third request that repeats one.  Three readings of the clock have a
  before, a tie and an after.

Deadlock is checked in `CacheConsistency`, where a request can always be made.
The other systems stop: when all operations have final answers, when a group is
settled, when a split is stored, when the requests of a behaviour are served.  That
nothing is stuck before is said by `EveryIntentIsAnswered` and `EveryEditIsDecided`;
in `Accounts`, where a rotation and a logout from all devices take the same rows in
different orders, it is PostgreSQL's detector that ends what is stuck, and no
property is about it.

The faults of `ExpenseLedger`, `IdempotentCreate`, `Groups`, `TransactionSync` and
`Receipts` are crashes of the handler and lost answers; a call that dies rolls
back, and its client may send it again as long as it has no final answer.  In
`GroupSync` they are answers lost on either side, refusals, a failed pull and the
end of the app.

### Fairness

`Create` assumes that a handler that can run is run (the event loop), that a
waiting session gets the row in the end (PostgreSQL queues waiters, so strong
fairness for the steps that wait), and that a client with no final answer sends
again.  The code sends five times with growing delays, then on regained
connectivity or at the user's request (`GroupSyncCoordinator`): the assumption
is that one of these keeps happening.  Faults are bounded, so they stop.

`GroupSync` assumes weak fairness of the server's steps, of the coordinator's run
once it was asked for, and of the return of the connection, which
`finance_app.dart` reports to the coordinator.  The user is not assumed to do
anything, and failed operations count as decided: the app shows them.

`AccountDeletion` assumes strong fairness of each request (row locks are granted in the
order they were asked for), that PostgreSQL finds deadlocks, and a user who keeps
logging in and asking for the deletion: the violation is not for want of trying.
`Accounts` itself has safety properties only.

`CacheConsistency` assumes weak fairness of `Expire` and nothing else: the key is
stored with a time to live.  Requests and writers may stop anywhere.

`PaymentPlan` assumes that a computation ends and that members go on paying while
the plan is not empty.  The second half is about people; the point is that no
order of payments, with a plan computed again each time, goes round in circles.

## Proofs

`IdempotentCreateProofs` proves for arbitrary sets of keys, bodies, copies and
calls and any bound on calls in flight and faults:

* `TypeCorrect`: `Spec => []TypeOK`;
* `Invariance`: `Spec => []IInv`.  None of the properties is inductive: that a
  key has at most one resource holds because a call that reaches `create` holds
  the key's reservation, and a reservation exists only while no record is
  committed.  `IInv` states this (`ReservationInv`), the owner of the group lock
  (`GroupLockInv`), what a call's position says about the committed record
  (`PositionInv`), that every answer, produced or delivered, is true of the
  committed state and stays so (`AnswerInv`), and that whoever is away has
  departed (`MembershipInv`), without which a 403 would not tell of a departure;
* `AtMostOnce`, `Durability`, `ConsistentAnswers`, `Serialised`, `Permanence`:
  at most one resource per key, the three invariants of the run, and that what
  is committed is never taken back, from `IInv`;
* `Refinement`: `Spec => Abstract!AbsSpec`.  A commit is `Apply`, an archive is
  `Close`, a departure is `Depart`, a delivered final answer is `Tell`, every other step
  stutters.  `CreateOnce` admits that a caller is refused what was applied only when
  its sender, or a user the body names, has departed.

The assumptions are `CreateAssumption` and `NobodyAssumption`, which TLC
evaluates in the run.

`AmountProofs` proves of `DebtCache`, for arbitrary sets of writes of any kind and amount,
any number of requests, attempts and faults:

* `CacheTypes`: `Spec => []TypeOK`;
* `CacheInvariance`: `Spec => []IInv`.  That the cache lacks a cleared write only
  when its request was overtaken is not inductive, because the `Store` that
  breaks it was prepared three steps earlier.  `IInv` adds what a request in
  flight has read so far: it shows every cleared write its statements so far
  should have returned, or the DEL overtook it (`KeepsUp`); an update whose total it
  has seen is among the shares it reads afterwards (`ReadInOrder`); and a
  write's position says whether it is committed and clears at all (`WriterInv`,
  without which a share operation could be counted as cleared);
* `SettlementsClear`, `OnlyOvertakenIsStale`: the two safety invariants, from `IInv`;
* `FailuresAreExplained`: `Spec => FailureIsExplained`.  A 500 means totals that differ
  from their shares; by `ReadInOrder` no update is missing from the shares, so one is
  there that the totals do not have, or a share operation.

The assumptions are `KindAssumption`, `RaiseAssumption`, `BoundAssumption` and
`AnswerAssumption` (a failure is no summary), evaluated by TLC too.

It proves of `DebtSimplification`, for any finite set of members with any balances, and
of `Splits`, for any set of totals and values and any number of participants:

* `PlanTypes`, `PlanInvariance` and `PlansAreExact`: `PlanSpec => []PlanIsExact`.
  The invariant adds that the search works on balances that add up to zero (`StageInv`),
  that every transfer runs from a debtor to a creditor and closes the account of one of
  them (`ClosingInv`), and the count: each transfer closes an account and the last
  one two (`CountInv`).  From this follow the bound on their number and that
  nobody is overpaid.  That the check of the result never fails needs more:
  when one side is settled the other is, since what is open adds up to zero;
* `SplitInvariance`, `SharesAlwaysAddUp`, `RoundingStaysFair`, `PreviewsAreStored` and
  `ReceiptsArePaid`.  The protocol is short, and `SplitInv` only says which request preview
  and shares were computed from.  The work is in the lemmas about the operators:
  the units that rounding leaves over are at least none and fewer than the participants,
  so one each is enough (`PercentageRest`); the payers of an itemized expense pay, summed
  over payers, what its lines and extra amounts cost, summed over lines
  (`ItemizedAddsUp`, from `SumByKey` and `SumSwap`).

Both rest on sums over data.  The folds choose an element at every turn,
and the library's induction takes the statement as an operator, which the provers cannot
instantiate.  The module therefore states induction for sets: a set of numbers that
has 0 and successors has every number (`CountInduction`), a family of finite sets that
has a set whenever it has its strict subsets has all (`StrictInduction`), both from
minimal elements of well-founded relations.  From these follow that a sum exists, is
unique (`SumsUnique`, `SumsExist`) and does not depend on the element that is taken
first (`SumPick`); the rest of the lemmas on sums are its consequences.  The two models are in
one module because they share these lemmas, beside the cache of the summary that the
plan is a part of; the names of the three differ (`PlanSpec`, `SplitSpec`) and so do their variables, so no
theorem speaks of more than one of the three.  The assumptions are
`MemberAssumption`, `BalanceAssumption` and `SplitAssumption` (an itemized request
has finitely many assignments and extra amounts, and the mark of a refusal is no sequence
of shares), evaluated by TLC.

`ExpenseLedgerProofs` proves for any expenses, members and operations, any calls
in flight and any number of faults:

* `LedgerInvariance`: `Spec => []IInv`.  That no update is lost is a property of the
  step that commits, and follows only from what holds when it is taken: a call
  between its checks and its commit holds the row, and the row still is what the
  checks found (`LockInv`), although share operations and the commits of others do
  not look at it.  `PathInv` keeps the two handlers apart, `RowInv` says that what is
  deleted or settled was created, without which a creation could bring it back;
* `LedgerTypes`: `Spec => []TypeOK`;
* `UpdatesAreNotLost`: `Spec => NoLostUpdate`, from `LockInv`;
* `ClosedIsClosed`: `Spec => ClosedStaysClosed`.  Besides `IInv` it takes that a call
  about to commit has looked for settlements and remembers what it saw
  (`Applying`), and that settlements are not taken back (`SettledGrows`);
* `OperationsApplyOnce`: `Spec => []AppliedOnce`.  The operations of the feed's rows of an
  expense are its receipts, each once; the last row carries the time of the ledger's
  row; and a row of an update or a delete is later than all before it.
  `OnceInv` ties rows and receipts, with `QueueInv`: an operation is queued only for an
  expense the device has seen, so no write comes before the creation.  The order of
  times is not inductive, because a share operation writes a time it has read long
  before: `StampInv` and `ClockInv` say that every time in the ledger, in the
  feed and in the hands of a call that waits is one the clock has shown, so that whoever
  holds the row and reads the clock gets a later one;
* `FeedIsFaithful`: `Spec => []FeedReproducesLedger`.  What a device has after pulling is
  a recursive function of the feed, and the provers have no induction over data; but
  the feed grows only by steps, so the induction is over these.  `ViewInv` says that a
  function satisfying the recursion exists and that each such function ends, for an
  expense that was announced first and that no share operation touched, in the row of
  the ledger.  A step that appends a row continues it (`ViewGrows`); `CreationInv`
  adds that nothing is told of an expense before its creation and that version 1 is
  what it was created with, which is why a late announcement does no harm.

The assumption is `LedgerAssumption`; `IInv`, `QueueInv`, `ClockInv`, `OnceInv` and `CreationInv`
were also checked in the bounds of the `Ledger` run.

`TransactionSyncProofs` proves for any records, keys and requests, any batches of
any length and any clock:

* `SyncInvariance`: `Spec => []IInv`.  That an answer stays true is not inductive: an
  answer is made up statement by statement and given at the commit.  `IInv` says that
  every status collected so far is true of the rows the transaction sees
  (`ResultInv`); that a statement which found the row older, or not older, still knows
  it (`UnderwayInv`); that an uncommitted row is held by one transaction and newer
  than the committed one (`WroteInv`), so that a commit of another can only move a row
  forward (`Later`), which keeps true what was answered; and that whoever has inserted
  a claim is alone with its key (`ClaimInv`);
* `SyncTypes`, and `TruthLasts`, `ClaimsHaveOneAnswer`, `PullsMissNothing`: the three
  invariants of the run, from `IInv`.

The assumption is `SyncAssumption`: it says of the calls what the two schemas
admit (no delete in a claim, nothing invalid in a push).

`ReceiptsProofs` proves for any events, keys, deliveries and requests:

* `ReceiptInvariance`: `Spec => []IInv`.  That an event becomes one receipt needs that
  an uncommitted draft is the only row of its event (`HoldInv`) and that an event
  counted has both its row and its key (`EventInv`); that a decision stays needs that
  whoever decides and has not been overtaken still has a draft before it (`LateInv`);
  that the pull sees no receipt of the group needs that such a receipt is linked from
  the moment it exists (`ItemizeInv`, `ScanInv`);
* `ReceiptTypes`, and `EventsAreTakenOnce`, `RetriesAreAnswered`, `DecisionsAreFinal`,
  `PullsMissNothing`, `GroupReceiptsAreNotPulled`: the five invariants of the run.

The assumption is `ReceiptsAssumption`.

`AccountsProofs` proves for any requests, users, addresses, sessions, links,
identities and sets of operations:

* `AccountsInvariance`: `Spec => []IInv`.  None of the four properties is inductive:
  each is broken by a commit whose reads lie several statements back.  `IInv` says
  that a row is locked by one transaction (`ApartInv`); that a rotation still holds
  its session as it found it and that the key of its uncommitted replacement belongs
  to nobody else (`SessionOk`), a link that is being used is locked and unused
  (`LinkOk`), and a login or OAuth login knows the user it read or was raced
  (`LoginOk`); that the UPDATE of a revocation still has before it, or has locked,
  every usable session it is to end, but those that were being issued beside it
  (`RevocationOk`); and that inserted rows name inserted rows (`RowInv`), without
  which a new session could join an old family;
* `AccountTypes`, and `OneLiveEach`, `RevocationsEnd`, `LinksWorkOnce`,
  `IdentitiesAreVerified`: the four invariants of the run, from `IInv`.

A step leaves alone what other transactions know if it changes no row they hold,
takes no key they have chosen and raises no `era` unseen (`Frame`); the commits
are proved from four lemmas by what they do to sessions: nothing (`Plain`), one
is issued (`Issuing`), some end (`Closing`), all of a user end (`Ended`).  The
assumption is `AccountsAssumption`.

`GroupsProofs` proves for any users, groups, invitations and requests, and any
scenarios:

* `GroupsInvariance`: `Spec => []IInv`.  Each of the four properties is broken by a
  commit that relies on what was read before it.  `IInv` says that a transaction which
  has read the members still sees them as they are, or the group is marked as changed
  under it (`SeenOk`, `GroupOk`); the same of the plan an account deletion has made,
  group by group (`PlanOk`); that whoever is about to be removed, and everybody in a
  group about to be archived, is still settled (`SettledOk`); that an acceptance holds
  the row of its invitation, which is still pending (`AcceptOk`); that a request about to make a
  direct group knows of no other, or its pair counts as raced (`MakeOk`); and that the
  locks exclude each other (`LockInv`).  Around these are the four properties,
  strengthened: whoever is not in a group is settled there, also if
  he never was (`SettledInv`), and all direct groups of a pair are the same one
  (`PairInv`, from which the cardinality follows);
* `GroupsTypes`, and `OwnersStay`, `DeparturesAreSettled`, `InvitationsWorkOnce`,
  `DirectGroupsAreUnique`: the four invariants of the run, from `IInv`.

The commits are proved from lemmas by what they write: members of one group
(`Regrouping`), rows of no group (`Writing`), a new group (`Opening`); an account
deletion, which changes many groups at once, has a proof of its own.  The
assumption is `GroupsAssumption`: the group of a scenario has an owner.  The
proof found one fault of the model: a creation that commits while the deletion of
its owner's account is between its plan and its commit leaves a group without an
owner, so a creation has to count as a change of members, and the run has the
two side by side.

`GroupSyncProofs` proves for any expenses, edits of the user and of others, spare
keys, clocks and faults, any page size and number of attempts:

* `QueueInvariance`: `Spec => []IInv`.  `NoEditIsLost` counts the tasks of a record and
  says nothing of how they find each other: by the client key, which an update or a
  resolved conflict replaces, else by the id.  `IInv` says that a record is known by its id and by its
  client key (`RecordInv`), that a task in the queue names one record, which is the
  only one found by the task's key or id and waits with what the task has left in
  it, and that no two tasks in the queue name the same one (`QueueInv`).  That nothing
  else takes such a key needs the history of keys: an operation has one kind
  wherever its key occurs, on the device, on the way and in the feed
  (`UsesInv`), and a key still to be drawn occurs nowhere (`NewInv`).  That a task
  leaves the queue only when it is committed needs the push: while an answer is waited
  for it is the one to the task that is next, and an answer `done` means a
  receipt (`PushInv`, `TxInv`).  The rest is what pages, lists and dialogs
  hold (`ReadInv`, `RowInv`);
* `GroupSyncTypes`, and `EditsAreSafe`: `Spec => []NoEditIsLost`;
* `PullInvariance`: `Spec => [](IInv /\ PullInv)`.  `PulledIsCurrent` speaks of states
  at rest; `PullInv` follows a change from its commit over cursor and page to the
  record.
  - `ServerInv` says what a change in the feed tells of its expense: its newest version
    or an older one, the newest being there once any is, a deletion the last;
    numbers are drawn once.  A creation appends what it has read in a transaction
    of its own, so its change may be older than others in the feed, and while
    it is not there the expense has one version, on the device too (`UntoldInv`).
  - `ClaimInv` says that an operation is about one expense, with one body, wherever it
    occurs, and that a receipt means an expense or a change.  So an update that waits
    although the server has committed it can be compared with the expense: it holds
    what the server has, or the change that came in vain is missed.
  - `DeviceInv` says what names and stamps on the device mean (`NameInv`, `StampInv`),
    that every change within the horizon of the page is on it, or was given (`PageInv`),
    that an own expense is replaced when its creation is pulled or waits for an
    operation that will be refused (`CreateInv`, `AnswerInv`, `OwnInv`), and that an
    expense whose newest change was given, and is not among the missed, is stored or
    waits for an operation that agrees with the server (`PulledInv`);
* `PulledExpensesAreCurrent`: `Spec => []PulledIsCurrent`.

At rest nothing waits, the feed is behind the cursor and `NewestInv` gives the newest
change of every expense, so `PulledInv` says what the device shows.

The search for `PullInv` found the property false beyond the run's old bounds:
the other member's creation is committed but not yet appended, the device finds the
expense in the list and updates it with a slow clock, and the creation that comes
after that is stored over the update.  It now counts as missed, like a list that
was fetched earlier, and the run has a scenario of it.

The steps are proved by what they do to the records: some take a state and keep
their names (`Renewing`), a snapshot is stored unless something waits
(`Storing`), one record takes the place of another (`Replaced`), with a task queued
behind the others (`QueuedRecords`, `QueuedKeys`).  The server's steps are one lemma
(`Serving`): the device learns of them only by receipts and feed.  The assumption is
`GroupSyncAssumption`: the keys of operations are UUIDs, so those still to come differ
from each other, from the known ones and from ids of expenses; and the skew of the
clock is even, which leaves out that a stamp of the device and one of the server are
the same microsecond.

Each `IInv`, and `PullInv`, was also checked in the bounds of its run (`SplitInv` without the
membership of the request in the set it was taken from, which is too large to build at
every state).

Only model-checked: liveness (`EveryIntentIsAnswered`, `CommittedReachesFeed`,
`EventuallyCurrent`, `GroupIsSettled`, `EveryEditIsDecided`;
the prover does not do fairness).

## Where code and documents disagree

Two disagreements have a run:

* `LedgerSettlementRace`: the contract freezes the amounts of an expense once a
  settlement is recorded (docs/group_api_contract.md:1009); the check takes no
  lock that a settlement respects.
* `AccountDeletion`: "A later deletion retry can safely attempt Apple revocation
  again" (auth_service.py:260); the account is `deletion_pending`, its user can no
  longer log in and nothing else tries.

The following are stated in the modules and not run; add the definition to the
INVARIANTS of the run named to see the counterexample:

* `SameKeySameBodySameRecord` (`Create`): the same key and body return the same
  expense (docs/group_api_contract.md:761); once it is deleted, the replay ends in
  a `RuntimeError` (groups.py:167).  The app's queue retries it until its attempts
  are used up.
* `RetriesAgree` (`Ledger`): pushes are idempotent (PRD.md:220); the receipt is
  not looked up again after the wait for the row (sync.py:288), so a
  retransmission can be told `version_mismatch` for an operation that was applied.
* `FreshAfterSettlement` (`CacheConsistency`): a settlement clears the cache and
  the current summary is shown (PRD.md:162, 276); a request that was computing at
  the time stores its older summary afterwards (debt_summary_cache.py:75), and
  the key carries no version.
* `FailsOnlyOnInvalidLedger` (`CacheConsistency`): the error for balances that do
  not add up (domain/debts.py:18) is reached with a ledger that does, when an
  update commits between two of the statements (debt_summary_service.py:49).
* `GroupHasOwner` (`Groups`): a group never has no owner
  (docs/group_api_contract.md:709); an acceptance or the deletion of an account
  that overlaps a departure or a role change takes the last one.
* `AcceptedFriendIsListed` (`Groups`): a missing entry is called impossible
  (friend_invitation_service.py:155).  `get_direct_group` (repositories/groups.py:116)
  does not ask whether the direct group is archived, DELETE /groups/{id} archives
  direct groups like any other, and `list_friends` leaves archived ones out: after
  an archive the next accepted invitation of the two is used up and ends in a
  `RuntimeError`, and as nothing unarchives a group they can never be friends again.
* `PullReturnsChanges` (`TransactionSync`): a pull with the cursor returns the
  changes of other devices (implementation_plan.md:218); a change that was stamped
  before a page and committed after it is never returned.

The models show more, which is built into the statement of a property as its
exception:

* the same key and body return the same expense (docs/group_api_contract.md:761); the
  membership is checked first (sync.py:676), so the retry of a committed create is
  answered 403 once its sender has left, which the queue takes as final.
  `NoMixedAnswers` and `CreateOnce` except departures.  If the first request died before
  its second transaction, nobody appends the change any more and the expense never
  reaches the feed: `CommittedReachesFeed` excepts it;
* stale data must not overwrite (PRD.md:221); a share operation compares versions
  on a row it has not locked, so `NoLostUpdate` is about updates and deletes.
  It also stamps `updated_at` before it waits for the row (sync.py:597), so it can set it
  back below the time of a mutation that committed meanwhile, and a device that
  pulled the mutation drops the change as old: `AppliedOnce` orders the times of
  updates and deletes only.
  Share operations can also write to an expense that was just deleted
  (`ClosedStaysClosed`), and leave shares that do not add up (PRD.md:202), after
  which no summary of the group can be computed;
* the cache is to be cleared after every successful expense (PRD.md:214); for
  expenses this is best effort, and a replayed create does not try:
  `AcceptedSettlementIsCleared` is about settlements;
* the spare unit of a percentage split is to be reproducible on every platform
  (group_expense_service.py:121); the app passes over participants with 0 %, the
  backend does not: `PreviewIsStored` is about percentages above zero;
* a session that is being issued while all sessions of its user are revoked
  survives (`raced` in `Accounts`);
* the sole owner who deletes the account is to be replaced
  (docs/group_api_contract.md:429); the code promotes an heir when there is another
  owner too.  A direct group has exactly two members
  (docs/groups_friends_activity_api_contract.md:63); an invitation to it makes three,
  and two requests at once make two groups of one pair (`twins`);
* an offline mutation can move the balance of a member who is leaving (`drift`);
* a delete pushed before its record arrives leaves no tombstone and the late
  record stands (`orphans` in `TransactionSync`);
* a draft that is decided otherwise is a 404 (docs/n8n_webhook_contract.md:186-189);
  an approval and a rejection at once are both answered with success (`raced` in
  `Receipts`).  An event sent under a second key is answered 500 for ever, which
  the contract (:124) calls transient.  A receipt approved behind the cursor is not
  pulled, and one a device has pulled as personal stays there when an expense takes
  it over.

What `PulledIsCurrent` leaves out is what a device does not get right:

* a change committed behind the cursor, because numbers are drawn at the insert, is
  missed until the app is restarted;
* the own creation is shown a second time, under the id the device gave it, when
  an update of another member or a refresh has stored the expense before the
  creation itself is pulled;
* a change that is pulled while the record waits for an operation the server has
  already committed (its answer was lost) is dropped;
* a device clock that is ahead makes the record newer than the server's snapshots,
  which are dropped; the next edit of it is a conflict;
* a list fetched before a change was pulled and stored after it, by the refresh or
  by "use server version", overwrites it;
* a creation whose change is appended late is stored over what the device has been
  given since: it brings a deleted expense back, and takes back an own update
  that a slow clock has stamped before the creation.

A restart empties `missed` and pulls the feed from its start; what fails again is
missed again.

An own expense that is edited or deleted before its creation was pulled is always
refused as a conflict, since the server does not know the device's id of it.  A
manual retry requeues the failed operations of every account that used the device
(group_expense_offline_repository.dart:325).

A plan of payments is short, but plans are not consistent with each other: when
members pay suggestions out of order, the payments made and those still suggested
can exceed the number of transfers the first plan had.  Nothing in the repository
promises otherwise.

## Plan

Done, in this order: `IdempotentCreate` and `ExpenseLedger` with their proofs,
`DebtCache`, `DebtSimplification`, `Splits`, `Accounts`, `Groups`, `TransactionSync`,
`Receipts` and `GroupSync` with their proofs.

Left, in order of importance:

1. shares and settlements in the queue of the device, and a second account on it;
2. the client's refresh of its tokens: one refresh at a time, a lost answer after a
   rotation, an answer after the logout (`core/network/api_client.dart`);
3. an abstract specification of a replica that follows the ledger, with the
   exceptions of `PulledIsCurrent` repaired.

## Not modelled

* Receipt parser and assistant: calls of language models over a text or over
  read-only queries; nothing is written but what `Receipts` has.
* Rate limits and upload guard: one atomic script per request in Redis.
* Activity log: rows appended in the transaction of the step they describe.
* Local finance database beyond the two collections of `GroupSync`: single-writer
  transactions of one process.
* Scanner, screens, theme, notifications: no protocol.
* Migrations and deployment: the constraints they create are in the models that
  rely on them.
* Inside the modelled components: formatting and wording, renaming of groups and
  avatars, lists that only read, permissions beyond membership in `IdempotentCreate`; permissions,
  membership and itemized lines in `ExpenseLedger` and `GroupSync` (they refuse a request
  before it touches the state modelled; what an expired membership makes of a retry is in
  `IdempotentCreate`), the token
  checks of the OAuth providers and the sending of e-mails.
