----------------------------- MODULE DebtCache ------------------------------
(* The debt summary of one group and its cache in Redis                     *)
(* (backend/app/services/debt_summary_cache.py, debt_summary_service.py and *)
(* the endpoints that read and clear it). A request looks the summary up,   *)
(* computes it on a miss with one statement each for expenses, shares and   *)
(* settlements, and stores it. A write commits and then deletes the key.    *)
(* The database is read at READ COMMITTED: every statement sees what is     *)
(* committed when it runs. Redis commands may fail, handlers may die.       *)
(*                                                                         *)
(* The ledger is the set of writes committed so far. Different writes       *)
(* concern different expenses: ExpenseLedger has the contention on one.     *)
EXTENDS Integers, FiniteSets, FiniteSetsExt

CONSTANTS
    Write,        \* the writes that may be made, each once
    Kind,         \* Kind[w]: what a write does
    Raise,        \* Raise[w]: by how much it changes a total (a share write: a share)
    Reader,       \* requests for the summary, each repeated without end
    MaxAttempts,  \* DELs one invalidation tries before it gives up
    MaxFaults,    \* failed Redis commands and dead handlers altogether
    None,         \* no cached summary, no answer yet
    Failed        \* the answer 500

Kinds == {"create", "update", "delete", "share", "settle"}

ASSUME KindAssumption == Kind \in [Write -> Kinds]
ASSUME RaiseAssumption == Raise \in [Write -> Int]
ASSUME BoundAssumption == MaxAttempts \in Nat \ {0} /\ MaxFaults \in Nat

Of(kinds) == {w \in Write : Kind[w] \in kinds}

\* What the three statements returned, and the writes whose DEL took effect
\* while the summary was computed (kept for the properties).
Summary ==
    [expenses : SUBSET Of({"create", "update", "delete"}),
     shares : SUBSET Of({"update", "share"}),
     settlements : SUBSET Of({"settle"}),
     overtaken : SUBSET Write]

ASSUME AnswerAssumption == Failed \notin Summary \union {None}

Nothing == [expenses |-> {}, shares |-> {}, settlements |-> {}, overtaken |-> {}]

VARIABLES
    committed,  \* the writes in the database
    cache,      \* the value of the group's key, None when there is none
    reader,     \* reader[r]: where the request is and what it has read
    answer,     \* answer[r]: what its last request was answered with
    owed,       \* owed[r]: settlements accepted when its last request began
    writer,     \* writer[w]: where the write's request is, and its DEL attempt
    cleared,    \* the writes whose DEL took effect after they committed
    faults      \* faults so far

vars == <<committed, cache, reader, answer, owed, writer, cleared, faults>>
readerVars == <<reader, answer, owed>>

Init ==
    /\ committed = {}
    /\ cache = None
    /\ reader = [r \in Reader |-> [at |-> "idle", read |-> Nothing]]
    /\ answer = [r \in Reader |-> None]
    /\ owed = [r \in Reader |-> {}]
    /\ writer = [w \in Write |-> [at |-> "new", attempt |-> 1]]
    /\ cleared = {}
    /\ faults = 0

-----------------------------------------------------------------------------
(* Writes. *)

\* The writes whose requests end in a DEL: everything but the share
\* operations, which commit and answer.
Invalidates(w) == Kind[w] # "share"

\* A repeated request finds the write done. The replay of a settlement, an
\* update or a deletion clears the cache again; the replay of a create does not.
ReplayInvalidates(w) == Kind[w] \notin {"create", "share"}

Goto(w, where) == writer' = [writer EXCEPT ![w] = [at |-> where, attempt |-> 1]]

Computing(r) == reader[r].at # "idle"

Commit(w) ==
    /\ writer[w].at = "new"
    /\ committed' = committed \union {w}
    /\ Goto(w, IF Invalidates(w) THEN "invalidating" ELSE "accepted")
    /\ UNCHANGED <<cache, reader, answer, owed, cleared, faults>>

\* Mutant: the DEL goes to another key than the one that is read.
ClearAnotherKey(w) == cleared' = cleared \union {w} /\ UNCHANGED <<cache, reader>>

\* The DEL takes effect.
Clear(w) ==
    /\ cache' = None
    /\ cleared' = cleared \union {w}
    /\ reader' = [r \in Reader |->
                    IF Computing(r)
                    THEN [reader[r] EXCEPT !.read.overtaken = @ \union {w}]
                    ELSE reader[r]]

Delete(w) ==
    /\ writer[w].at = "invalidating"
    /\ Clear(w)
    /\ Goto(w, "accepted")
    /\ UNCHANGED <<committed, answer, owed, faults>>

\* Mutant: a settlement that could not clear the cache is acknowledged.
BestEffortForAll(w) == "accepted"

\* What the request does when the last attempt has failed: a settlement is
\* answered 503, the others as if nothing had happened.
GiveUp(w) == IF Kind[w] = "settle" THEN "pending" ELSE "accepted"

LastAttempt(w) == writer[w].attempt = MaxAttempts

\* The DEL raises: it was not carried out, or its reply was lost.
DeleteFails(w) ==
    /\ writer[w].at = "invalidating"
    /\ faults < MaxFaults
    /\ faults' = faults + 1
    /\ \/ UNCHANGED <<cache, cleared, reader>>
       \/ Clear(w)
    /\ \/ /\ ~LastAttempt(w)
          /\ writer' = [writer EXCEPT ![w].attempt = @ + 1]
       \/ /\ LastAttempt(w)
          /\ Goto(w, GiveUp(w))
    /\ UNCHANGED <<committed, answer, owed>>

\* The handler dies between its commit and its answer.
Die(w) ==
    /\ writer[w].at = "invalidating"
    /\ faults < MaxFaults
    /\ faults' = faults + 1
    /\ Goto(w, "lost")
    /\ UNCHANGED <<committed, cache, readerVars, cleared>>

\* The client sends the same request again after a 503 or no answer.
Repeat(w) ==
    /\ writer[w].at \in {"pending", "lost"}
    /\ Goto(w, IF ReplayInvalidates(w) THEN "invalidating" ELSE "accepted")
    /\ UNCHANGED <<committed, cache, readerVars, cleared, faults>>

-----------------------------------------------------------------------------
(* Requests for the summary. *)

AcceptedSettlements == {w \in Of({"settle"}) : writer[w].at = "accepted"}

Advance(r, place, read) ==
    reader' = [reader EXCEPT ![r] = [at |-> place, read |-> read]]

StartComputing(r) ==
    /\ Advance(r, "expenses", Nothing)
    /\ answer' = [answer EXCEPT ![r] = None]

Answer(r, a) ==
    /\ Advance(r, "idle", Nothing)
    /\ answer' = [answer EXCEPT ![r] = a]

\* A hit is answered as it is.
Lookup(r) ==
    /\ reader[r].at = "idle"
    /\ owed' = [owed EXCEPT ![r] = AcceptedSettlements]
    /\ \/ /\ cache # None
          /\ Answer(r, cache)
       \/ /\ cache = None
          /\ StartComputing(r)
    /\ UNCHANGED <<committed, cache, writer, cleared, faults>>

\* A GET that fails counts as a miss.
LookupFails(r) ==
    /\ reader[r].at = "idle"
    /\ faults < MaxFaults
    /\ faults' = faults + 1
    /\ owed' = [owed EXCEPT ![r] = AcceptedSettlements]
    /\ StartComputing(r)
    /\ UNCHANGED <<committed, cache, writer, cleared>>

ReadExpenses(r) ==
    /\ reader[r].at = "expenses"
    /\ Advance(r, "shares",
               [reader[r].read EXCEPT
                  !.expenses = committed \intersect Of({"create", "update", "delete"})])
    /\ UNCHANGED <<committed, cache, answer, owed, writer, cleared, faults>>

\* The shares of the expenses just returned: a create or a deletion that
\* commits in between makes no difference, a changed share does.
ReadShares(r) ==
    /\ reader[r].at = "shares"
    /\ Advance(r, "settlements",
               [reader[r].read EXCEPT
                  !.shares = committed \intersect Of({"update", "share"})])
    /\ UNCHANGED <<committed, cache, answer, owed, writer, cleared, faults>>

TotalRaise(writes) == MapThenSumSet(LAMBDA w : Raise[w], writes)

\* Payments of a summary equal its shares, so the balances add up to zero.
\* A create or a deletion contributes the same to both sides.
Balanced(s) ==
    TotalRaise(s.expenses \intersect Of({"update"})) = TotalRaise(s.shares)

\* Mutant: a settlement is credited to its payer and not charged to its receiver.
OneSided(s) == Balanced(s) /\ s.settlements = {}

\* _validate: raises unless the balances add up to zero.
Valid(s) == Balanced(s)

\* The summary is built only when the balances add up; otherwise the
\* exception reaches the caller as a 500.
ReadSettlements(r) ==
    LET read == [reader[r].read EXCEPT !.settlements = committed \intersect Of({"settle"})]
    IN  /\ reader[r].at = "settlements"
        /\ \/ /\ Valid(read)
              /\ Advance(r, "storing", read)
              /\ UNCHANGED answer
           \/ /\ ~Valid(read)
              /\ Answer(r, Failed)
        /\ UNCHANGED <<committed, cache, owed, writer, cleared, faults>>

Store(r) ==
    /\ reader[r].at = "storing"
    /\ cache' = reader[r].read
    /\ Answer(r, reader[r].read)
    /\ UNCHANGED <<committed, owed, writer, cleared, faults>>

\* A SET that fails is ignored; it may have been carried out.
StoreFails(r) ==
    /\ reader[r].at = "storing"
    /\ faults < MaxFaults
    /\ faults' = faults + 1
    /\ cache' \in {cache, reader[r].read}
    /\ Answer(r, reader[r].read)
    /\ UNCHANGED <<committed, owed, writer, cleared>>

\* Mutant: the key is stored without a time to live.
NoTimeToLive == FALSE /\ UNCHANGED vars

\* The key lives for ttl_seconds; how long that is compared with anything
\* else is left open.
Expire ==
    /\ cache # None
    /\ cache' = None
    /\ UNCHANGED <<committed, readerVars, writer, cleared, faults>>

Next ==
    \/ \E w \in Write :
          Commit(w) \/ Delete(w) \/ DeleteFails(w) \/ Die(w) \/ Repeat(w)
    \/ \E r \in Reader :
          \/ Lookup(r) \/ LookupFails(r)
          \/ ReadExpenses(r) \/ ReadShares(r) \/ ReadSettlements(r)
          \/ Store(r) \/ StoreFails(r)
    \/ Expire

Spec == Init /\ [][Next]_vars

\* The key expires. Nothing else is promised: no write has to be made, no
\* request has to be repeated, and a handler may be stuck for ever.
FairSpec == Spec /\ WF_vars(Expire)

-----------------------------------------------------------------------------
(* Properties. *)

TypeOK ==
    /\ committed \subseteq Write
    /\ cache \in Summary \union {None}
    /\ reader \in [Reader -> [at : {"idle", "expenses", "shares", "settlements", "storing"},
                              read : Summary]]
    /\ answer \in [Reader -> Summary \union {None, Failed}]
    /\ owed \in [Reader -> SUBSET Of({"settle"})]
    /\ writer \in [Write -> [at : {"new", "invalidating", "accepted", "pending", "lost"},
                             attempt : 1..MaxAttempts]]
    /\ cleared \subseteq committed
    /\ faults \in 0..MaxFaults

\* A request for the summary is answered 500 only if the shares it has read are
\* not those of the totals it has read: a share operation has changed one of
\* them, or an update was committed between the two statements.  Whatever else
\* commits or is settled meanwhile, the balances add up.
FailureIsExplained ==
    [][\A r \in Reader :
          answer'[r] = Failed /\ answer[r] # Failed =>
             \E w \in reader[r].read.shares :
                Kind[w] = "share" \/ w \notin reader[r].read.expenses]_vars

\* A settlement acknowledged with 201 or 200 has had its DEL carried out, be it
\* by the first request or by a repeated one; one answered 503 may have not.
AcceptedSettlementIsCleared ==
    \A w \in Of({"settle"}) : writer[w].at = "accepted" => w \in cleared

Shows(s, w) ==
    CASE Kind[w] \in {"create", "delete"} -> w \in s.expenses
      [] Kind[w] = "update" -> w \in s.expenses /\ w \in s.shares
      [] Kind[w] = "share" -> w \in s.shares
      [] Kind[w] = "settle" -> w \in s.settlements

\* Once a write's DEL has taken effect, the cache misses the write only if the
\* request that stored the summary was computing it at the moment of the DEL:
\* nothing older survives and nobody who starts later stores anything older.
StaleOnlyWhenOvertaken ==
    cache # None =>
        \A w \in cleared : Shows(cache, w) \/ w \in cache.overtaken

\* The inductive invariant. A request keeps up with the DELs: whatever it has
\* read so far shows every cleared write of that sort, or the DEL overtook it.
KeepsUp(r) ==
    LET read == reader[r].read
        Known(kinds, seen) ==
            \A w \in cleared : Kind[w] \in kinds => w \in seen \/ w \in read.overtaken
    IN  /\ reader[r].at \in {"shares", "settlements", "storing"} =>
                Known({"create", "update", "delete"}, read.expenses)
        /\ reader[r].at \in {"settlements", "storing"} =>
                Known({"update"}, read.shares)
        /\ reader[r].at = "storing" => Known({"settle"}, read.settlements)

\* A write's request goes on only after its commit, and only the requests that
\* clear the cache at all wait for a DEL or have one behind them.
WriterInv ==
    /\ \A w \in Write : writer[w].at # "new" => w \in committed
    /\ \A w \in Write :
          writer[w].at \in {"invalidating", "pending", "lost"} => Invalidates(w)
    /\ \A w \in cleared : Invalidates(w)

\* Totals are read before their shares: an update whose total was seen is
\* committed, and its shares are seen after that.
ReadInOrder ==
    \A r \in Reader :
        /\ reader[r].read.expenses \subseteq committed
        /\ reader[r].at = "settlements" =>
              reader[r].read.expenses \intersect Of({"update"}) \subseteq reader[r].read.shares

\* The properties above, and what a request in flight must satisfy for them to
\* survive its store.
IInv ==
    /\ TypeOK
    /\ WriterInv
    /\ AcceptedSettlementIsCleared
    /\ \A r \in Reader : KeepsUp(r)
    /\ StaleOnlyWhenOvertaken
    /\ ReadInOrder

\* When writes have stopped, the cache ends up without a summary of an older
\* ledger for good, whatever was missed, lost or overtaken before.
EventuallyCurrent ==
    <>[](cache # None => \A w \in committed : Shows(cache, w))

\* A request that begins after a settlement was acknowledged is answered with
\* a summary that contains the settlement.
FreshAfterSettlement ==
    \A r \in Reader :
        answer[r] \notin {None, Failed} =>
            \A w \in owed[r] : Shows(answer[r], w)

\* The summary fails only if the ledger itself does not add up.
FailsOnlyOnInvalidLedger ==
    (\E r \in Reader : answer[r] = Failed) => Of({"share"}) \intersect committed # {}

=============================================================================
