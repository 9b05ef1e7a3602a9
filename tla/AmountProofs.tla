---------------------------- MODULE AmountProofs ----------------------------
(* Proofs about the amounts a group sees and pays: about the summary that is *)
(* served (DebtCache) for any writes, requests and numbers of faults; about  *)
(* the plan of payments (DebtSimplification) for any members and balances;   *)
(* and about the shares of an expense (Splits) for any totals, participants  *)
(* and itemized requests.  The variables of the three are disjoint: no       *)
(* theorem speaks of more than one of them.                                  *)
EXTENDS DebtCache, DebtSimplification, Splits, FiniteSetTheorems, WellFoundedInduction, TLAPS

(* The summary and its cache.                                                *)

Places == {"idle", "expenses", "shares", "settlements", "storing"}
Request == [at : Places, read : Summary]
Progress == [at : {"new", "invalidating", "accepted", "pending", "lost"},
             attempt : 1..MaxAttempts]

-----------------------------------------------------------------------------
(* What the building blocks of the actions do.                             *)

LEMMA Kinded == \A w \in Write : Kind[w] \in Kinds
  BY KindAssumption

LEMMA FirstAttempt == 1 \in 1..MaxAttempts
  BY BoundAssumption

LEMMA NothingType == Nothing \in Summary
  BY DEF Nothing, Summary

LEMMA GotoEffect ==
    ASSUME writer \in [Write -> Progress], NEW w \in Write,
           NEW where \in {"new", "invalidating", "accepted", "pending", "lost"},
           Goto(w, where)
    PROVE  /\ writer' \in [Write -> Progress]
           /\ writer'[w].at = where
           /\ \A v \in Write : v # w => writer'[v] = writer[v]
<1>1. [at |-> where, attempt |-> 1] \in Progress
  BY FirstAttempt DEF Progress
<1>2. QED
  BY <1>1 DEF Goto

LEMMA ClearEffect ==
    ASSUME reader \in [Reader -> Request], NEW w \in Write, Clear(w)
    PROVE  /\ cache' = None
           /\ cleared' = cleared \union {w}
           /\ reader' \in [Reader -> Request]
           /\ \A r \in Reader :
                 /\ reader'[r].at = reader[r].at
                 /\ reader'[r].read.expenses = reader[r].read.expenses
                 /\ reader'[r].read.shares = reader[r].read.shares
                 /\ reader'[r].read.settlements = reader[r].read.settlements
                 /\ reader[r].at # "idle" =>
                       reader'[r].read.overtaken = reader[r].read.overtaken \union {w}
<1>1. ASSUME NEW r \in Reader, Computing(r)
      PROVE  LET q == reader[r]
                 p == [q EXCEPT !.read.overtaken = @ \union {w}]
             IN  /\ p \in Request
                 /\ p.at = q.at
                 /\ p.read.expenses = q.read.expenses
                 /\ p.read.shares = q.read.shares
                 /\ p.read.settlements = q.read.settlements
                 /\ p.read.overtaken = q.read.overtaken \union {w}
  <2>1. reader[r] \in Request /\ reader[r].read \in Summary
    BY DEF Request
  <2>2. [reader[r].read EXCEPT !.overtaken = @ \union {w}] \in Summary
    BY <2>1 DEF Summary
  <2>3. QED
    BY <2>1, <2>2 DEF Request, Summary
<1>2. QED
  BY <1>1 DEF Clear, Computing

LEMMA AnswerEffect ==
    ASSUME reader \in [Reader -> Request],
           answer \in [Reader -> Summary \union {None, Failed}],
           NEW r \in Reader, NEW a \in Summary \union {None, Failed}, Answer(r, a)
    PROVE  /\ reader' \in [Reader -> Request]
           /\ answer' \in [Reader -> Summary \union {None, Failed}]
           /\ reader'[r].at = "idle" /\ reader'[r].read = Nothing /\ answer'[r] = a
           /\ \A s \in Reader : s # r => reader'[s] = reader[s] /\ answer'[s] = answer[s]
<1>1. [at |-> "idle", read |-> Nothing] \in Request
  BY NothingType DEF Request, Places
<1>2. QED
  BY <1>1 DEF Answer, Advance

LEMMA StartEffect ==
    ASSUME reader \in [Reader -> Request],
           answer \in [Reader -> Summary \union {None, Failed}],
           NEW r \in Reader, StartComputing(r)
    PROVE  /\ reader' \in [Reader -> Request]
           /\ answer' \in [Reader -> Summary \union {None, Failed}]
           /\ reader'[r].at = "expenses" /\ reader'[r].read = Nothing /\ answer'[r] = None
           /\ \A s \in Reader : s # r => reader'[s] = reader[s] /\ answer'[s] = answer[s]
<1>1. [at |-> "expenses", read |-> Nothing] \in Request
  BY NothingType DEF Request, Places
<1>2. QED
  BY <1>1 DEF StartComputing, Advance

\* One step of the computation: only the request itself moves, to "place", and
\* keeps what it knew about DELs.
Advances(r, place) ==
    /\ reader' \in [Reader -> Request]
    /\ reader'[r].at = place
    /\ reader'[r].read.overtaken = reader[r].read.overtaken
    /\ \A s \in Reader : s # r => reader'[s] = reader[s]

LEMMA ReadExpensesEffect ==
    ASSUME reader \in [Reader -> Request], NEW r \in Reader, ReadExpenses(r)
    PROVE  /\ Advances(r, "shares")
           /\ reader'[r].read.expenses =
                committed \intersect Of({"create", "update", "delete"})
<1>1. reader[r] \in Request /\ reader[r].read \in Summary
  BY DEF Request
<1>2. DEFINE read == [reader[r].read EXCEPT
                        !.expenses = committed \intersect Of({"create", "update", "delete"})]
<1>3. read \in Summary /\ read.overtaken = reader[r].read.overtaken
      /\ read.expenses = committed \intersect Of({"create", "update", "delete"})
  BY <1>1 DEF Summary
<1>4. reader' = [reader EXCEPT ![r] = [at |-> "shares", read |-> read]]
  BY DEF ReadExpenses, Advance
<1>5. [at |-> "shares", read |-> read] \in Request
  BY <1>3 DEF Request, Places
<1>6. QED
  BY <1>3, <1>4, <1>5 DEF Advances

LEMMA ReadSharesEffect ==
    ASSUME reader \in [Reader -> Request], NEW r \in Reader, ReadShares(r)
    PROVE  /\ Advances(r, "settlements")
           /\ reader'[r].read.expenses = reader[r].read.expenses
           /\ reader'[r].read.shares = committed \intersect Of({"update", "share"})
<1>1. reader[r] \in Request /\ reader[r].read \in Summary
  BY DEF Request
<1>2. DEFINE read == [reader[r].read EXCEPT
                        !.shares = committed \intersect Of({"update", "share"})]
<1>3. read \in Summary /\ read.overtaken = reader[r].read.overtaken
      /\ read.expenses = reader[r].read.expenses
      /\ read.shares = committed \intersect Of({"update", "share"})
  BY <1>1 DEF Summary
<1>4. reader' = [reader EXCEPT ![r] = [at |-> "settlements", read |-> read]]
  BY DEF ReadShares, Advance
<1>5. [at |-> "settlements", read |-> read] \in Request
  BY <1>3 DEF Request, Places
<1>6. QED
  BY <1>3, <1>4, <1>5 DEF Advances

\* Either the summary is complete, or it does not add up and the caller gets a 500.
LEMMA ReadSettlementsEffect ==
    ASSUME reader \in [Reader -> Request], NEW r \in Reader, ReadSettlements(r)
    PROVE  \/ /\ Advances(r, "storing")
              /\ reader'[r].read.expenses = reader[r].read.expenses
              /\ reader'[r].read.shares = reader[r].read.shares
              /\ reader'[r].read.settlements = committed \intersect Of({"settle"})
              /\ UNCHANGED answer
           \/ Answer(r, Failed) /\ ~Balanced(reader[r].read)
<1>1. reader[r] \in Request /\ reader[r].read \in Summary
  BY DEF Request
<1>2. DEFINE read == [reader[r].read EXCEPT !.settlements = committed \intersect Of({"settle"})]
<1>3. read \in Summary /\ read.overtaken = reader[r].read.overtaken
      /\ read.expenses = reader[r].read.expenses
      /\ read.shares = reader[r].read.shares
      /\ read.settlements = committed \intersect Of({"settle"})
  BY <1>1 DEF Summary
<1>4. [at |-> "storing", read |-> read] \in Request
  BY <1>3 DEF Request, Places
<1>5. Balanced(read) <=> Balanced(reader[r].read)
  BY <1>3 DEF Balanced
<1>6. CASE /\ reader' = [reader EXCEPT ![r] = [at |-> "storing", read |-> read]]
           /\ UNCHANGED answer
  <2>1. reader'[r] = [at |-> "storing", read |-> read]
    BY <1>6
  <2>2. Advances(r, "storing")
    BY <1>3, <1>4, <1>6, <2>1 DEF Advances
  <2>3. QED
    BY <1>3, <1>6, <2>1, <2>2
<1>7. CASE Answer(r, Failed) /\ ~Balanced(read)
  BY <1>5, <1>7
<1>8. QED
  BY <1>6, <1>7 DEF ReadSettlements, Valid, Advance

-----------------------------------------------------------------------------
(* The invariant holds initially.                                          *)

LEMMA InitIInv == Init => IInv
<1> SUFFICES ASSUME Init PROVE IInv
  OBVIOUS
<1>1. TypeOK
  BY NothingType, FirstAttempt, BoundAssumption DEF Init, TypeOK
<1>2. WriterInv /\ AcceptedSettlementIsCleared
  BY DEF Init, WriterInv, AcceptedSettlementIsCleared, Of
<1>3. (\A r \in Reader : KeepsUp(r)) /\ ReadInOrder
  BY DEF Init, KeepsUp, ReadInOrder, Nothing
<1>4. StaleOnlyWhenOvertaken
  BY DEF Init, StaleOnlyWhenOvertaken
<1>5. QED
  BY <1>1, <1>2, <1>3, <1>4 DEF IInv

-----------------------------------------------------------------------------
(* Writes preserve the invariant.                                          *)

LEMMA TypeParts ==
    TypeOK <=> /\ committed \subseteq Write
               /\ cache \in Summary \union {None}
               /\ reader \in [Reader -> Request]
               /\ answer \in [Reader -> Summary \union {None, Failed}]
               /\ owed \in [Reader -> SUBSET Of({"settle"})]
               /\ writer \in [Write -> Progress]
               /\ cleared \subseteq committed
               /\ faults \in 0..MaxFaults
  BY DEF TypeOK, Request, Places, Progress

LEMMA TypePartsPrime ==
    TypeOK' <=> /\ committed' \subseteq Write
                /\ cache' \in Summary \union {None}
                /\ reader' \in [Reader -> Request]
                /\ answer' \in [Reader -> Summary \union {None, Failed}]
                /\ owed' \in [Reader -> SUBSET Of({"settle"})]
                /\ writer' \in [Write -> Progress]
                /\ cleared' \subseteq committed'
                /\ faults' \in 0..MaxFaults
  BY DEF TypeOK, Request, Places, Progress

LEMMA OneMoreFault ==
    ASSUME faults \in 0..MaxFaults, faults < MaxFaults, faults' = faults + 1
    PROVE  faults' \in 0..MaxFaults
  BY BoundAssumption

\* Nothing the requests and the cache are judged by has changed.
LEMMA RequestsUntouched ==
    ASSUME IInv, UNCHANGED <<cache, reader, cleared>>, committed \subseteq committed'
    PROVE  /\ \A r \in Reader : KeepsUp(r)'
           /\ StaleOnlyWhenOvertaken'
           /\ ReadInOrder'
<1>1. \A r \in Reader : KeepsUp(r)'
  BY DEF IInv, KeepsUp
<1>2. StaleOnlyWhenOvertaken'
  BY DEF IInv, StaleOnlyWhenOvertaken
<1>3. ReadInOrder'
  BY DEF IInv, ReadInOrder, Of
<1>4. QED
  BY <1>1, <1>2, <1>3

\* A DEL that takes effect leaves no summary behind, and every request that is
\* computing one learns of it.
LEMMA RequestsCleared ==
    ASSUME IInv, NEW w \in Write, Clear(w), UNCHANGED committed
    PROVE  /\ \A r \in Reader : KeepsUp(r)'
           /\ StaleOnlyWhenOvertaken'
           /\ ReadInOrder'
<1>1. /\ cache' = None
      /\ cleared' = cleared \union {w}
      /\ \A r \in Reader :
            /\ reader'[r].at = reader[r].at
            /\ reader'[r].read.expenses = reader[r].read.expenses
            /\ reader'[r].read.shares = reader[r].read.shares
            /\ reader'[r].read.settlements = reader[r].read.settlements
            /\ reader[r].at # "idle" =>
                  reader'[r].read.overtaken = reader[r].read.overtaken \union {w}
  BY TypeParts, ClearEffect DEF IInv
<1>2. ASSUME NEW r \in Reader PROVE KeepsUp(r)'
  BY <1>1 DEF IInv, KeepsUp
<1>3. StaleOnlyWhenOvertaken'
  BY <1>1 DEF StaleOnlyWhenOvertaken
<1>4. ReadInOrder'
  BY <1>1 DEF IInv, ReadInOrder, Of
<1>5. QED
  BY <1>2, <1>3, <1>4

LEMMA StepCommit ==
    ASSUME IInv, NEW w \in Write, Commit(w)
    PROVE  IInv'
<1> DEFINE where == IF Invalidates(w) THEN "invalidating" ELSE "accepted"
<1>1. /\ writer[w].at = "new" /\ committed' = committed \union {w}
      /\ Goto(w, where) /\ UNCHANGED <<cache, reader, answer, owed, cleared, faults>>
  BY DEF Commit
<1>2. /\ writer' \in [Write -> Progress]
      /\ writer'[w].at = where
      /\ \A v \in Write : v # w => writer'[v] = writer[v]
  BY <1>1, TypeParts, GotoEffect DEF IInv
<1>3. TypeOK'
  BY <1>1, <1>2, TypeParts, TypePartsPrime DEF IInv
<1>4. WriterInv'
  BY <1>1, <1>2 DEF IInv, WriterInv, Invalidates
<1>5. AcceptedSettlementIsCleared'
  BY <1>1, <1>2 DEF IInv, AcceptedSettlementIsCleared, Invalidates, Of
<1>6. QED
  BY <1>1, <1>3, <1>4, <1>5, RequestsUntouched DEF IInv

LEMMA StepDelete ==
    ASSUME IInv, NEW w \in Write, Delete(w)
    PROVE  IInv'
<1>1. /\ writer[w].at = "invalidating" /\ Clear(w) /\ Goto(w, "accepted")
      /\ UNCHANGED <<committed, answer, owed, faults>>
  BY DEF Delete
<1>2. /\ writer' \in [Write -> Progress]
      /\ writer'[w].at = "accepted"
      /\ \A v \in Write : v # w => writer'[v] = writer[v]
  BY <1>1, TypeParts, GotoEffect DEF IInv
<1>3. cache' = None /\ cleared' = cleared \union {w} /\ reader' \in [Reader -> Request]
  BY <1>1, TypeParts, ClearEffect DEF IInv
<1>4. w \in committed /\ Invalidates(w)
  BY <1>1 DEF IInv, WriterInv
<1>5. TypeOK'
  BY <1>1, <1>2, <1>3, <1>4, TypeParts, TypePartsPrime DEF IInv
<1>6. WriterInv'
  BY <1>1, <1>2, <1>3, <1>4 DEF IInv, WriterInv, Invalidates
<1>7. AcceptedSettlementIsCleared'
  BY <1>2, <1>3 DEF IInv, AcceptedSettlementIsCleared, Of
<1>8. QED
  BY <1>1, <1>5, <1>6, <1>7, RequestsCleared DEF IInv

LEMMA StepDeleteFails ==
    ASSUME IInv, NEW w \in Write, DeleteFails(w)
    PROVE  IInv'
<1>1. /\ writer[w].at = "invalidating"
      /\ faults < MaxFaults /\ faults' = faults + 1
      /\ UNCHANGED <<cache, cleared, reader>> \/ Clear(w)
      /\ UNCHANGED <<committed, answer, owed>>
  BY DEF DeleteFails
<1>2. w \in committed /\ Invalidates(w)
  BY <1>1 DEF IInv, WriterInv
<1>3. /\ writer' \in [Write -> Progress]
      /\ writer'[w].at = "invalidating" \/ writer'[w].at = GiveUp(w)
      /\ \A v \in Write : v # w => writer'[v] = writer[v]
  <2>1. CASE ~LastAttempt(w) /\ writer' = [writer EXCEPT ![w].attempt = @ + 1]
    <3>1. writer[w] \in Progress /\ writer[w].attempt # MaxAttempts
      BY <2>1, TypeParts DEF IInv, LastAttempt
    <3>2. writer[w].attempt + 1 \in 1..MaxAttempts
      BY <3>1, BoundAssumption DEF Progress
    <3>3. writer'[w] \in Progress /\ writer'[w].at = writer[w].at
      BY <2>1, <3>1, <3>2, TypeParts DEF IInv, Progress
    <3>4. QED
      BY <1>1, <2>1, <3>3, TypeParts DEF IInv
  <2>2. CASE Goto(w, GiveUp(w))
    BY <2>2, TypeParts, GotoEffect DEF IInv, GiveUp
  <2>3. QED
    BY <2>1, <2>2 DEF DeleteFails
<1>4. /\ cleared' \in {cleared, cleared \union {w}}
      /\ cache' \in {cache, None}
      /\ reader' \in [Reader -> Request]
  BY <1>1, TypeParts, ClearEffect DEF IInv
<1>5. TypeOK'
  BY <1>1, <1>2, <1>3, <1>4, OneMoreFault, TypeParts, TypePartsPrime DEF IInv
<1>6. WriterInv'
  BY <1>1, <1>2, <1>3, <1>4 DEF IInv, WriterInv, Invalidates
<1>7. AcceptedSettlementIsCleared'
  BY <1>3, <1>4 DEF IInv, AcceptedSettlementIsCleared, Of, GiveUp
<1>8. QED
  BY <1>1, <1>5, <1>6, <1>7, RequestsUntouched, RequestsCleared DEF IInv

LEMMA StepDie ==
    ASSUME IInv, NEW w \in Write, Die(w)
    PROVE  IInv'
<1>1. /\ writer[w].at = "invalidating"
      /\ faults < MaxFaults /\ faults' = faults + 1 /\ Goto(w, "lost")
      /\ UNCHANGED <<committed, cache, reader, answer, owed, cleared>>
  BY DEF Die, readerVars
<1>2. /\ writer' \in [Write -> Progress]
      /\ writer'[w].at = "lost"
      /\ \A v \in Write : v # w => writer'[v] = writer[v]
  BY <1>1, TypeParts, GotoEffect DEF IInv
<1>3. TypeOK'
  BY <1>1, <1>2, OneMoreFault, TypeParts, TypePartsPrime DEF IInv
<1>4. WriterInv'
  BY <1>1, <1>2 DEF IInv, WriterInv, Invalidates
<1>5. AcceptedSettlementIsCleared'
  BY <1>1, <1>2 DEF IInv, AcceptedSettlementIsCleared, Of
<1>6. QED
  BY <1>1, <1>3, <1>4, <1>5, RequestsUntouched DEF IInv

LEMMA StepRepeat ==
    ASSUME IInv, NEW w \in Write, Repeat(w)
    PROVE  IInv'
<1> DEFINE where == IF ReplayInvalidates(w) THEN "invalidating" ELSE "accepted"
<1>1. /\ writer[w].at \in {"pending", "lost"} /\ Goto(w, where)
      /\ UNCHANGED <<committed, cache, reader, answer, owed, cleared, faults>>
  BY DEF Repeat, readerVars
<1>2. /\ writer' \in [Write -> Progress]
      /\ writer'[w].at = where
      /\ \A v \in Write : v # w => writer'[v] = writer[v]
  BY <1>1, TypeParts, GotoEffect DEF IInv
<1>3. TypeOK'
  BY <1>1, <1>2, TypeParts, TypePartsPrime DEF IInv
<1>4. WriterInv'
  BY <1>1, <1>2 DEF IInv, WriterInv, Invalidates
<1>5. AcceptedSettlementIsCleared'
  BY <1>1, <1>2 DEF IInv, AcceptedSettlementIsCleared, ReplayInvalidates, Of
<1>6. QED
  BY <1>1, <1>3, <1>4, <1>5, RequestsUntouched DEF IInv

-----------------------------------------------------------------------------
(* Requests for the summary preserve the invariant.                        *)

LEMMA WritesUntouched ==
    ASSUME IInv, UNCHANGED <<committed, writer, cleared>>
    PROVE  WriterInv' /\ AcceptedSettlementIsCleared'
  BY DEF IInv, WriterInv, AcceptedSettlementIsCleared, Of

\* A summary ready to be stored shows every cleared write that has not
\* overtaken it.
LEMMA StoringShows ==
    ASSUME IInv, NEW r \in Reader, reader[r].at = "storing", NEW w \in cleared
    PROVE  Shows(reader[r].read, w) \/ w \in reader[r].read.overtaken
<1>1. w \in Write /\ Kind[w] \in Kinds /\ Kind[w] # "share"
  BY TypeParts, Kinded DEF IInv, WriterInv, Invalidates
<1>2. /\ Kind[w] \in {"create", "update", "delete"} =>
            w \in reader[r].read.expenses \/ w \in reader[r].read.overtaken
      /\ Kind[w] = "update" =>
            w \in reader[r].read.shares \/ w \in reader[r].read.overtaken
      /\ Kind[w] = "settle" =>
            w \in reader[r].read.settlements \/ w \in reader[r].read.overtaken
  BY DEF IInv, KeepsUp
<1>3. CASE Kind[w] \in {"create", "delete"}
  BY <1>2, <1>3 DEF Shows
<1>4. CASE Kind[w] = "update"
  BY <1>2, <1>4 DEF Shows
<1>5. CASE Kind[w] = "settle"
  BY <1>2, <1>5 DEF Shows
<1>6. QED
  BY <1>1, <1>3, <1>4, <1>5 DEF Kinds

\* A request that is neither reading nor storing owes nothing to anybody.
LEMMA OneRequestRestarts ==
    ASSUME IInv, NEW r \in Reader, UNCHANGED cleared,
           reader'[r].at \in {"idle", "expenses"}, reader'[r].read = Nothing,
           \A s \in Reader : s # r => reader'[s] = reader[s],
           UNCHANGED committed
    PROVE  (\A s \in Reader : KeepsUp(s)') /\ ReadInOrder'
<1>1. ASSUME NEW s \in Reader PROVE KeepsUp(s)'
  <2>1. CASE s = r
    BY <2>1 DEF KeepsUp
  <2>2. CASE s # r
    BY <2>2 DEF IInv, KeepsUp
  <2>3. QED
    BY <2>1, <2>2
<1>2. ReadInOrder'
  <2>1. \A s \in Reader : s # r => reader'[s] = reader[s]
    OBVIOUS
  <2>2. reader'[r].read.expenses = {} /\ reader'[r].at # "settlements"
    BY DEF Nothing
  <2>3. QED
    BY <2>1, <2>2 DEF IInv, ReadInOrder, Of
<1>3. QED
  BY <1>1, <1>2

\* A request is answered, with the failure or with a summary.
LEMMA RequestAnswered ==
    ASSUME IInv, NEW r \in Reader, NEW a \in Summary \union {None, Failed},
           Answer(r, a),
           UNCHANGED <<committed, writer, cleared>>,
           cache' = cache \/ (cache' = a /\ reader[r].at = "storing" /\ a = reader[r].read),
           owed' \in [Reader -> SUBSET Of({"settle"})], faults' \in 0..MaxFaults
    PROVE  IInv'
<1>1. /\ reader' \in [Reader -> Request]
      /\ answer' \in [Reader -> Summary \union {None, Failed}]
      /\ reader'[r].at = "idle" /\ reader'[r].read = Nothing /\ answer'[r] = a
      /\ \A s \in Reader : s # r => reader'[s] = reader[s] /\ answer'[s] = answer[s]
  BY TypeParts, AnswerEffect DEF IInv
<1>2. TypeOK'
  <2>1. reader[r].read \in Summary
    BY TypeParts DEF IInv, Request
  <2>2. QED
    BY <1>1, <2>1, TypeParts, TypePartsPrime DEF IInv
<1>3. (\A s \in Reader : KeepsUp(s)') /\ ReadInOrder'
  BY <1>1, OneRequestRestarts
<1>4. StaleOnlyWhenOvertaken'
  <2>1. CASE cache' = cache
    BY <2>1 DEF IInv, StaleOnlyWhenOvertaken, Shows
  <2>2. CASE cache' = reader[r].read /\ reader[r].at = "storing"
    <3>1. \A w \in cleared : Shows(cache', w) \/ w \in cache'.overtaken
      BY <2>2, StoringShows
    <3>2. QED
      BY <3>1 DEF StaleOnlyWhenOvertaken, Shows
  <2>3. QED
    BY <2>1, <2>2
<1>5. QED
  BY <1>2, <1>3, <1>4, WritesUntouched DEF IInv

\* A request starts to compute.
LEMMA RequestStarted ==
    ASSUME IInv, NEW r \in Reader, StartComputing(r),
           UNCHANGED <<committed, cache, writer, cleared>>,
           owed' \in [Reader -> SUBSET Of({"settle"})], faults' \in 0..MaxFaults
    PROVE  IInv'
<1>1. /\ reader' \in [Reader -> Request]
      /\ answer' \in [Reader -> Summary \union {None, Failed}]
      /\ reader'[r].at = "expenses" /\ reader'[r].read = Nothing /\ answer'[r] = None
      /\ \A s \in Reader : s # r => reader'[s] = reader[s] /\ answer'[s] = answer[s]
  BY TypeParts, StartEffect DEF IInv
<1>2. TypeOK'
  BY <1>1, TypeParts, TypePartsPrime DEF IInv
<1>3. (\A s \in Reader : KeepsUp(s)') /\ ReadInOrder'
  BY <1>1, OneRequestRestarts
<1>4. StaleOnlyWhenOvertaken'
  BY DEF IInv, StaleOnlyWhenOvertaken, Shows
<1>5. QED
  BY <1>2, <1>3, <1>4, WritesUntouched DEF IInv

LEMMA OwedType ==
    ASSUME TypeOK, NEW r \in Reader, owed' = [owed EXCEPT ![r] = AcceptedSettlements]
    PROVE  owed' \in [Reader -> SUBSET Of({"settle"})]
<1>1. AcceptedSettlements \in SUBSET Of({"settle"})
  BY DEF AcceptedSettlements
<1>2. QED
  BY <1>1, TypeParts

LEMMA StepLookup ==
    ASSUME IInv, NEW r \in Reader, Lookup(r)
    PROVE  IInv'
<1>1. /\ UNCHANGED <<committed, cache, writer, cleared, faults>>
      /\ owed' = [owed EXCEPT ![r] = AcceptedSettlements]
  BY DEF Lookup
<1>2. owed' \in [Reader -> SUBSET Of({"settle"})] /\ faults' \in 0..MaxFaults
  BY <1>1, OwedType, TypeParts DEF IInv
<1>3. CASE cache # None /\ Answer(r, cache)
  <2>1. cache \in Summary \union {None, Failed}
    BY <1>3, TypeParts DEF IInv
  <2>2. QED
    BY <1>1, <1>2, <1>3, <2>1, RequestAnswered
<1>4. CASE StartComputing(r)
  BY <1>1, <1>2, <1>4, RequestStarted
<1>5. QED
  BY <1>3, <1>4 DEF Lookup

LEMMA StepLookupFails ==
    ASSUME IInv, NEW r \in Reader, LookupFails(r)
    PROVE  IInv'
<1>1. /\ UNCHANGED <<committed, cache, writer, cleared>> /\ StartComputing(r)
      /\ owed' = [owed EXCEPT ![r] = AcceptedSettlements]
      /\ faults < MaxFaults /\ faults' = faults + 1
  BY DEF LookupFails
<1>2. owed' \in [Reader -> SUBSET Of({"settle"})] /\ faults' \in 0..MaxFaults
  BY <1>1, OwedType, OneMoreFault, TypeParts DEF IInv
<1>3. QED
  BY <1>1, <1>2, RequestStarted

\* A request reads on: what it now shows must keep up with the DELs.
LEMMA RequestReadOn ==
    ASSUME IInv, NEW r \in Reader, NEW place \in Places, Advances(r, place),
           UNCHANGED <<committed, cache, answer, owed, writer, cleared, faults>>,
           KeepsUp(r)', reader'[r].read.expenses \subseteq committed,
           place = "settlements" =>
              reader'[r].read.expenses \intersect Of({"update"}) \subseteq reader'[r].read.shares
    PROVE  IInv'
<1>1. /\ reader' \in [Reader -> Request]
      /\ reader'[r].at = place
      /\ \A s \in Reader : s # r => reader'[s] = reader[s]
  BY DEF Advances
<1>2. TypeOK'
  BY <1>1, TypeParts, TypePartsPrime DEF IInv
<1>3. ASSUME NEW s \in Reader PROVE KeepsUp(s)'
  <2>1. CASE s # r
    BY <1>1, <2>1 DEF IInv, KeepsUp
  <2>2. QED
    BY <2>1
<1>4. ReadInOrder'
  BY <1>1 DEF IInv, ReadInOrder, Of
<1>5. StaleOnlyWhenOvertaken'
  BY DEF IInv, StaleOnlyWhenOvertaken, Shows
<1>6. QED
  BY <1>2, <1>3, <1>4, <1>5, WritesUntouched DEF IInv

\* Every cleared write is committed, hence seen by a statement run now.
LEMMA ClearedIsCommitted ==
    ASSUME IInv, NEW w \in cleared
    PROVE  w \in Write /\ w \in committed
  BY TypeParts DEF IInv

LEMMA StepReadExpenses ==
    ASSUME IInv, NEW r \in Reader, ReadExpenses(r)
    PROVE  IInv'
<1>1. UNCHANGED <<committed, cache, answer, owed, writer, cleared, faults>>
  BY DEF ReadExpenses
<1>2. /\ Advances(r, "shares")
      /\ reader'[r].read.expenses = committed \intersect Of({"create", "update", "delete"})
  BY TypeParts, ReadExpensesEffect DEF IInv
<1>3. \A w \in cleared : Kind[w] \in {"create", "update", "delete"} =>
                            w \in reader'[r].read.expenses
  BY <1>2, ClearedIsCommitted DEF Of
<1>4. KeepsUp(r)'
  BY <1>1, <1>2, <1>3 DEF KeepsUp, Advances
<1>5. reader'[r].read.expenses \subseteq committed
  BY <1>2
<1>6. QED
  BY <1>1, <1>2, <1>4, <1>5, RequestReadOn DEF Places

LEMMA StepReadShares ==
    ASSUME IInv, NEW r \in Reader, ReadShares(r)
    PROVE  IInv'
<1>1. /\ UNCHANGED <<committed, cache, answer, owed, writer, cleared, faults>>
      /\ reader[r].at = "shares"
  BY DEF ReadShares
<1>2. /\ Advances(r, "settlements")
      /\ reader'[r].read.expenses = reader[r].read.expenses
      /\ reader'[r].read.shares = committed \intersect Of({"update", "share"})
  BY TypeParts, ReadSharesEffect DEF IInv
<1>3. \A w \in cleared : Kind[w] \in {"update"} => w \in reader'[r].read.shares
  BY <1>2, ClearedIsCommitted DEF Of
<1>4. KeepsUp(r)
  BY DEF IInv
<1>5. KeepsUp(r)'
  BY <1>1, <1>2, <1>3, <1>4 DEF KeepsUp, Advances
<1>6. /\ reader'[r].read.expenses \subseteq committed
      /\ reader'[r].read.expenses \intersect Of({"update"}) \subseteq reader'[r].read.shares
  BY <1>2 DEF IInv, ReadInOrder, Of
<1>7. QED
  BY <1>1, <1>2, <1>5, <1>6, RequestReadOn DEF Places

LEMMA StepReadSettlements ==
    ASSUME IInv, NEW r \in Reader, ReadSettlements(r)
    PROVE  IInv'
<1>1. /\ UNCHANGED <<committed, cache, owed, writer, cleared, faults>>
      /\ reader[r].at = "settlements"
  BY DEF ReadSettlements
<1>2. CASE /\ Advances(r, "storing")
           /\ reader'[r].read.expenses = reader[r].read.expenses
           /\ reader'[r].read.shares = reader[r].read.shares
           /\ reader'[r].read.settlements = committed \intersect Of({"settle"})
           /\ UNCHANGED answer
  <2>1. \A w \in cleared : Kind[w] \in {"settle"} => w \in reader'[r].read.settlements
    BY <1>2, ClearedIsCommitted DEF Of
  <2>2. KeepsUp(r)
    BY DEF IInv
  <2>3. KeepsUp(r)'
    BY <1>1, <1>2, <2>1, <2>2 DEF KeepsUp, Advances
  <2>4. reader'[r].read.expenses \subseteq committed
    BY <1>2 DEF IInv, ReadInOrder
  <2>5. QED
    BY <1>1, <1>2, <2>3, <2>4, RequestReadOn DEF Places
<1>3. CASE Answer(r, Failed)
  <2>1. owed' \in [Reader -> SUBSET Of({"settle"})] /\ faults' \in 0..MaxFaults
    BY <1>1, TypeParts DEF IInv
  <2>2. QED
    BY <1>1, <1>3, <2>1, RequestAnswered
<1>4. QED
  BY <1>2, <1>3, TypeParts, ReadSettlementsEffect DEF IInv

LEMMA StepStore ==
    ASSUME IInv, NEW r \in Reader, Store(r) \/ StoreFails(r)
    PROVE  IInv'
<1>1. /\ reader[r].at = "storing"
      /\ Answer(r, reader[r].read)
      /\ cache' \in {cache, reader[r].read}
      /\ UNCHANGED <<committed, owed, writer, cleared>>
      /\ faults' = faults \/ (faults < MaxFaults /\ faults' = faults + 1)
  BY DEF Store, StoreFails
<1>2. owed' \in [Reader -> SUBSET Of({"settle"})] /\ faults' \in 0..MaxFaults
  BY <1>1, OneMoreFault, TypeParts DEF IInv
<1>3. reader[r].read \in Summary \union {None, Failed}
  BY TypeParts DEF IInv, Request
<1>4. QED
  BY <1>1, <1>2, <1>3, RequestAnswered

LEMMA StepExpire == ASSUME IInv, Expire PROVE IInv'
<1>1. cache' = None /\ UNCHANGED <<committed, reader, answer, owed, writer, cleared, faults>>
  BY DEF Expire, readerVars
<1>2. TypeOK'
  BY <1>1, TypeParts, TypePartsPrime DEF IInv
<1>3. (\A r \in Reader : KeepsUp(r)') /\ ReadInOrder'
  BY <1>1 DEF IInv, KeepsUp, ReadInOrder, Of
<1>4. StaleOnlyWhenOvertaken'
  BY <1>1 DEF IInv, StaleOnlyWhenOvertaken
<1>5. QED
  BY <1>1, <1>2, <1>3, <1>4, WritesUntouched DEF IInv

-----------------------------------------------------------------------------
(* The theorems.                                                           *)

LEMMA StepIInv == ASSUME IInv, [Next]_vars PROVE IInv'
<1>1. ASSUME NEW w \in Write,
             Commit(w) \/ Delete(w) \/ DeleteFails(w) \/ Die(w) \/ Repeat(w)
      PROVE  IInv'
  BY <1>1, StepCommit, StepDelete, StepDeleteFails, StepDie, StepRepeat
<1>2. ASSUME NEW r \in Reader,
             \/ Lookup(r) \/ LookupFails(r)
             \/ ReadExpenses(r) \/ ReadShares(r) \/ ReadSettlements(r)
             \/ Store(r) \/ StoreFails(r)
      PROVE  IInv'
  BY <1>2, StepLookup, StepLookupFails, StepReadExpenses, StepReadShares,
     StepReadSettlements, StepStore
<1>3. CASE Expire
  BY <1>3, StepExpire
<1>4. CASE UNCHANGED vars
  <2>1. /\ UNCHANGED <<committed, writer, cleared>>
        /\ UNCHANGED <<cache, reader, answer, cleared>> /\ committed \subseteq committed'
        /\ owed' = owed /\ faults' = faults
    BY <1>4 DEF vars
  <2>2. TypeOK'
    BY <2>1, TypeParts, TypePartsPrime DEF IInv
  <2>3. QED
    BY <2>1, <2>2, WritesUntouched, RequestsUntouched DEF IInv
<1>5. QED
  BY <1>1, <1>2, <1>3, <1>4 DEF Next

\* The inductive invariant holds in every reachable state.
THEOREM CacheInvariance == Spec => []IInv
<1>1. Init => IInv
  BY InitIInv
<1>2. IInv /\ [Next]_vars => IInv'
  BY StepIInv
<1>3. QED
  BY <1>1, <1>2, PTL DEF Spec

\* The variables keep their types.
THEOREM CacheTypes == Spec => []TypeOK
<1>1. IInv => TypeOK
  BY DEF IInv
<1>2. QED
  BY <1>1, CacheInvariance, PTL

\* Totals and shares disagree only by a write the shares show and the totals do
\* not, or by a share operation.
LEMMA UnbalancedByShares ==
    ASSUME IInv, NEW r \in Reader, reader[r].at = "settlements", ~Balanced(reader[r].read)
    PROVE  \E w \in reader[r].read.shares :
              Kind[w] = "share" \/ w \notin reader[r].read.expenses
<1> DEFINE read == reader[r].read
<1> SUFFICES ASSUME \A w \in read.shares : Kind[w] # "share" /\ w \in read.expenses
             PROVE  FALSE
  OBVIOUS
<1>1. read.shares \subseteq Of({"update", "share"})
  BY TypeParts DEF IInv, Request, Summary
<1>2. read.expenses \intersect Of({"update"}) \subseteq read.shares
  BY DEF IInv, ReadInOrder
<1>3. read.shares \subseteq read.expenses \intersect Of({"update"})
  BY <1>1 DEF Of
<1>4. read.expenses \intersect Of({"update"}) = read.shares
  BY <1>2, <1>3
<1>5. QED
  BY <1>4 DEF Balanced

\* Only a computation that does not add up is answered with the failure.
LEMMA FailingStep ==
    ASSUME IInv, [Next]_vars, NEW r \in Reader, answer'[r] = Failed, answer[r] # Failed
    PROVE  ReadSettlements(r)
<1>1. cache # Failed /\ \A q \in Reader : reader[q].read # Failed
  BY TypeParts, AnswerAssumption DEF IInv, Request
<1>2. answer \in [Reader -> Summary \union {None, Failed}] /\ Failed # None
  BY TypeParts, AnswerAssumption DEF IInv
<1>3. answer' # answer
  OBVIOUS
<1>4. PICK q \in Reader :
         \/ Lookup(q) \/ LookupFails(q)
         \/ ReadExpenses(q) \/ ReadShares(q) \/ ReadSettlements(q)
         \/ Store(q) \/ StoreFails(q)
  BY <1>3 DEF Next, vars, Commit, Delete, DeleteFails, Die, Repeat, Expire, readerVars
<1>5. ~Lookup(q) /\ ~LookupFails(q)
  BY <1>1, <1>2 DEF Lookup, LookupFails, Answer, StartComputing
<1>6. ~ReadExpenses(q) /\ ~ReadShares(q)
  BY <1>3 DEF ReadExpenses, ReadShares
<1>7. ~Store(q) /\ ~StoreFails(q)
  BY <1>1, <1>2 DEF Store, StoreFails, Answer
<1>8. q = r
  BY <1>2, <1>4, <1>5, <1>6, <1>7 DEF ReadSettlements, Answer
<1>9. QED
  BY <1>4, <1>5, <1>6, <1>7, <1>8

\* However many requests, writes and faults there are: a request is answered
\* with a failure only if the shares it read are not those of its totals.
THEOREM FailuresAreExplained == Spec => FailureIsExplained
<1>1. ASSUME IInv, [Next]_vars, NEW r \in Reader,
             answer'[r] = Failed, answer[r] # Failed
      PROVE  \E w \in reader[r].read.shares :
                Kind[w] = "share" \/ w \notin reader[r].read.expenses
  <2>1. ReadSettlements(r)
    BY <1>1, FailingStep
  <2>2. reader[r].at = "settlements" /\ ~Balanced(reader[r].read)
    <3>1. reader \in [Reader -> Request]
      BY <1>1, TypeParts DEF IInv
    <3>2. ~Advances(r, "storing") \/ answer' # answer
      BY <1>1
    <3>3. QED
      BY <1>1, <2>1, <3>1, <3>2, ReadSettlementsEffect DEF ReadSettlements
  <2>3. QED
    BY <1>1, <2>2, UnbalancedByShares
<1>2. IInv /\ [Next]_vars =>
         [\A r \in Reader :
             answer'[r] = Failed /\ answer[r] # Failed =>
                \E w \in reader[r].read.shares :
                   Kind[w] = "share" \/ w \notin reader[r].read.expenses]_vars
  BY <1>1
<1>3. QED
  BY <1>2, CacheInvariance, PTL DEF Spec, FailureIsExplained

\* An acknowledged settlement has had its DEL carried out.
THEOREM SettlementsClear == Spec => []AcceptedSettlementIsCleared
<1>1. IInv => AcceptedSettlementIsCleared
  BY DEF IInv
<1>2. QED
  BY <1>1, CacheInvariance, PTL

\* After its DEL a write is missing from the cache only if the summary was
\* being computed at that moment.
THEOREM OnlyOvertakenIsStale == Spec => []StaleOnlyWhenOvertaken
<1>1. IInv => StaleOnlyWhenOvertaken
  BY DEF IInv
<1>2. QED
  BY <1>1, CacheInvariance, PTL

-----------------------------------------------------------------------------
(* Induction.  The library states it for operators, which the provers       *)
(* cannot instantiate; the same facts for sets follow from minimal elements. *)

\* A set of naturals has a least element.
LEMMA LeastNatural ==
    ASSUME NEW T, T \subseteq Nat, T # {}
    PROVE  \E n \in T : \A k \in T : n <= k
<1>1. PICK n \in T : \A k \in T : ~(<<k, n>> \in OpToRel(<, Nat))
  BY NatLessThanWellFounded, WFMin
<1>2. \A k \in T : k < n => <<k, n>> \in OpToRel(<, Nat)
  BY DEF OpToRel
<1>3. \A k \in T : ~(k < n)
  BY <1>1, <1>2
<1>4. QED
  BY <1>3

LEMMA CountInduction ==
    ASSUME NEW n \in Nat, NEW T, 0 \in T, \A k \in 0 .. n : k \in T /\ k < n => k + 1 \in T
    PROVE  n \in T
<1>1. SUFFICES ASSUME n \notin T PROVE FALSE
  OBVIOUS
<1> DEFINE Bad == (0 .. n) \ T
<1>2. PICK m \in Bad : \A k \in Bad : m <= k
  <2>1. Bad \subseteq Nat /\ Bad # {}
    BY <1>1
  <2>2. QED
    BY <2>1, LeastNatural
<1>3. m # 0 /\ m - 1 \in 0 .. n /\ m - 1 < n
  BY <1>2
<1>4. m - 1 \in T
  BY <1>2, <1>3
<1>5. QED
  BY <1>2, <1>3, <1>4

\* What a set inherits from its strict subsets holds of every finite set.
LEMMA StrictInduction ==
    ASSUME NEW S, IsFiniteSet(S), NEW T,
           \A s \in SUBSET S : (\A r \in SUBSET s : r # s => r \in T) => s \in T
    PROVE  S \in T
<1>1. SUFFICES ASSUME S \notin T PROVE FALSE
  OBVIOUS
<1>2. IsWellFoundedOn(StrictSubsetOrdering(S), SUBSET S)
  BY FS_StrictSubsetOrderingWellFounded, FS_FiniteSubsetsOfFinite
<1> DEFINE Bad == (SUBSET S) \ T
<1>3. PICK s \in Bad : \A r \in Bad : ~(<<r, s>> \in StrictSubsetOrdering(S))
  <2>1. Bad \subseteq SUBSET S /\ Bad # {}
    BY <1>1
  <2> HIDE DEF Bad
  <2>2. QED
    BY <1>2, <2>1, WFMin
<1>4. ASSUME NEW r \in SUBSET s, r # s PROVE r \in T
  BY <1>3, <1>4 DEF StrictSubsetOrdering
<1>5. QED
  BY <1>3, <1>4

\* What holds of {} and is kept by adding an element holds of a finite set.
LEMMA SetInduction ==
    ASSUME NEW S, IsFiniteSet(S), NEW T, {} \in T,
           \A s \in SUBSET S : \A x \in S : s \in T /\ x \notin s => s \union {x} \in T
    PROVE  S \in T
<1>1. ASSUME NEW s \in SUBSET S, \A r \in SUBSET s : r # s => r \in T PROVE s \in T
  <2>1. CASE s # {}
    <3>1. PICK x : x \in s
      BY <2>1
    <3>2. s \ {x} \in T /\ s \ {x} \in SUBSET S /\ x \in S /\ x \notin s \ {x}
      BY <1>1, <3>1
    <3>3. (s \ {x}) \union {x} = s
      BY <3>1
    <3>4. QED
      BY <3>2, <3>3
  <2>2. QED
    BY <2>1
<1>2. QED
  BY <1>1, StrictInduction

-----------------------------------------------------------------------------
(* Sums.  MapThenSumSet takes the elements of a set in an order of its own; *)
(* the sum does not depend on it.                                          *)

Some(s) == CHOOSE x \in s : TRUE

\* g is the sum of f over each subset of S.
Sums(f, S, g) ==
    g = [s \in SUBSET S |-> IF s = {} THEN 0 ELSE f[Some(s)] + g[s \ {Some(s)}]]

LEMMA SomeIsMember == ASSUME NEW s, s # {} PROVE Some(s) \in s
  BY DEF Some

LEMMA SumsUnique ==
    ASSUME NEW f, NEW R, NEW S, NEW g, NEW h, Sums(f, R, g), Sums(f, S, h),
           NEW s, s \subseteq R, s \subseteq S, IsFiniteSet(s)
    PROVE  g[s] = h[s]
<1> DEFINE Good == {q \in SUBSET s : g[q] = h[q]}
<1>1. ASSUME NEW q \in SUBSET s, \A r \in SUBSET q : r # q => r \in Good
      PROVE  q \in Good
  <2>1. CASE q = {}
    BY <2>1 DEF Sums
  <2>2. CASE q # {}
    <3>1. Some(q) \in q
      BY <2>2, SomeIsMember
    <3>2. g[q \ {Some(q)}] = h[q \ {Some(q)}]
      BY <1>1, <3>1
    <3>3. /\ g[q] = f[Some(q)] + g[q \ {Some(q)}]
          /\ h[q] = f[Some(q)] + h[q \ {Some(q)}]
      BY <2>2 DEF Sums
    <3>4. QED
      BY <3>2, <3>3
  <2>3. QED
    BY <2>1, <2>2
<1>2. s \in Good
  <2> HIDE DEF Good
  <2>1. QED
    BY <1>1, StrictInduction
<1>3. QED
  BY <1>2

LEMMA SumsExist ==
    ASSUME NEW f, NEW S, IsFiniteSet(S)
    PROVE  \E g : Sums(f, S, g)
<1> DEFINE Good == {s \in SUBSET S : \E g : Sums(f, s, g)}
<1>1. ASSUME NEW s \in SUBSET S, \A r \in SUBSET s : r # s => r \in Good
      PROVE  s \in Good
  <2> DEFINE Chosen(r) == CHOOSE g : Sums(f, r, g)
             Below(q) == s \ {Some(s \ q)}
             Value(q) == IF q = {} THEN 0 ELSE f[Some(q)] + Chosen(s \ {Some(s)})[q \ {Some(q)}]
             g == [q \in SUBSET s |->
                      IF q = s THEN Value(s) ELSE Chosen(Below(q))[q]]
  <2>1. IsFiniteSet(s)
    BY FS_Subset
  <2>2. ASSUME NEW r \in SUBSET s, r # s PROVE Sums(f, r, Chosen(r))
    BY <1>1, <2>2
  <2>3. ASSUME NEW q \in SUBSET s, q # s
        PROVE  /\ q \subseteq Below(q) /\ Below(q) \in SUBSET s /\ Below(q) # s
               /\ Sums(f, Below(q), Chosen(Below(q)))
    <3>1. Some(s \ q) \in s \ q
      BY <2>3, SomeIsMember
    <3>2. q \subseteq Below(q) /\ Below(q) \in SUBSET s /\ Below(q) # s
      BY <2>3, <3>1
    <3>3. QED
      BY <2>2, <3>2
  <2>4. ASSUME NEW q \in SUBSET s, q # s, NEW r \in SUBSET s, r # s, q \subseteq r
        PROVE  g[q] = Chosen(r)[q]
    <3>1. g[q] = Chosen(Below(q))[q]
      BY <2>4
    <3>2. IsFiniteSet(q)
      BY <2>1, FS_Subset
    <3>3. /\ Sums(f, Below(q), Chosen(Below(q))) /\ Sums(f, r, Chosen(r))
          /\ q \subseteq Below(q)
      BY <2>2, <2>3, <2>4
    <3> HIDE DEF Chosen, Below, g
    <3>4. QED
      BY <2>4, <3>1, <3>2, <3>3, SumsUnique
  <2> HIDE DEF Chosen, Below
  <2>5. ASSUME NEW q \in SUBSET s
        PROVE  g[q] = IF q = {} THEN 0 ELSE f[Some(q)] + g[q \ {Some(q)}]
    <3>1. q # {} => Some(q) \in q
      BY SomeIsMember
    <3>2. CASE q = s
      <4>1. CASE q = {}
        BY <3>2, <4>1
      <4>2. CASE q # {}
        <5>1. s \ {Some(s)} \in SUBSET s /\ s \ {Some(s)} # s
          BY <3>1, <3>2, <4>2
        <5>2. g[s \ {Some(s)}] = Chosen(s \ {Some(s)})[s \ {Some(s)}]
          BY <2>4, <5>1
        <5>3. g[s] = f[Some(s)] + Chosen(s \ {Some(s)})[s \ {Some(s)}]
          BY <3>2, <4>2
        <5>4. QED
          BY <3>2, <4>2, <5>2, <5>3
      <4>3. QED
        BY <4>1, <4>2
    <3>3. CASE q # s
      <4>1. /\ Sums(f, Below(q), Chosen(Below(q))) /\ q \in SUBSET Below(q)
            /\ Below(q) \in SUBSET s /\ Below(q) # s
        BY <2>3, <3>3
      <4>2. g[q] = Chosen(Below(q))[q]
        BY <3>3
      <4>3. Chosen(Below(q))[q] = IF q = {} THEN 0 ELSE f[Some(q)] + Chosen(Below(q))[q \ {Some(q)}]
        BY <4>1 DEF Sums
      <4>4. q # {} => g[q \ {Some(q)}] = Chosen(Below(q))[q \ {Some(q)}]
        <5>1. q # {} => q \ {Some(q)} \in SUBSET s /\ q \ {Some(q)} # s
                        /\ q \ {Some(q)} \subseteq Below(q)
          BY <3>1, <4>1
        <5>2. QED
          BY <2>4, <4>1, <5>1
      <4>5. QED
        BY <4>2, <4>3, <4>4
    <3>4. QED
      BY <3>2, <3>3
  <2>6. Sums(f, s, g)
    <3>1. g = [q \in SUBSET s |-> g[q]]
      OBVIOUS
    <3> HIDE DEF g
    <3>2. QED
      BY <2>5, <3>1 DEF Sums
  <2>7. QED
    BY <2>6
<1>2. S \in Good
  <2> HIDE DEF Good
  <2>1. QED
    BY <1>1, StrictInduction
<1>3. QED
  BY <1>2

SumOver(f, S) == (CHOOSE g : Sums(f, S, g))[S]

LEMMA SumIsUnique ==
    ASSUME NEW f, NEW S, IsFiniteSet(S), NEW g, Sums(f, S, g), NEW s \in SUBSET S
    PROVE  g[s] = SumOver(f, s)
<1> DEFINE h == CHOOSE h : Sums(f, s, h)
<1>1. IsFiniteSet(s)
  BY FS_Subset
<1>2. Sums(f, s, h)
  BY <1>1, SumsExist
<1> HIDE DEF h
<1>3. g[s] = h[s]
  BY <1>1, <1>2, SumsUnique
<1>4. QED
  BY <1>3 DEF SumOver, h

LEMMA SumEmpty == ASSUME NEW f PROVE SumOver(f, {}) = 0
<1>1. PICK g : Sums(f, {}, g)
  BY SumsExist, FS_EmptySet
<1>2. g[{}] = 0
  BY <1>1 DEF Sums
<1>3. QED
  BY <1>1, <1>2, SumIsUnique, FS_EmptySet

LEMMA SumSome ==
    ASSUME NEW f, NEW S, IsFiniteSet(S), S # {}
    PROVE  SumOver(f, S) = f[Some(S)] + SumOver(f, S \ {Some(S)})
<1>1. PICK g : Sums(f, S, g)
  BY SumsExist
<1>2. g[S] = f[Some(S)] + g[S \ {Some(S)}]
  BY <1>1 DEF Sums
<1>3. S \in SUBSET S /\ S \ {Some(S)} \in SUBSET S
  OBVIOUS
<1>4. g[S] = SumOver(f, S) /\ g[S \ {Some(S)}] = SumOver(f, S \ {Some(S)})
  <2>1. \A s \in SUBSET S : g[s] = SumOver(f, s)
    BY <1>1, SumIsUnique
  <2>2. QED
    BY <1>3, <2>1
<1>5. QED
  BY <1>2, <1>4

LEMMA SumCongruent ==
    ASSUME NEW S, IsFiniteSet(S), NEW f, NEW g, \A x \in S : f[x] = g[x]
    PROVE  SumOver(f, S) = SumOver(g, S)
<1> DEFINE Good == {s \in SUBSET S : SumOver(f, s) = SumOver(g, s)}
<1>1. ASSUME NEW s \in SUBSET S, \A r \in SUBSET s : r # s => r \in Good
      PROVE  s \in Good
  <2>1. CASE s = {}
    BY <2>1, SumEmpty
  <2>2. CASE s # {}
    <3>1. Some(s) \in s /\ IsFiniteSet(s)
      BY <2>2, SomeIsMember, FS_Subset
    <3>2. SumOver(f, s \ {Some(s)}) = SumOver(g, s \ {Some(s)}) /\ f[Some(s)] = g[Some(s)]
      BY <1>1, <3>1
    <3>3. /\ SumOver(f, s) = f[Some(s)] + SumOver(f, s \ {Some(s)})
          /\ SumOver(g, s) = g[Some(s)] + SumOver(g, s \ {Some(s)})
      BY <2>2, <3>1, SumSome
    <3>4. QED
      BY <3>2, <3>3
  <2>3. QED
    BY <2>1, <2>2
<1>2. S \in Good
  <2> HIDE DEF Good
  <2>1. QED
    BY <1>1, StrictInduction
<1>3. QED
  BY <1>2

LEMMA SumType ==
    ASSUME NEW S, IsFiniteSet(S), NEW f, \A x \in S : f[x] \in Int
    PROVE  SumOver(f, S) \in Int
<1> DEFINE Good == {s \in SUBSET S : SumOver(f, s) \in Int}
<1>1. ASSUME NEW s \in SUBSET S, \A r \in SUBSET s : r # s => r \in Good
      PROVE  s \in Good
  <2>1. CASE s = {}
    BY <2>1, SumEmpty
  <2>2. CASE s # {}
    <3>1. Some(s) \in s /\ IsFiniteSet(s)
      BY <2>2, SomeIsMember, FS_Subset
    <3>2. SumOver(f, s \ {Some(s)}) \in Int /\ f[Some(s)] \in Int
      BY <1>1, <3>1
    <3>3. SumOver(f, s) = f[Some(s)] + SumOver(f, s \ {Some(s)})
      BY <2>2, <3>1, SumSome
    <3>4. QED
      BY <3>2, <3>3
  <2>3. QED
    BY <2>1, <2>2
<1>2. S \in Good
  <2> HIDE DEF Good
  <2>1. QED
    BY <1>1, StrictInduction
<1>3. QED
  BY <1>2

\* Any element may be taken out first.
LEMMA SumPick ==
    ASSUME NEW S, IsFiniteSet(S), NEW f, \A x \in S : f[x] \in Int, NEW x \in S
    PROVE  SumOver(f, S) = f[x] + SumOver(f, S \ {x})
<1> DEFINE Good == {s \in SUBSET S : \A y \in s : SumOver(f, s) = f[y] + SumOver(f, s \ {y})}
<1>1. ASSUME NEW s \in SUBSET S, \A r \in SUBSET s : r # s => r \in Good, NEW y \in s
      PROVE  SumOver(f, s) = f[y] + SumOver(f, s \ {y})
  <2> DEFINE z == Some(s)
  <2>1. z \in s /\ IsFiniteSet(s)
    BY SomeIsMember, FS_Subset
  <2>2. SumOver(f, s) = f[z] + SumOver(f, s \ {z})
    BY <2>1, SumSome
  <2> HIDE DEF z
  <2>3. CASE y = z
    BY <2>2, <2>3
  <2>4. CASE y # z
    <3>1. /\ s \ {z} \in SUBSET s /\ s \ {z} # s /\ y \in s \ {z}
          /\ s \ {y} \in SUBSET s /\ s \ {y} # s /\ z \in s \ {y}
      BY <2>1, <2>4
    <3>2. SumOver(f, s \ {z}) = f[y] + SumOver(f, (s \ {z}) \ {y})
      BY <1>1, <3>1
    <3>3. SumOver(f, s \ {y}) = f[z] + SumOver(f, (s \ {y}) \ {z})
      BY <1>1, <3>1
    <3>4. (s \ {z}) \ {y} = (s \ {y}) \ {z}
      OBVIOUS
    <3>5. SumOver(f, (s \ {y}) \ {z}) \in Int /\ f[y] \in Int /\ f[z] \in Int
      <4>1. IsFiniteSet((s \ {y}) \ {z})
        BY <2>1, FS_Subset
      <4>2. QED
        BY <2>1, <4>1, SumType
    <3>6. PICK r \in Int : r = SumOver(f, (s \ {y}) \ {z})
      BY <3>5
    <3>7. SumOver(f, s \ {z}) = f[y] + r /\ SumOver(f, s \ {y}) = f[z] + r
      BY <3>2, <3>3, <3>4, <3>6
    <3>8. f[z] + (f[y] + r) = f[y] + (f[z] + r)
      BY <3>5
    <3>9. QED
      BY <2>2, <3>7, <3>8
  <2>5. QED
    BY <2>3, <2>4
<1>2. S \in Good
  <2>1. ASSUME NEW s \in SUBSET S, \A r \in SUBSET s : r # s => r \in Good PROVE s \in Good
    BY <1>1, <2>1
  <2> HIDE DEF Good
  <2>2. QED
    BY <2>1, StrictInduction
<1>3. QED
  BY <1>2

LEMMA SumAdd ==
    ASSUME NEW S, IsFiniteSet(S), NEW f, NEW x, x \notin S, \A y \in S \union {x} : f[y] \in Int
    PROVE  SumOver(f, S \union {x}) = f[x] + SumOver(f, S)
<1>1. IsFiniteSet(S \union {x}) /\ (S \union {x}) \ {x} = S
  BY FS_AddElement
<1>2. SumOver(f, S \union {x}) = f[x] + SumOver(f, (S \union {x}) \ {x})
  <2>1. x \in S \union {x}
    OBVIOUS
  <2>2. QED
    BY <1>1, <2>1, SumPick
<1>3. QED
  BY <1>1, <1>2

LEMMA SumChange ==
    ASSUME NEW S, IsFiniteSet(S), NEW f, NEW g, NEW x \in S,
           f \in [S -> Int], g \in [S -> Int], \A y \in S : y # x => g[y] = f[y]
    PROVE  SumOver(g, S) = SumOver(f, S) + g[x] - f[x]
<1>1. IsFiniteSet(S \ {x})
  BY FS_Subset
<1>2. SumOver(f, S) = f[x] + SumOver(f, S \ {x})
  BY SumPick
<1>3. SumOver(g, S) = g[x] + SumOver(g, S \ {x})
  BY SumPick
<1>4. SumOver(f, S \ {x}) = SumOver(g, S \ {x})
  BY <1>1, SumCongruent
<1>5. SumOver(f, S \ {x}) \in Int /\ f[x] \in Int /\ g[x] \in Int
  BY <1>1, SumType
<1>6. QED
  BY <1>2, <1>3, <1>4, <1>5

LEMMA SumUpdate ==
    ASSUME NEW S, IsFiniteSet(S), NEW f \in [S -> Int], NEW x \in S, NEW v \in Int
    PROVE  SumOver([f EXCEPT ![x] = v], S) = SumOver(f, S) + v - f[x]
<1> DEFINE g == [f EXCEPT ![x] = v]
<1>1. g \in [S -> Int] /\ g[x] = v /\ \A y \in S : y # x => g[y] = f[y]
  OBVIOUS
<1> HIDE DEF g
<1>2. SumOver(g, S) = SumOver(f, S) + g[x] - f[x]
  BY <1>1, SumChange
<1>3. QED
  BY <1>1, <1>2 DEF g

LEMMA SumPlus ==
    ASSUME NEW S, IsFiniteSet(S), NEW f, NEW g, NEW h,
           \A x \in S : f[x] \in Int /\ g[x] \in Int /\ h[x] = f[x] + g[x]
    PROVE  SumOver(h, S) = SumOver(f, S) + SumOver(g, S)
<1> DEFINE Good == {s \in SUBSET S : SumOver(h, s) = SumOver(f, s) + SumOver(g, s)}
<1>1. {} \in Good
  BY SumEmpty
<1>2. ASSUME NEW s \in SUBSET S, NEW x \in S, s \in Good, x \notin s
      PROVE  s \union {x} \in Good
  <2>1. IsFiniteSet(s) /\ s \union {x} \in SUBSET S
    BY FS_Subset
  <2>2. \A y \in s \union {x} : f[y] \in Int /\ g[y] \in Int /\ h[y] \in Int
    OBVIOUS
  <2>3. /\ SumOver(f, s \union {x}) = f[x] + SumOver(f, s)
        /\ SumOver(g, s \union {x}) = g[x] + SumOver(g, s)
        /\ SumOver(h, s \union {x}) = h[x] + SumOver(h, s)
    BY <1>2, <2>1, <2>2, SumAdd
  <2>4. SumOver(f, s) \in Int /\ SumOver(g, s) \in Int
    BY <2>1, <2>2, SumType
  <2>5. SumOver(h, s) = SumOver(f, s) + SumOver(g, s) /\ h[x] = f[x] + g[x]
    BY <1>2
  <2>6. f[x] \in Int /\ g[x] \in Int
    OBVIOUS
  <2>7. SumOver(h, s \union {x}) = SumOver(f, s \union {x}) + SumOver(g, s \union {x})
    BY <2>3, <2>4, <2>5, <2>6
  <2>8. QED
    BY <2>1, <2>7
<1>3. S \in Good
  <2> HIDE DEF Good
  <2>1. QED
    BY <1>1, <1>2, SetInduction
<1>4. QED
  BY <1>3

LEMMA SumBounds ==
    ASSUME NEW S, IsFiniteSet(S), NEW k \in Nat, NEW f \in [S -> 0 .. k]
    PROVE  0 <= SumOver(f, S) /\ SumOver(f, S) <= k * Cardinality(S)
<1> DEFINE Good == {s \in SUBSET S : 0 <= SumOver(f, s) /\ SumOver(f, s) <= k * Cardinality(s)}
<1>1. {} \in Good
  BY SumEmpty, FS_EmptySet
<1>2. ASSUME NEW s \in SUBSET S, NEW x \in S, s \in Good, x \notin s
      PROVE  s \union {x} \in Good
  <2>1. IsFiniteSet(s) /\ s \union {x} \in SUBSET S
    BY FS_Subset
  <2>2. SumOver(f, s \union {x}) = f[x] + SumOver(f, s)
    <3>1. x \notin s /\ \A y \in s \union {x} : f[y] \in Int
      BY <1>2
    <3>2. QED
      BY <2>1, <3>1, SumAdd
  <2>3. SumOver(f, s) \in Int
    BY <2>1, SumType
  <2>4. Cardinality(s) \in Nat /\ Cardinality(s \union {x}) = Cardinality(s) + 1
    BY <1>2, <2>1, FS_AddElement, FS_CardinalityType
  <2>5. k * (Cardinality(s) + 1) = k * Cardinality(s) + k
    BY <2>4
  <2>6. k * Cardinality(s) \in Nat
    BY <2>4
  <2>7. /\ 0 <= SumOver(f, s) /\ SumOver(f, s) <= k * Cardinality(s)
        /\ f[x] \in Int /\ 0 <= f[x] /\ f[x] <= k
    BY <1>2
  <2>8. 0 <= SumOver(f, s \union {x})
    BY <2>2, <2>3, <2>7
  <2>9. SumOver(f, s \union {x}) <= k * Cardinality(s) + k
    BY <2>2, <2>3, <2>6, <2>7
  <2>10. QED
    BY <2>1, <2>4, <2>5, <2>8, <2>9
<1>3. S \in Good
  <2> HIDE DEF Good
  <2>1. QED
    BY <1>1, <1>2, SetInduction
<1>4. QED
  BY <1>3

LEMMA SumNat ==
    ASSUME NEW S, IsFiniteSet(S), NEW f, \A x \in S : f[x] \in Nat
    PROVE  SumOver(f, S) \in Nat
<1> DEFINE Good == {s \in SUBSET S : SumOver(f, s) \in Nat}
<1>1. {} \in Good
  BY SumEmpty
<1>2. ASSUME NEW s \in SUBSET S, NEW x \in S, s \in Good, x \notin s
      PROVE  s \union {x} \in Good
  <2>1. IsFiniteSet(s) /\ s \union {x} \in SUBSET S
    BY FS_Subset
  <2>2. SumOver(f, s \union {x}) = f[x] + SumOver(f, s)
    <3>1. x \notin s /\ \A y \in s \union {x} : f[y] \in Int
      BY <1>2
    <3>2. QED
      BY <2>1, <3>1, SumAdd
  <2>3. QED
    BY <1>2, <2>1, <2>2
<1>3. S \in Good
  <2> HIDE DEF Good
  <2>1. QED
    BY <1>1, <1>2, SetInduction
<1>4. QED
  BY <1>3

\* Nothing in the sum when the sum is nothing.
LEMMA SumZero ==
    ASSUME NEW S, IsFiniteSet(S), NEW f, \A x \in S : f[x] \in Nat, SumOver(f, S) = 0,
           NEW x \in S
    PROVE  f[x] = 0
<1>1. IsFiniteSet(S \ {x})
  BY FS_Subset
<1>2. SumOver(f, S) = f[x] + SumOver(f, S \ {x})
  BY SumPick
<1>3. SumOver(f, S \ {x}) \in Nat /\ f[x] \in Nat
  BY <1>1, SumNat
<1>4. QED
  BY <1>2, <1>3

LEMMA SumUnion ==
    ASSUME NEW A, IsFiniteSet(A), NEW B, IsFiniteSet(B), A \intersect B = {},
           NEW f, \A x \in A \union B : f[x] \in Int
    PROVE  SumOver(f, A \union B) = SumOver(f, A) + SumOver(f, B)
<1> DEFINE Good == {s \in SUBSET B : SumOver(f, A \union s) = SumOver(f, A) + SumOver(f, s)}
<1>1. {} \in Good
  <2>1. SumOver(f, A) \in Int
    BY SumType
  <2>2. A \union {} = A
    OBVIOUS
  <2>3. QED
    BY <2>1, <2>2, SumEmpty
<1>2. ASSUME NEW s \in SUBSET B, NEW x \in B, s \in Good, x \notin s
      PROVE  s \union {x} \in Good
  <2>1. IsFiniteSet(s) /\ IsFiniteSet(A \union s)
    BY FS_Subset, FS_Union
  <2>2. SumOver(f, s \union {x}) = f[x] + SumOver(f, s)
    <3>1. x \notin s /\ \A y \in s \union {x} : f[y] \in Int
      BY <1>2
    <3>2. QED
      BY <2>1, <3>1, SumAdd
  <2>3. SumOver(f, (A \union s) \union {x}) = f[x] + SumOver(f, A \union s)
    <3>1. x \notin A \union s /\ \A y \in (A \union s) \union {x} : f[y] \in Int
      BY <1>2
    <3>2. QED
      BY <2>1, <3>1, SumAdd
  <2>4. SumOver(f, A) \in Int /\ SumOver(f, s) \in Int /\ f[x] \in Int
    BY <2>1, SumType
  <2>5. (A \union s) \union {x} = A \union (s \union {x})
    OBVIOUS
  <2>6. SumOver(f, A \union s) = SumOver(f, A) + SumOver(f, s)
    BY <1>2
  <2>7. SumOver(f, A \union (s \union {x})) = SumOver(f, A) + SumOver(f, s \union {x})
    <3>1. PICK a \in Int, b \in Int, c \in Int :
              a = SumOver(f, A) /\ b = SumOver(f, s) /\ c = f[x]
      BY <2>4
    <3>2. SumOver(f, A \union (s \union {x})) = c + (a + b)
      BY <2>3, <2>5, <2>6, <3>1
    <3>3. SumOver(f, s \union {x}) = c + b
      BY <2>2, <3>1
    <3>4. c + (a + b) = a + (c + b)
      OBVIOUS
    <3>5. QED
      BY <3>1, <3>2, <3>3, <3>4
  <2>8. QED
    BY <2>7
<1>3. B \in Good
  <2> HIDE DEF Good
  <2>1. QED
    BY <1>1, <1>2, SetInduction
<1>4. QED
  BY <1>3

LEMMA SumTimes ==
    ASSUME NEW S, IsFiniteSet(S), NEW k \in Int, NEW f \in [S -> Int], NEW g,
           g = [x \in S |-> k * f[x]]
    PROVE  SumOver(g, S) = k * SumOver(f, S)
<1> DEFINE Good == {s \in SUBSET S : SumOver(g, s) = k * SumOver(f, s)}
<1>1. {} \in Good
  BY SumEmpty
<1>2. ASSUME NEW s \in SUBSET S, NEW x \in S, s \in Good, x \notin s
      PROVE  s \union {x} \in Good
  <2>1. IsFiniteSet(s)
    BY FS_Subset
  <2>2. \A y \in S : f[y] \in Int /\ g[y] \in Int
    OBVIOUS
  <2>3. x \notin s /\ \A y \in s \union {x} : f[y] \in Int /\ g[y] \in Int
    BY <1>2, <2>2
  <2>4. /\ SumOver(f, s \union {x}) = f[x] + SumOver(f, s)
        /\ SumOver(g, s \union {x}) = g[x] + SumOver(g, s)
    BY <2>1, <2>3, SumAdd
  <2>5. SumOver(f, s) \in Int /\ f[x] \in Int
    BY <2>1, <2>3, SumType
  <2>6. k * (f[x] + SumOver(f, s)) = k * f[x] + k * SumOver(f, s)
    BY <2>5
  <2>7. g[x] = k * f[x] /\ SumOver(g, s) = k * SumOver(f, s)
    BY <1>2
  <2>8. SumOver(g, s \union {x}) = k * SumOver(f, s \union {x})
    BY <2>4, <2>6, <2>7
  <2>9. QED
    BY <2>8
<1>3. S \in Good
  <2> HIDE DEF Good
  <2>1. QED
    BY <1>1, <1>2, SetInduction
<1>4. QED
  BY <1>3

\* A sum may be taken group by group.
LEMMA SumByKey ==
    ASSUME NEW S, IsFiniteSet(S), NEW K, IsFiniteSet(K),
           NEW f \in [S -> Int], NEW key \in [S -> K], NEW g,
           g = [k \in K |-> SumOver(f, {x \in S : key[x] = k})]
    PROVE  SumOver(g, K) = SumOver(f, S)
<1> DEFINE Under(s) == {x \in S : key[x] \in s}
           Good == {s \in SUBSET K : SumOver(g, s) = SumOver(f, Under(s))}
<1>1. {} \in Good
  <2>1. Under({}) = {}
    OBVIOUS
  <2> HIDE DEF Under
  <2>2. QED
    BY <2>1, SumEmpty
<1>2. ASSUME NEW s \in SUBSET K, NEW k \in K, s \in Good, k \notin s
      PROVE  s \union {k} \in Good
  <2> DEFINE Mine == {x \in S : key[x] = k}
  <2>1. /\ Under(s \union {k}) = Under(s) \union Mine /\ Under(s) \intersect Mine = {}
        /\ Under(s) \subseteq S /\ Mine \subseteq S
    BY <1>2
  <2>2. IsFiniteSet(s) /\ IsFiniteSet(Under(s)) /\ IsFiniteSet(Mine)
    BY <2>1, FS_Subset
  <2>3. g[k] = SumOver(f, Mine) /\ SumOver(g, s) = SumOver(f, Under(s))
    BY <1>2
  <2>4. \A j \in K : g[j] \in Int
    <3>1. SUFFICES ASSUME NEW j \in K PROVE SumOver(f, {x \in S : key[x] = j}) \in Int
      OBVIOUS
    <3>2. IsFiniteSet({x \in S : key[x] = j})
      BY FS_Subset
    <3>3. \A y \in {x \in S : key[x] = j} : f[y] \in Int
      OBVIOUS
    <3>4. QED
      BY <3>2, <3>3, SumType
  <2> HIDE DEF Under, Mine
  <2>5. SumOver(f, Under(s) \union Mine) = SumOver(f, Under(s)) + SumOver(f, Mine)
    <3>1. \A x \in Under(s) \union Mine : f[x] \in Int
      BY <2>1
    <3>2. QED
      BY <2>1, <2>2, <3>1, SumUnion
  <2>6. SumOver(g, s \union {k}) = g[k] + SumOver(g, s)
    <3>1. k \notin s /\ \A j \in s \union {k} : g[j] \in Int
      BY <1>2, <2>4
    <3>2. QED
      BY <2>2, <3>1, SumAdd
  <2>7. SumOver(f, Mine) \in Int /\ SumOver(f, Under(s)) \in Int
    BY <2>1, <2>2, SumType
  <2>8. SumOver(g, s \union {k}) = SumOver(f, Under(s \union {k}))
    <3>1. PICK a \in Int, b \in Int : a = SumOver(f, Under(s)) /\ b = SumOver(f, Mine)
      BY <2>7
    <3>2. SumOver(f, Under(s \union {k})) = a + b
      BY <2>1, <2>5, <3>1
    <3>3. SumOver(g, s \union {k}) = b + a
      BY <2>3, <2>6, <3>1
    <3>4. QED
      BY <3>2, <3>3
  <2>9. QED
    BY <2>8
<1>3. K \in Good
  <2> HIDE DEF Good
  <2>1. QED
    BY <1>1, <1>2, SetInduction
<1>4. Under(K) = S
  OBVIOUS
<1>5. QED
  BY <1>3, <1>4

\* Sums by rows and by columns.
Columns(row, A, B) == [y \in B |-> [x \in A |-> row[x][y]]]
RowSums(row, A, B) == [x \in A |-> SumOver(row[x], B)]

LEMMA SumSwap ==
    ASSUME NEW A, IsFiniteSet(A), NEW B, IsFiniteSet(B), NEW row \in [A -> [B -> Int]]
    PROVE  SumOver(RowSums(row, A, B), A) = SumOver(RowSums(Columns(row, A, B), B, A), B)
<1> DEFINE col == Columns(row, A, B)
           f == RowSums(row, A, B)
           g == RowSums(col, B, A)
<1>0. /\ \A x \in A, y \in B : row[x][y] \in Int /\ col[y][x] = row[x][y]
      /\ \A x \in A : f[x] = SumOver(row[x], B)
      /\ \A y \in B : g[y] = SumOver(col[y], A)
  BY DEF Columns, RowSums
<1> HIDE DEF col, f, g
<1> DEFINE part(s) == [y \in B |-> SumOver(col[y], s)]
           Good == {s \in SUBSET A : SumOver(f, s) = SumOver(part(s), B)}
<1>1. {} \in Good
  <2>1. \A y \in B : part({})[y] = 0
    BY SumEmpty
  <2> DEFINE p == part({})
  <2>2. 0 \in Nat /\ p \in [B -> 0 .. 0]
    BY <2>1
  <2> HIDE DEF p
  <2>3. 0 <= SumOver(p, B) /\ SumOver(p, B) <= 0 * Cardinality(B) /\ SumOver(p, B) \in Int
    BY <2>2, SumBounds, SumType
  <2>4. 0 * Cardinality(B) = 0
    BY FS_CardinalityType
  <2>5. SumOver(p, B) = 0
    BY <2>3, <2>4
  <2>6. QED
    BY <2>5, SumEmpty DEF p
<1>2. ASSUME NEW s \in SUBSET A, NEW x \in A, s \in Good, x \notin s
      PROVE  s \union {x} \in Good
  <2> DEFINE p == part(s)
             q == part(s \union {x})
  <2>1. IsFiniteSet(s)
    BY FS_Subset
  <2>2. \A y \in B : /\ p[y] = SumOver(col[y], s) /\ p[y] \in Int
                     /\ q[y] = row[x][y] + p[y] /\ row[x][y] \in Int
    <3>1. SUFFICES ASSUME NEW y \in B
                   PROVE  /\ SumOver(col[y], s) \in Int
                          /\ SumOver(col[y], s \union {x}) = row[x][y] + SumOver(col[y], s)
      BY <1>0
    <3>2. x \notin s /\ col[y][x] = row[x][y] /\ \A z \in s \union {x} : col[y][z] \in Int
      BY <1>2, <1>0
    <3>3. SumOver(col[y], s) \in Int
      BY <2>1, <3>2, SumType
    <3>4. SumOver(col[y], s \union {x}) = col[y][x] + SumOver(col[y], s)
      BY <2>1, <3>2, SumAdd
    <3>5. QED
      BY <3>2, <3>3, <3>4
  <2>3. SumOver(f, s) = SumOver(p, B)
    BY <1>2
  <2> HIDE DEF p, q
  <2>4. SumOver(q, B) = SumOver(row[x], B) + SumOver(p, B)
    <3> DEFINE r == row[x]
    <3>1. \A y \in B : r[y] \in Int /\ p[y] \in Int /\ q[y] = r[y] + p[y]
      BY <2>2
    <3> HIDE DEF r
    <3>2. SumOver(q, B) = SumOver(r, B) + SumOver(p, B)
      BY <3>1, SumPlus
    <3>3. QED
      BY <3>2 DEF r
  <2>5. \A z \in A : f[z] \in Int
    <3>1. SUFFICES ASSUME NEW z \in A PROVE SumOver(row[z], B) \in Int
      BY <1>0
    <3>2. \A y \in B : row[z][y] \in Int
      BY <1>0
    <3>3. QED
      BY <3>2, SumType
  <2>6. SumOver(f, s \union {x}) = f[x] + SumOver(f, s)
    <3>1. x \notin s /\ \A z \in s \union {x} : f[z] \in Int
      BY <1>2, <2>5
    <3>2. QED
      BY <2>1, <3>1, SumAdd
  <2>7. SumOver(f, s \union {x}) = SumOver(q, B)
    BY <1>0, <2>3, <2>4, <2>6
  <2>8. QED
    BY <2>7 DEF q
<1>3. A \in Good
  <2> HIDE DEF Good
  <2>1. QED
    BY <1>1, <1>2, SetInduction
<1>4. SumOver(part(A), B) = SumOver(g, B)
  BY <1>0, SumCongruent
<1>5. QED
  BY <1>3, <1>4 DEF col, f, g

\* The first r of n get one unit more.
LEMMA SumOfTurns ==
    ASSUME NEW n \in Nat, NEW r \in 0 .. n, NEW f,
           \A i \in 1 .. n : f[i] = (IF i <= r THEN 1 ELSE 0)
    PROVE  SumOver(f, 1 .. n) = r
<1> DEFINE Good == {k \in 0 .. n : SumOver(f, 1 .. k) = (IF k <= r THEN k ELSE r)}
<1>1. 0 \in Good
  <2>1. 1 .. 0 = {}
    OBVIOUS
  <2>2. QED
    BY <2>1, SumEmpty
<1>2. ASSUME NEW k \in 0 .. n, k \in Good, k < n PROVE k + 1 \in Good
  <2>1. /\ 1 .. k + 1 = (1 .. k) \union {k + 1} /\ k + 1 \notin 1 .. k
        /\ k + 1 \in 1 .. n
    BY <1>2
  <2>2. IsFiniteSet(1 .. k)
    BY FS_Interval
  <2>3. SumOver(f, (1 .. k) \union {k + 1}) = f[k + 1] + SumOver(f, 1 .. k)
    <3>1. \A i \in (1 .. k) \union {k + 1} : f[i] \in Int
      BY <2>1
    <3>2. QED
      BY <2>1, <2>2, <3>1, SumAdd
  <2>4. SumOver(f, 1 .. k) = (IF k <= r THEN k ELSE r)
    BY <1>2
  <2>5. f[k + 1] = (IF k + 1 <= r THEN 1 ELSE 0)
    BY <2>1
  <2>6. SumOver(f, 1 .. k + 1) = (IF k + 1 <= r THEN k + 1 ELSE r)
    BY <2>1, <2>3, <2>4, <2>5
  <2>7. QED
    BY <2>1, <2>6
<1>3. n \in Good
  <2> HIDE DEF Good
  <2>1. QED
    BY <1>1, <1>2, CountInduction
<1>4. QED
  BY <1>3

-----------------------------------------------------------------------------
(* The plan of payments. *)

Amounts(plan) == [i \in DOMAIN plan |-> plan[i].amount]

LEMMA TotalIsSum ==
    ASSUME NEW f
    PROVE  NetTotal(f) = SumOver(f, Member)
<1> DEFINE g == CHOOSE g : Sums(f, Member, g)
<1>1. NetTotal(f) = g[Member]
  BY DEF NetTotal, MapThenSumSet, MapThenFoldSet, Sums, Some
<1>2. QED
  BY <1>1 DEF SumOver

LEMMA NetIsSum ==
    ASSUME NEW S, NEW plan \in Seq(S), NEW m
    PROVE  Net(plan, m) =
               SumOver(Amounts(plan), {i \in DOMAIN plan : plan[i].from = m})
               - SumOver(Amounts(plan), {i \in DOMAIN plan : plan[i].to = m})
<1> DEFINE Sum(mine) == MapThenSumSet(LAMBDA i : plan[i].amount, mine)
<1>1. ASSUME NEW mine \in SUBSET (DOMAIN plan)
      PROVE  Sum(mine) = SumOver(Amounts(plan), mine)
  <2> DEFINE g == CHOOSE g : g = [s \in SUBSET mine |-> IF s = {} THEN 0
                                    ELSE plan[Some(s)].amount + g[s \ {Some(s)}]]
  <2>1. Sum(mine) = g[mine]
    BY DEF MapThenSumSet, MapThenFoldSet, Some
  <2>2. ASSUME NEW h
        PROVE  Sums(Amounts(plan), mine, h) <=>
               h = [s \in SUBSET mine |-> IF s = {} THEN 0
                        ELSE plan[Some(s)].amount + h[s \ {Some(s)}]]
    <3>1. ASSUME NEW s \in SUBSET mine, s # {} PROVE Amounts(plan)[Some(s)] = plan[Some(s)].amount
      BY <3>1, SomeIsMember DEF Amounts
    <3>2. [s \in SUBSET mine |-> IF s = {} THEN 0
              ELSE Amounts(plan)[Some(s)] + h[s \ {Some(s)}]]
          = [s \in SUBSET mine |-> IF s = {} THEN 0
                ELSE plan[Some(s)].amount + h[s \ {Some(s)}]]
      BY <3>1
    <3>3. QED
      BY <3>2 DEF Sums
  <2>3. IsFiniteSet(mine)
    <3>1. DOMAIN plan = 1 .. Len(plan) /\ Len(plan) \in Nat
      OBVIOUS
    <3>2. IsFiniteSet(DOMAIN plan)
      BY <3>1, FS_Interval
    <3>3. QED
      BY <3>2, FS_Subset
  <2>4. Sums(Amounts(plan), mine, g)
    <3>1. \E h : Sums(Amounts(plan), mine, h)
      BY <2>3, SumsExist
    <3>2. QED
      BY <2>2, <3>1
  <2> HIDE DEF g
  <2>5. \A s \in SUBSET mine : g[s] = SumOver(Amounts(plan), s)
    BY <2>3, <2>4, SumIsUnique
  <2>6. QED
    BY <2>1, <2>5
<1>2. Net(plan, m) = Sum({i \in DOMAIN plan : plan[i].from = m})
                          - Sum({i \in DOMAIN plan : plan[i].to = m})
  BY DEF Net
<1> HIDE DEF Sum
<1>3. QED
  BY <1>1, <1>2

LEMMA NetGrows ==
    ASSUME NEW S, NEW plan \in Seq(S), NEW t \in S, NEW m, t.from # t.to,
           \A u \in S : u.amount \in Int
    PROVE  /\ Net(plan, m) \in Int
           /\ Net(Append(plan, t), m) =
                  Net(plan, m) + (IF m = t.from THEN t.amount ELSE 0)
                                    - (IF m = t.to THEN t.amount ELSE 0)
<1> DEFINE longer == Append(plan, t)
           n == Len(plan) + 1
           From(p) == {i \in DOMAIN p : p[i].from = m}
           To(p) == {i \in DOMAIN p : p[i].to = m}
<1>1. /\ longer \in Seq(S) /\ n \in Nat /\ n \notin DOMAIN plan
      /\ DOMAIN longer = DOMAIN plan \union {n} /\ longer[n] = t
      /\ \A i \in DOMAIN plan : longer[i] = plan[i] /\ plan[i] \in S
  <2>1. DOMAIN plan = 1 .. Len(plan) /\ Len(plan) \in Nat
    OBVIOUS
  <2>2. \A i \in DOMAIN plan : longer[i] = plan[i] /\ plan[i] \in S
    OBVIOUS
  <2>3. longer[n] = t /\ DOMAIN longer = 1 .. n /\ longer \in Seq(S)
    OBVIOUS
  <2>4. QED
    BY <2>1, <2>2, <2>3
<1>2. IsFiniteSet(DOMAIN plan)
  <2>1. DOMAIN plan = 1 .. Len(plan) /\ Len(plan) \in Nat
    OBVIOUS
  <2>2. QED
    BY <2>1, FS_Interval
<1> HIDE DEF longer, n
<1>3. ASSUME NEW I \in SUBSET (DOMAIN plan)
      PROVE  /\ SumOver(Amounts(longer), I) = SumOver(Amounts(plan), I)
             /\ SumOver(Amounts(plan), I) \in Int
             /\ SumOver(Amounts(longer), I \union {n}) = t.amount + SumOver(Amounts(plan), I)
  <2>1. IsFiniteSet(I)
    BY <1>2, FS_Subset
  <2>2. \A i \in I : Amounts(longer)[i] = Amounts(plan)[i] /\ Amounts(plan)[i] \in Int
    BY <1>1 DEF Amounts
  <2>3. SumOver(Amounts(longer), I) = SumOver(Amounts(plan), I)
    BY <2>1, <2>2, SumCongruent
  <2>4. SumOver(Amounts(plan), I) \in Int
    BY <2>1, <2>2, SumType
  <2>5. Amounts(longer)[n] = t.amount /\ t.amount \in Int /\ n \notin I
    BY <1>1 DEF Amounts
  <2>6. \A i \in I \union {n} : Amounts(longer)[i] \in Int
    BY <2>2, <2>5
  <2>7. SumOver(Amounts(longer), I \union {n}) = Amounts(longer)[n] + SumOver(Amounts(longer), I)
    BY <2>1, <2>5, <2>6, SumAdd
  <2>8. QED
    BY <2>3, <2>4, <2>5, <2>7
<1>4. From(longer) = (IF m = t.from THEN From(plan) \union {n} ELSE From(plan))
  BY <1>1
<1>5. To(longer) = (IF m = t.to THEN To(plan) \union {n} ELSE To(plan))
  BY <1>1
<1>6. /\ Net(plan, m) = SumOver(Amounts(plan), From(plan)) - SumOver(Amounts(plan), To(plan))
      /\ Net(longer, m) = SumOver(Amounts(longer), From(longer))
                               - SumOver(Amounts(longer), To(longer))
  BY <1>1, NetIsSum
<1>7. From(plan) \in SUBSET (DOMAIN plan) /\ To(plan) \in SUBSET (DOMAIN plan) /\ t.amount \in Int
  OBVIOUS
<1> HIDE DEF From, To
<1>8. PICK a \in Int, b \in Int : /\ a = SumOver(Amounts(plan), From(plan))
                                  /\ b = SumOver(Amounts(plan), To(plan))
  BY <1>3, <1>7
<1>9. SumOver(Amounts(longer), From(longer)) = (IF m = t.from THEN t.amount + a ELSE a)
  BY <1>3, <1>4, <1>7, <1>8
<1>10. SumOver(Amounts(longer), To(longer)) = (IF m = t.to THEN t.amount + b ELSE b)
  BY <1>3, <1>5, <1>7, <1>8
<1>11. Net(plan, m) = a - b
  BY <1>6, <1>8
<1>12. Net(longer, m) = (IF m = t.from THEN t.amount + a ELSE a)
                             - (IF m = t.to THEN t.amount + b ELSE b)
  BY <1>6, <1>9, <1>10
<1>13. QED
  BY <1>7, <1>11, <1>12 DEF longer

LEMMA NetOfNothing == ASSUME NEW m PROVE Net(<<>>, m) = 0
<1>1. <<>> \in Seq({}) /\ DOMAIN <<>> = {}
  OBVIOUS
<1>2. Net(<<>>, m) = SumOver(Amounts(<<>>), {}) - SumOver(Amounts(<<>>), {})
  BY <1>1, NetIsSum
<1>3. QED
  BY <1>2, SumEmpty

LEMMA Greatest ==
    ASSUME NEW S, IsFiniteSet(S), S # {}, NEW f, \A x \in S : f[x] \in Int
    PROVE  \E x \in S : \A y \in S : f[y] <= f[x]
<1> DEFINE Good == {s \in SUBSET S : s = {} \/ \E x \in s : \A y \in s : f[y] <= f[x]}
<1>1. ASSUME NEW s \in SUBSET S, NEW z \in S, s \in Good, z \notin s
      PROVE  s \union {z} \in Good
  <2>1. CASE s = {}
    BY <2>1
  <2>2. ASSUME NEW x \in s, \A y \in s : f[y] <= f[x]
        PROVE  \E w \in s \union {z} : \A y \in s \union {z} : f[y] <= f[w]
    <3>1. CASE f[z] <= f[x]
      BY <2>2, <3>1
    <3>2. CASE ~(f[z] <= f[x])
      BY <2>2, <3>2
    <3>3. QED
      BY <3>1, <3>2
  <2>3. QED
    BY <1>1, <2>1, <2>2
<1>2. S \in Good
  <2>1. {} \in Good
    OBVIOUS
  <2> HIDE DEF Good
  <2>2. QED
    BY <1>1, <2>1, SetInduction
<1>3. QED
  BY <1>2

\* There is a largest debtor, and a largest creditor.
LEMMA LargestIsMember ==
    ASSUME open \in [Member -> Int], NEW members \in SUBSET Member,
           members # {}
    PROVE  Largest(members) \in members
<1> DEFINE size == [m \in members |-> Abs(open[m])]
           Top == {m \in members : \A o \in members : Abs(open[o]) <= Abs(open[m])}
<1>1. IsFiniteSet(members) /\ members \subseteq Nat
  BY FS_Subset, MemberAssumption
<1>2. \A m \in members : size[m] \in Int /\ size[m] = Abs(open[m])
  BY DEF Abs
<1>3. Top # {}
  <2>1. \E x \in members : \A y \in members : size[y] <= size[x]
    <3> HIDE DEF size
    <3>1. QED
      BY <1>1, <1>2, Greatest
  <2>2. QED
    BY <1>2, <2>1
<1>4. \E n \in Top : \A k \in Top : n <= k
  BY <1>1, <1>3, LeastNatural
<1>5. Largest(members) = CHOOSE n \in Top : \A k \in Top : n <= k
  BY DEF Largest, Min
<1>6. QED
  BY <1>4, <1>5

LEMMA PlanMembers ==
    ASSUME NEW S \in SUBSET Member
    PROVE  /\ IsFiniteSet(Member) /\ IsFiniteSet(S)
           /\ Cardinality(S) \in Nat
<1>1. IsFiniteSet(Member)
  BY MemberAssumption
<1>2. IsFiniteSet(S)
  BY <1>1, FS_Subset
<1>3. QED
  BY <1>1, <1>2, FS_CardinalityType

LEMMA SmallerAmount ==
    ASSUME NEW debt \in Nat \ {0}, NEW credit \in Nat \ {0}
    PROVE  LET a == Amount(debt, credit)
           IN  a \in Nat \ {0} /\ a <= debt /\ a <= credit /\ (a = debt \/ a = credit)
<1>1. \E x \in {debt, credit} : \A y \in {debt, credit} : x <= y
  OBVIOUS
<1>2. Amount(debt, credit) =
          CHOOSE x \in {debt, credit} : \A y \in {debt, credit} : x <= y
  BY DEF Amount, Min
<1>3. QED
  BY <1>1, <1>2

\* A plan that has just been begun.
PlanBegun ==
    balance \in [Member -> Int] /\ open = balance /\ transfers = <<>> /\ at = "validate"

LEMMA PlanBegins == PlanBegun => PlanInv
<1> SUFFICES ASSUME balance \in [Member -> Int], open = balance,
                    transfers = <<>>, at = "validate"
             PROVE  PlanInv
  BY DEF PlanBegun
<1>1. PlanTypeOK
  BY DEF PlanTypeOK
<1>2. StageInv
  BY DEF StageInv
<1>3. DOMAIN transfers = {} /\ Len(transfers) = 0
  OBVIOUS
<1>4. ClosingInv
  BY <1>3 DEF ClosingInv
<1>5. CountInv
  <2>1. \A m \in Member : /\ balance[m] * (-1) > 0 <=> open[m] < 0
                          /\ balance[m] * 1 > 0 <=> open[m] > 0
    OBVIOUS
  <2>2. Side(-1) = Cardinality(Debtors)
    <3>1. {m \in Member : balance[m] * (-1) > 0} = Debtors
      BY <2>1 DEF Debtors
    <3>2. QED
      BY <3>1 DEF Side
  <2>3. Side(1) = Cardinality(Creditors)
    <3>1. {m \in Member : balance[m] * 1 > 0} = Creditors
      BY <2>1 DEF Creditors
    <3>2. QED
      BY <3>1 DEF Side
  <2>4. Cardinality(Debtors) \in Nat /\ Cardinality(Creditors) \in Nat
    BY PlanMembers DEF Debtors, Creditors
  <2>5. QED
    BY <1>3, <2>2, <2>3, <2>4 DEF CountInv
<1>6. PlanIsExact
  <2>1. \A m \in Member : balance[m] + Net(transfers, m) = open[m]
    BY NetOfNothing
  <2>2. QED
    BY <1>3, <2>1 DEF PlanIsExact
<1>7. QED
  BY <1>1, <1>2, <1>4, <1>5, <1>6 DEF PlanInv

LEMMA ValidateKeepsPlan ==
    PlanInv /\ Validate => PlanInv'
<1> SUFFICES ASSUME PlanInv, Validate PROVE PlanInv'
  OBVIOUS
<1>1. PlanTypeOK'
  BY DEF PlanInv, PlanTypeOK, Validate
<1>2. StageInv'
  BY DEF PlanInv, StageInv, Validate
<1>3. ClosingInv'
  BY DEF PlanInv, ClosingInv, Validate
<1>4. CountInv'
  BY DEF PlanInv, CountInv, Validate, Debtors, Creditors, Side
<1>5. PlanIsExact'
  BY DEF PlanInv, PlanIsExact, Validate, Side
<1>6. QED
  BY <1>1, <1>2, <1>3, <1>4, <1>5 DEF PlanInv

\* When one side owes nothing more, the other side has nothing to claim.
LEMMA OneSideIsEnough ==
    ASSUME open \in [Member -> Int], Closed(open),
           Debtors = {} \/ Creditors = {}, NEW m \in Member
    PROVE  open[m] = 0
<1>1. IsFiniteSet(Member) /\ SumOver(open, Member) = 0
  BY PlanMembers, TotalIsSum DEF Closed
<1>2. CASE Debtors = {}
  <2>1. \A x \in Member : open[x] \in Nat
    BY <1>2 DEF Debtors
  <2>2. QED
    BY <1>1, <2>1, SumZero
<1>3. CASE Creditors = {}
  <2> DEFINE debt == [x \in Member |-> 0 - open[x]]
             none == [x \in Member |-> 0]
  <2>1. \A x \in Member : debt[x] \in Nat /\ debt[x] = 0 - open[x]
    BY <1>3 DEF Creditors
  <2>2. \A x \in Member : none[x] = 0
    OBVIOUS
  <2> HIDE DEF debt, none
  <2>3. SumOver(none, Member) = SumOver(open, Member) + SumOver(debt, Member)
    <3>1. \A x \in Member : /\ open[x] \in Int /\ debt[x] \in Int
                            /\ none[x] = open[x] + debt[x]
      BY <2>1, <2>2
    <3>2. QED
      BY <1>1, <3>1, SumPlus
  <2>4. SumOver(none, Member) = 0
    <3>1. Cardinality(Member) \in Nat /\ 0 * Cardinality(Member) = 0
      BY <1>1, FS_CardinalityType
    <3>2. 0 <= SumOver(none, Member) /\ SumOver(none, Member) <= 0 * Cardinality(Member)
      <4>1. 0 \in Nat /\ none \in [Member -> 0 .. 0]
        BY DEF none
      <4>2. QED
        BY <1>1, <4>1, SumBounds
    <3>3. SumOver(none, Member) \in Int
      BY <1>1, <2>2, SumType
    <3>4. QED
      BY <3>1, <3>2, <3>3
  <2>5. SumOver(debt, Member) = 0
    <3>1. SumOver(debt, Member) \in Nat
      BY <1>1, <2>1, SumNat
    <3>2. QED
      BY <1>1, <2>3, <2>4, <3>1
  <2>6. debt[m] = 0
    BY <1>1, <2>1, <2>5, SumZero
  <2>7. QED
    BY <2>1, <2>6
<1>4. QED
  BY <1>2, <1>3

LEMMA FinishKeepsPlan ==
    PlanInv /\ Finish => PlanInv'
<1> SUFFICES ASSUME PlanInv, Finish PROVE PlanInv'
  OBVIOUS
<1>1. \A m \in Member : open[m] = 0
  <2>1. /\ open \in [Member -> Int] /\ Closed(open)
        /\ Debtors = {} \/ Creditors = {}
    BY DEF PlanInv, PlanTypeOK, StageInv, Finish
  <2>2. QED
    BY <2>1, OneSideIsEnough
<1>2. \A m \in Member : balance[m] + Net(transfers, m) = 0
  BY <1>1 DEF PlanInv, PlanIsExact
<1>3. at' = "planned" /\ UNCHANGED <<balance, open, transfers>>
  BY <1>2 DEF Finish
<1>4. PlanTypeOK'
  BY <1>3 DEF PlanInv, PlanTypeOK
<1>5. StageInv'
  BY <1>3 DEF StageInv
<1>6. ClosingInv'
  BY <1>3 DEF PlanInv, ClosingInv
<1>7. CountInv'
  BY <1>3 DEF PlanInv, CountInv, Debtors, Creditors, Side
<1>8. PlanIsExact'
  BY <1>3 DEF PlanInv, PlanIsExact, Side
<1>9. QED
  BY <1>4, <1>5, <1>6, <1>7, <1>8 DEF PlanInv

LEMMA TransferType ==
    ASSUME NEW S, NEW f \in [S -> Int], NEW x \in S, NEW y \in S, NEW n \in Int
    PROVE  [f EXCEPT ![x] = @ + n, ![y] = @ - n] \in [S -> Int]
<1> DEFINE g == [f EXCEPT ![x] = @ + n]
<1>1. g \in [S -> Int]
  OBVIOUS
<1> HIDE DEF g
<1>2. [g EXCEPT ![y] = @ - n] \in [S -> Int]
  BY <1>1
<1>3. QED
  BY <1>2 DEF g

LEMMA PayKeepsPlan ==
    PlanInv /\ Pay => PlanInv'
<1>1. PlanInv /\ Pay => PlanBegun'
  <2> SUFFICES ASSUME PlanInv, Pay PROVE balance' \in [Member -> Int]
    BY DEF Pay, PlanBegun
  <2>1. PICK i \in DOMAIN transfers : balance' = Settled(transfers[i])
    BY DEF Pay
  <2>2. transfers[i] \in Transfer /\ balance \in [Member -> Int]
    BY DEF PlanInv, PlanTypeOK
  <2>3. PICK x \in Member, y \in Member, n \in Int :
            x = transfers[i].from /\ y = transfers[i].to /\ n = transfers[i].amount
    BY <2>2 DEF Transfer
  <2>4. balance' = [balance EXCEPT ![x] = @ + n, ![y] = @ - n]
    BY <2>1, <2>3 DEF Settled
  <2>5. QED
    BY <2>2, <2>4, TransferType
<1>2. PlanBegun => PlanInv
  BY PlanBegins
<1>3. QED
  BY <1>1, <1>2, PTL

LEMMA MatchKeepsPlan ==
    ASSUME PlanInv, Match
    PROVE  PlanInv'
<1> DEFINE d == Largest(Debtors)
           c == Largest(Creditors)
           a == Amount(-open[d], open[c])
           t == [from |-> d, to |-> c, amount |-> a]
           n == Len(transfers) + 1
<1>1. /\ balance \in [Member -> Int] /\ open \in [Member -> Int]
      /\ transfers \in Seq(Transfer)
  BY DEF PlanInv, PlanTypeOK
<1>2. /\ at = "match" /\ Debtors # {} /\ Creditors # {}
      /\ transfers' = Append(transfers, t)
      /\ open' = [open EXCEPT ![d] = @ + a, ![c] = @ - a]
      /\ balance' = balance /\ at' = at
  BY DEF Match
<1>3. d \in Member /\ open[d] < 0 /\ c \in Member /\ open[c] > 0
  <2>1. Debtors \in SUBSET Member /\ Creditors \in SUBSET Member
    BY DEF Debtors, Creditors
  <2>2. d \in Debtors /\ c \in Creditors
    BY <1>1, <1>2, <2>1, LargestIsMember
  <2>3. QED
    BY <2>2 DEF Debtors, Creditors
<1> HIDE DEF d, c
<1>4. /\ a \in Nat \ {0} /\ a <= -open[d] /\ a <= open[c] /\ (a = -open[d] \/ a = open[c])
  <2>1. open[d] \in Int /\ open[c] \in Int
    BY <1>1, <1>3
  <2>2. -open[d] \in Nat \ {0} /\ open[c] \in Nat \ {0}
    BY <1>3, <2>1
  <2>3. QED
    BY <2>2, SmallerAmount
<1> HIDE DEF a
<1>5. d # c /\ open[d] \in Int /\ open[c] \in Int
  BY <1>1, <1>3
<1>6. /\ open' \in [Member -> Int]
      /\ open'[d] = open[d] + a /\ open'[c] = open[c] - a
      /\ \A m \in Member : m # d /\ m # c => open'[m] = open[m]
  BY <1>1, <1>2, <1>3, <1>4, <1>5
<1>7. t \in Transfer /\ t.from = d /\ t.to = c /\ t.amount = a
  BY <1>3, <1>4 DEF Transfer
<1> HIDE DEF t
<1>8. /\ transfers' \in Seq(Transfer) /\ Len(transfers') = n /\ n \in Nat \ {0}
      /\ Len(transfers) \in Nat /\ n = Len(transfers) + 1
      /\ transfers'[n] = t /\ transfers' # <<>>
      /\ \A i \in DOMAIN transfers' :
            i # n => i \in DOMAIN transfers /\ transfers'[i] = transfers[i]
  <2>1. transfers' \in Seq(Transfer) /\ Len(transfers') = n
    BY <1>1, <1>2, <1>7
  <2>2. n \in Nat \ {0} /\ Len(transfers) \in Nat /\ transfers'[n] = t
    BY <1>1, <1>2, <1>7
  <2>3. transfers' # <<>>
    BY <2>1, <2>2
  <2>4. DOMAIN transfers' = 1 .. n /\ DOMAIN transfers = 1 .. Len(transfers)
    BY <1>1, <2>1
  <2>5. \A i \in 1 .. Len(transfers) : transfers'[i] = transfers[i]
    BY <1>1, <1>2
  <2>6. QED
    BY <2>1, <2>2, <2>3, <2>4, <2>5
<1> HIDE DEF n
<1>9. /\ balance[d] < 0 /\ balance[c] > 0
      /\ \A m \in Member :
            /\ balance[m] + Net(transfers, m) = open[m]
            /\ balance[m] <= 0 => balance[m] <= open[m] /\ open[m] <= 0
            /\ balance[m] >= 0 => 0 <= open[m] /\ open[m] <= balance[m]
      /\ balance[d] \in Int /\ balance[c] \in Int
  <2>1. \A m \in Member :
            /\ balance[m] + Net(transfers, m) = open[m]
            /\ balance[m] <= 0 => balance[m] <= open[m] /\ open[m] <= 0
            /\ balance[m] >= 0 => 0 <= open[m] /\ open[m] <= balance[m]
    BY DEF PlanInv, PlanIsExact
  <2>2. balance[d] \in Int /\ balance[c] \in Int
    BY <1>1, <1>3
  <2>3. QED
    BY <1>3, <1>5, <2>1, <2>2
<1>10. PlanTypeOK'
  BY <1>1, <1>2, <1>6, <1>8 DEF PlanTypeOK
<1>11. StageInv'
  <2> DEFINE half == [open EXCEPT ![d] = @ + a]
  <2>1. /\ half \in [Member -> Int] /\ half[d] = open[d] + a
        /\ \A m \in Member : m # d => half[m] = open[m]
    BY <1>1, <1>3, <1>4
  <2> HIDE DEF half
  <2>2. IsFiniteSet(Member)
    BY PlanMembers
  <2>3. SumOver(open, Member) = 0
    BY <1>2, TotalIsSum DEF PlanInv, StageInv, Closed
  <2>4. SumOver(half, Member) = SumOver(open, Member) + (open[d] + a) - open[d]
    <3>1. open[d] + a \in Int
      BY <1>4, <1>5
    <3>2. QED
      BY <1>1, <1>3, <2>2, <3>1, SumUpdate DEF half
  <2>5. SumOver(open', Member) = SumOver(half, Member) + (half[c] - a) - half[c]
    <3>1. half[c] - a \in Int
      BY <1>3, <1>4, <2>1
    <3>2. open' = [half EXCEPT ![c] = half[c] - a]
      BY <1>1, <1>2, <1>3, <1>4, <1>5 DEF half
    <3>3. QED
      BY <1>3, <2>1, <2>2, <3>1, <3>2, SumUpdate
  <2>6. half[c] = open[c]
    BY <1>3, <1>5, <2>1
  <2>7. SumOver(open', Member) = 0
    BY <1>4, <1>5, <1>6, <2>1, <2>3, <2>4, <2>5, <2>6
  <2>8. NetTotal(open') = 0
    BY <2>7, TotalIsSum
  <2>9. QED
    BY <1>2, <2>8 DEF StageInv, Closed
<1>12. ClosingInv'
  <2> SUFFICES ASSUME NEW i \in DOMAIN transfers'
               PROVE  /\ balance[transfers'[i].from] < 0 /\ balance[transfers'[i].to] > 0
                      /\ open'[transfers'[i].from] = 0 \/ open'[transfers'[i].to] = 0
    BY <1>2 DEF ClosingInv
  <2>1. CASE i = n
    <3>1. open'[d] = 0 \/ open'[c] = 0
      BY <1>4, <1>5, <1>6
    <3>2. transfers'[i] = t
      BY <1>8, <2>1
    <3>3. QED
      BY <1>7, <1>9, <3>1, <3>2
  <2>2. CASE i # n
    <3> DEFINE u == transfers[i]
    <3>1. i \in DOMAIN transfers /\ transfers'[i] = u
      BY <1>8, <2>2
    <3>2. u \in Transfer
      BY <1>1, <3>1
    <3>3. u.from \in Member /\ u.to \in Member
      BY <3>2 DEF Transfer
    <3>4. balance[u.from] < 0 /\ balance[u.to] > 0 /\ (open[u.from] = 0 \/ open[u.to] = 0)
      BY <3>1 DEF PlanInv, ClosingInv
    <3> HIDE DEF u
    <3>5. \A m \in Member : open[m] = 0 => open'[m] = 0
      BY <1>3, <1>6
    <3>6. QED
      BY <3>1, <3>3, <3>4, <3>5
  <2>3. QED
    BY <2>1, <2>2
<1>13. /\ CountInv'
       /\ n < Side(-1) + Side(1)
       /\ Side(-1)' = Side(-1) /\ Side(1)' = Side(1)
  <2> DEFINE D == Debtors
             C == Creditors
             E == Debtors'
             F == Creditors'
             s == Side(-1) + Side(1)
  <2>1. D \in SUBSET Member /\ C \in SUBSET Member /\ E \in SUBSET Member /\ F \in SUBSET Member
    BY DEF Debtors, Creditors
  <2>2. /\ IsFiniteSet(D) /\ IsFiniteSet(C) /\ IsFiniteSet(E) /\ IsFiniteSet(F)
        /\ Cardinality(D) \in Nat /\ Cardinality(C) \in Nat
        /\ Cardinality(E) \in Nat /\ Cardinality(F) \in Nat
    BY <2>1, PlanMembers
  <2>3. d \in D /\ c \in C
    BY <1>3 DEF Debtors, Creditors
  <2>4. E = (IF a = -open[d] THEN D \ {d} ELSE D)
    <3>1. \A m \in Member : open'[m] < 0 <=> open[m] < 0 /\ ~(m = d /\ a = -open[d])
      BY <1>3, <1>4, <1>5, <1>6
    <3>2. E = {m \in Member : open'[m] < 0} /\ D = {m \in Member : open[m] < 0}
      BY DEF Debtors
    <3> HIDE DEF E, D
    <3>3. QED
      BY <3>1, <3>2
  <2>5. F = (IF a = open[c] THEN C \ {c} ELSE C)
    <3>1. \A m \in Member : open'[m] > 0 <=> open[m] > 0 /\ ~(m = c /\ a = open[c])
      BY <1>3, <1>4, <1>5, <1>6
    <3>2. F = {m \in Member : open'[m] > 0} /\ C = {m \in Member : open[m] > 0}
      BY DEF Creditors
    <3> HIDE DEF F, C
    <3>3. QED
      BY <3>1, <3>2
  <2>6. Side(-1)' = Side(-1) /\ Side(1)' = Side(1)
    BY <1>2 DEF Side
  <2>7. s \in Int
    <3>1. {m \in Member : balance[m] * (-1) > 0} \in SUBSET Member
          /\ {m \in Member : balance[m] * 1 > 0} \in SUBSET Member
      OBVIOUS
    <3>2. Side(-1) \in Nat /\ Side(1) \in Nat
      BY <3>1, PlanMembers DEF Side
    <3>3. QED
      BY <3>2
  <2>8. Len(transfers) + Cardinality(D) + Cardinality(C) <= s
    <3>1. Len(transfers) + Cardinality(D) + Cardinality(C) <= s
      BY DEF PlanInv, CountInv
    <3>2. QED
      BY <2>2, <3>1
  <2> HIDE DEF D, C, E, F, s
  <2>9. /\ Cardinality(D \ {d}) = Cardinality(D) - 1 /\ Cardinality(C \ {c}) = Cardinality(C) - 1
        /\ Cardinality(D) > 0 /\ Cardinality(C) > 0
    <3>1. /\ Cardinality(D \ {d}) = Cardinality(D) - 1
          /\ Cardinality(C \ {c}) = Cardinality(C) - 1
      BY <2>2, <2>3, FS_RemoveElement
    <3>2. IsFiniteSet(D \ {d}) /\ IsFiniteSet(C \ {c})
      BY <2>2, FS_Subset
    <3>3. Cardinality(D \ {d}) \in Nat /\ Cardinality(C \ {c}) \in Nat
      BY <3>2, FS_CardinalityType
    <3>4. QED
      BY <2>2, <3>1, <3>3
  <2>10. n + Cardinality(E) + Cardinality(F) <= s
    BY <1>4, <1>8, <2>2, <2>4, <2>5, <2>7, <2>8, <2>9
  <2>11. E = {} /\ F = {} => n < s
    <3>1. E = {} /\ F = {} => E = D \ {d} /\ F = C \ {c}
      BY <2>3, <2>4, <2>5
    <3>2. E = {} /\ F = {} => Cardinality(E) = Cardinality(D) - 1 /\ Cardinality(F) = Cardinality(C) - 1
      BY <2>9, <3>1
    <3>3. Cardinality({}) = 0
      BY FS_EmptySet
    <3>4. QED
      BY <1>8, <2>2, <2>7, <2>8, <3>2, <3>3
  <2>12. n < s
    <3>1. E # {} => Cardinality(E) > 0
      BY <2>2, FS_EmptySet
    <3>2. F # {} => Cardinality(F) > 0
      BY <2>2, FS_EmptySet
    <3>3. QED
      BY <1>8, <2>2, <2>7, <2>10, <2>11, <3>1, <3>2
  <2>13. CountInv'
    <3>1. Len(transfers') + Cardinality(E) + Cardinality(F) <= s
      BY <1>8, <2>2, <2>10
    <3>2. Len(transfers') < s
      BY <1>8, <2>12
    <3>3. QED
      BY <2>6, <3>1, <3>2 DEF CountInv, E, F, s
  <2>14. QED
    BY <2>6, <2>12, <2>13 DEF s
<1>14. PlanIsExact'
  <2>1. at' # "unsettled"
    BY <1>2
  <2>2. Len(transfers') < Side(-1)' + Side(1)'
    BY <1>8, <1>13
  <2>3. ASSUME NEW m \in Member
        PROVE  /\ balance[m] + Net(transfers', m) = open'[m]
               /\ balance[m] <= 0 => balance[m] <= open'[m] /\ open'[m] <= 0
               /\ balance[m] >= 0 => 0 <= open'[m] /\ open'[m] <= balance[m]
    <3>1. /\ Net(transfers, m) \in Int
          /\ Net(transfers', m) = Net(transfers, m)
                + (IF m = d THEN a ELSE 0) - (IF m = c THEN a ELSE 0)
      <4>1. \A u \in Transfer : u.amount \in Int
        BY DEF Transfer
      <4>2. /\ Net(transfers, m) \in Int
            /\ Net(Append(transfers, t), m) = Net(transfers, m)
                  + (IF m = t.from THEN t.amount ELSE 0) - (IF m = t.to THEN t.amount ELSE 0)
        BY <1>1, <1>5, <1>7, <4>1, NetGrows
      <4>3. QED
        BY <1>2, <1>7, <4>2
    <3>2. balance[m] \in Int /\ open[m] \in Int /\ open'[m] \in Int
      BY <1>1, <1>6
    <3>3. /\ balance[m] + Net(transfers, m) = open[m]
          /\ balance[m] <= 0 => balance[m] <= open[m] /\ open[m] <= 0
          /\ balance[m] >= 0 => 0 <= open[m] /\ open[m] <= balance[m]
      BY <1>9
    <3>4. CASE m = d
      BY <1>4, <1>5, <1>6, <1>9, <3>1, <3>2, <3>3, <3>4
    <3>5. CASE m = c
      BY <1>4, <1>5, <1>6, <1>9, <3>1, <3>2, <3>3, <3>5
    <3>6. CASE m # d /\ m # c
      BY <1>6, <3>1, <3>2, <3>3, <3>6
    <3>7. QED
      BY <3>4, <3>5, <3>6
  <2>4. ASSUME NEW i \in DOMAIN transfers', NEW j \in DOMAIN transfers', i # j
        PROVE  \/ transfers'[i].from # transfers'[j].from
               \/ transfers'[i].to # transfers'[j].to
    <3>1. ASSUME NEW k \in DOMAIN transfers', k # n
          PROVE  transfers'[k].from # d \/ transfers'[k].to # c
      <4>1. k \in DOMAIN transfers /\ transfers'[k] = transfers[k]
        BY <1>8, <3>1
      <4>2. open[transfers[k].from] = 0 \/ open[transfers[k].to] = 0
        BY <4>1 DEF PlanInv, ClosingInv
      <4>3. open[d] # 0 /\ open[c] # 0
        BY <1>3, <1>5
      <4>4. QED
        BY <4>1, <4>2, <4>3
    <3>2. CASE i # n /\ j # n
      <4>1. /\ i \in DOMAIN transfers /\ transfers'[i] = transfers[i]
            /\ j \in DOMAIN transfers /\ transfers'[j] = transfers[j]
        BY <1>8, <3>2
      <4>2. \/ transfers[i].from # transfers[j].from
            \/ transfers[i].to # transfers[j].to
        BY <2>4, <4>1 DEF PlanInv, PlanIsExact
      <4>3. QED
        BY <4>1, <4>2
    <3>3. CASE i = n
      BY <1>7, <1>8, <2>4, <3>1, <3>3
    <3>4. CASE j = n
      BY <1>7, <1>8, <2>4, <3>1, <3>4
    <3>5. QED
      BY <3>2, <3>3, <3>4
  <2>5. QED
    BY <1>2, <2>1, <2>2, <2>3, <2>4 DEF PlanIsExact
<1>15. QED
  BY <1>10, <1>11, <1>12, <1>13, <1>14 DEF PlanInv

\* Validate, Match, Finish and Pay keep the invariant of the plan.
THEOREM PlanInvariance == PlanSpec => []PlanInv
<1>1. PlanInit => PlanInv
  <2>1. PlanInit => PlanBegun
    BY BalanceAssumption DEF PlanInit, PlanBegun
  <2>2. QED
    BY <2>1, PlanBegins
<1>2. PlanInv /\ [PlanNext]_planVars => PlanInv'
  <2> SUFFICES ASSUME PlanInv, [PlanNext]_planVars PROVE PlanInv'
    OBVIOUS
  <2>1. CASE Validate
    BY <2>1, ValidateKeepsPlan
  <2>2. CASE Match
    BY <2>2, MatchKeepsPlan
  <2>3. CASE Finish
    BY <2>3, FinishKeepsPlan
  <2>4. CASE Pay
    BY <2>4, PayKeepsPlan
  <2>5. CASE UNCHANGED planVars
    <3>1. UNCHANGED <<balance, open, transfers, at>>
      BY <2>5 DEF planVars
    <3>2. QED
      BY <3>1 DEF PlanInv, PlanTypeOK, StageInv, ClosingInv, CountInv,
                  PlanIsExact, Debtors, Creditors, Side
  <2>6. QED
    BY <2>1, <2>2, <2>3, <2>4, <2>5 DEF PlanNext
<1>3. QED
  BY <1>1, <1>2, PTL DEF PlanSpec

\* The variables of a plan hold what DebtSimplification says they hold.
THEOREM PlanTypes == PlanSpec => []PlanTypeOK
<1>1. PlanInv => PlanTypeOK
  BY DEF PlanInv
<1>2. QED
  BY <1>1, PlanInvariance, PTL

\* Whatever the balances of however many members, a plan settles everybody
\* with fewer transfers than there are members in it, and the check of the
\* result (_validate_result) never fails.
THEOREM PlansAreExact == PlanSpec => []PlanIsExact
<1>1. PlanInv => PlanIsExact
  BY DEF PlanInv
<1>2. QED
  BY <1>1, PlanInvariance, PTL

-----------------------------------------------------------------------------
(* Splits. *)

LEMMA SharesTotal ==
    ASSUME NEW f
    PROVE  Total(f) = SumOver(f, DOMAIN f)
<1> DEFINE g == CHOOSE g : Sums(f, DOMAIN f, g)
<1>1. Total(f) = g[DOMAIN f]
  BY DEF Total, FoldFunction, FoldFunctionOnSet, MapThenFoldSet, Sums, Some
<1>2. QED
  BY <1>1 DEF SumOver

AmountOf(S) == [x \in S |-> x.amount]

LEMMA AmountsTotal ==
    ASSUME NEW S, IsFiniteSet(S)
    PROVE  SumOf(S) = SumOver(AmountOf(S), S)
<1> DEFINE g == CHOOSE g : g = [s \in SUBSET S |-> IF s = {} THEN 0
                                  ELSE Some(s).amount + g[s \ {Some(s)}]]
<1>1. SumOf(S) = g[S]
  BY DEF SumOf, MapThenSumSet, MapThenFoldSet, Some
<1>2. ASSUME NEW h
      PROVE  Sums(AmountOf(S), S, h) <=>
             h = [s \in SUBSET S |-> IF s = {} THEN 0 ELSE Some(s).amount + h[s \ {Some(s)}]]
  <2>1. ASSUME NEW s \in SUBSET S, s # {} PROVE AmountOf(S)[Some(s)] = Some(s).amount
    BY <2>1, SomeIsMember DEF AmountOf
  <2>2. [s \in SUBSET S |-> IF s = {} THEN 0 ELSE AmountOf(S)[Some(s)] + h[s \ {Some(s)}]]
        = [s \in SUBSET S |-> IF s = {} THEN 0 ELSE Some(s).amount + h[s \ {Some(s)}]]
    BY <2>1
  <2>3. QED
    BY <2>2 DEF Sums
<1>3. Sums(AmountOf(S), S, g)
  <2>1. \E h : Sums(AmountOf(S), S, h)
    BY SumsExist
  <2>2. QED
    BY <1>2, <2>1
<1> HIDE DEF g
<1>4. \A s \in SUBSET S : g[s] = SumOver(AmountOf(S), s)
  BY <1>3, SumIsUnique
<1>5. QED
  BY <1>1, <1>4

OfUser(e, u) == {s \in e.shares : s.user = u}

LEMMA ExtrasTotal ==
    ASSUME NEW S, IsFiniteSet(S), NEW u, NEW f, \A e \in S : f[e] = SumOf(OfUser(e, u))
    PROVE  MapThenSumSet(LAMBDA e : SumOf(OfUser(e, u)), S) = SumOver(f, S)
<1> DEFINE g == CHOOSE g : g = [s \in SUBSET S |-> IF s = {} THEN 0
                                  ELSE SumOf(OfUser(Some(s), u)) + g[s \ {Some(s)}]]
<1>1. MapThenSumSet(LAMBDA e : SumOf(OfUser(e, u)), S) = g[S]
  BY DEF MapThenSumSet, MapThenFoldSet, Some
<1>2. ASSUME NEW h
      PROVE  Sums(f, S, h) <=>
             h = [s \in SUBSET S |-> IF s = {} THEN 0
                     ELSE SumOf(OfUser(Some(s), u)) + h[s \ {Some(s)}]]
  <2>1. ASSUME NEW s \in SUBSET S, s # {} PROVE f[Some(s)] = SumOf(OfUser(Some(s), u))
    BY <2>1, SomeIsMember
  <2>2. [s \in SUBSET S |-> IF s = {} THEN 0 ELSE f[Some(s)] + h[s \ {Some(s)}]]
        = [s \in SUBSET S |-> IF s = {} THEN 0
              ELSE SumOf(OfUser(Some(s), u)) + h[s \ {Some(s)}]]
    BY <2>1
  <2>3. QED
    BY <2>2 DEF Sums
<1>3. Sums(f, S, g)
  <2>1. \E h : Sums(f, S, h)
    BY SumsExist
  <2>2. QED
    BY <1>2, <2>1
<1> HIDE DEF g
<1>4. \A s \in SUBSET S : g[s] = SumOver(f, s)
  BY <1>3, SumIsUnique
<1>5. QED
  BY <1>1, <1>4

LEMMA Division ==
    ASSUME NEW n \in Nat \ {0}, NEW t \in Int
    PROVE  /\ t \div n \in Int /\ t % n \in 0 .. n - 1
           /\ t = n * (t \div n) + (t % n)
           /\ t >= 0 => t \div n >= 0
  OBVIOUS

LEMMA EqualSharesAddUp ==
    ASSUME NEW n \in Nat \ {0}, NEW t \in Nat
    PROVE  LET s == EqualShares(t, n)
           IN  /\ DOMAIN s = 1 .. n /\ SumOver(s, 1 .. n) = t
               /\ \A i \in 1 .. n : s[i] \in Nat
               /\ \A i, j \in 1 .. n : Distance(s[i], s[j]) <= 1
<1> DEFINE q == t \div n
           r == t % n
           turn == [i \in 1 .. n |-> IF i <= r THEN 1 ELSE 0]
           each == [i \in 1 .. n |-> q]
           one == [i \in 1 .. n |-> 1]
           s == EqualShares(t, n)
<1>1. q \in Nat /\ r \in 0 .. n /\ t = n * q + r
  BY Division
<1>2. s = [i \in 1 .. n |-> q + (IF i <= r THEN 1 ELSE 0)]
  BY DEF EqualShares
<1> HIDE DEF q, r, s
<1>3. IsFiniteSet(1 .. n)
  BY FS_Interval
<1>4. SumOver(turn, 1 .. n) = r
  BY <1>1, SumOfTurns
<1>5. SumOver(one, 1 .. n) = n
  BY SumOfTurns
<1>6. SumOver(each, 1 .. n) = q * n
  <2>1. one \in [1 .. n -> Int] /\ each = [i \in 1 .. n |-> q * one[i]]
    BY <1>1
  <2> HIDE DEF one, each
  <2>2. SumOver(each, 1 .. n) = q * SumOver(one, 1 .. n)
    BY <1>1, <1>3, <2>1, SumTimes
  <2>3. QED
    BY <1>5, <2>2
<1>7. SumOver(s, 1 .. n) = q * n + r
  <2>1. \A i \in 1 .. n : each[i] \in Int /\ turn[i] \in Int /\ s[i] = each[i] + turn[i]
    BY <1>1, <1>2
  <2> HIDE DEF turn, each
  <2>2. SumOver(s, 1 .. n) = SumOver(each, 1 .. n) + SumOver(turn, 1 .. n)
    BY <1>3, <2>1, SumPlus
  <2>3. QED
    BY <1>4, <1>6, <2>2
<1>8. SumOver(s, 1 .. n) = t
  <2>1. q * n = n * q
    BY <1>1
  <2>2. QED
    BY <1>1, <1>7, <2>1
<1>9. \A i \in 1 .. n : s[i] \in Nat /\ (s[i] = q \/ s[i] = q + 1)
  BY <1>1, <1>2
<1>10. \A i, j \in 1 .. n : Distance(s[i], s[j]) <= 1
  BY <1>1, <1>9 DEF Distance
<1>11. QED
  BY <1>2, <1>8, <1>9, <1>10 DEF s

LEMMA DivideByWhole ==
    ASSUME NEW x \in Nat
    PROVE  /\ x \div Whole \in Nat
           /\ Whole * (x \div Whole) <= x
           /\ x < Whole * (x \div Whole) + Whole
  BY DEF Whole

\* Rounding down leaves less than one unit for each participant.
LEMMA PercentageRest ==
    ASSUME NEW n \in Nat \ {0}, NEW t \in Nat, NEW p \in [1 .. n -> Nat],
           SumOver(p, 1 .. n) = Whole
    PROVE  LET floors == Floors(t, p)
           IN  /\ floors \in [1 .. n -> Nat]
               /\ \A i \in 1 .. n :
                     /\ t * p[i] \in Nat
                     /\ Whole * floors[i] <= t * p[i]
                     /\ t * p[i] < Whole * floors[i] + Whole
               /\ SumOver(floors, 1 .. n) \in Int
               /\ t - SumOver(floors, 1 .. n) \in 0 .. n - 1
<1> DEFINE w == Whole
           floors == Floors(t, p)
           x == [i \in 1 .. n |-> t * p[i]]
           S == 1 .. n
<1>1. \A i \in S : t * p[i] \in Nat /\ p[i] \in Int /\ x[i] = t * p[i]
  OBVIOUS
<1>2. x \in [S -> Nat] /\ p \in [S -> Int] /\ x = [i \in S |-> t * p[i]]
  BY <1>1
<1>3. floors = [i \in S |-> x[i] \div w]
  BY DEF Floors
<1>4. IsFiniteSet(S) /\ Cardinality(S) = n
  <2>1. 1 \in Int /\ n \in Int /\ ~(1 > n) /\ n - 1 + 1 = n
    OBVIOUS
  <2>2. IsFiniteSet(S) /\ Cardinality(S) = IF 1 > n THEN 0 ELSE n - 1 + 1
    BY <2>1, FS_Interval
  <2>3. QED
    BY <2>1, <2>2
<1>5. w \in Int /\ w - 1 \in Nat /\ t \in Int
  BY DEF Whole
<1> DEFINE v == w - 1
           left == [i \in S |-> x[i] - w * floors[i]]
           whole == [i \in S |-> w * floors[i]]
<1> HIDE DEF floors, x, S, w
<1>6. ASSUME NEW i \in S
      PROVE  /\ x[i] \in Nat /\ floors[i] \in Nat
             /\ w * floors[i] <= x[i] /\ x[i] < w * floors[i] + w
  <2>1. PICK y \in Nat : y = x[i]
    BY <1>2
  <2>2. floors[i] = y \div w
    BY <1>3, <2>1
  <2>3. QED
    BY <2>1, <2>2, DivideByWhole DEF w
<1>7. floors \in [S -> Nat] /\ floors \in [S -> Int]
  BY <1>3, <1>6
<1>8. SumOver(x, S) = t * w
  <2>1. SumOver(x, S) = t * SumOver(p, S)
    BY <1>2, <1>4, <1>5, SumTimes
  <2>2. QED
    BY <2>1 DEF S, w
<1>9. ASSUME NEW i \in S
      PROVE  /\ whole[i] \in Int /\ left[i] \in 0 .. v /\ left[i] \in Int
             /\ x[i] = whole[i] + left[i]
  <2>1. PICK y \in Nat, z \in Nat : y = x[i] /\ z = floors[i]
    BY <1>6
  <2>2. PICK m \in Int : m = w * z
    BY <1>5
  <2>3. m <= y /\ y < m + w
    BY <1>6, <2>1, <2>2
  <2>4. y - m \in 0 .. v /\ y = m + (y - m)
    BY <1>5, <2>3
  <2>5. whole[i] = m /\ left[i] = y - m
    BY <2>1, <2>2
  <2> HIDE DEF whole, left, v
  <2>6. QED
    BY <2>1, <2>4, <2>5
<1>10. left \in [S -> 0 .. v]
  <2>1. left = [i \in S |-> left[i]]
    OBVIOUS
  <2> HIDE DEF left, v
  <2>2. QED
    BY <1>9, <2>1
<1>11. whole = [i \in S |-> w * floors[i]]
  OBVIOUS
<1> HIDE DEF left, whole, v
<1>12. SumOver(whole, S) = w * SumOver(floors, S)
  BY <1>4, <1>5, <1>7, <1>11, SumTimes
<1>13. SumOver(x, S) = SumOver(whole, S) + SumOver(left, S)
  BY <1>4, <1>9, SumPlus
<1>14. 0 <= SumOver(left, S) /\ SumOver(left, S) <= v * Cardinality(S)
  BY <1>4, <1>5, <1>10, SumBounds DEF v
<1>15. SumOver(floors, S) \in Int /\ SumOver(left, S) \in Int
  <2>1. \A i \in S : floors[i] \in Int /\ left[i] \in Int
    BY <1>7, <1>9
  <2>2. QED
    BY <1>4, <2>1, SumType
<1>16. t - SumOver(floors, S) \in 0 .. n - 1
  <2>1. PICK f \in Int, l \in Int : f = SumOver(floors, S) /\ l = SumOver(left, S)
    BY <1>15
  <2>2. t * w = w * f + l /\ 0 <= l /\ l <= v * n
    BY <1>4, <1>8, <1>12, <1>13, <1>14, <2>1
  <2>3. t * 10000 = 10000 * f + l /\ 0 <= l /\ l <= 9999 * n
    BY <2>2, SMT DEF v, w, Whole
  <2>4. t - f \in 0 .. n - 1
    BY <2>3, SMT
  <2>5. QED
    BY <2>1, <2>4
<1>17. \A i \in S : /\ t * p[i] \in Nat /\ w * floors[i] <= t * p[i]
                    /\ t * p[i] < w * floors[i] + w
  <2> SUFFICES ASSUME NEW i \in S
               PROVE  /\ t * p[i] \in Nat /\ w * floors[i] <= t * p[i]
                      /\ t * p[i] < w * floors[i] + w
    OBVIOUS
  <2>1. x[i] = t * p[i]
    BY <1>1
  <2>2. QED
    BY <1>6, <2>1
<1>18. QED
  BY <1>7, <1>15, <1>16, <1>17, Zenon DEF S, floors, w

LEMMA PercentageSharesAddUp ==
    ASSUME NEW n \in Nat \ {0}, NEW t \in Nat, NEW p \in [1 .. n -> Nat],
           SumOver(p, 1 .. n) = Whole
    PROVE  LET s == PercentageShares(t, p)
           IN  /\ s \in [1 .. n -> Nat]
               /\ SumOver(s, 1 .. n) = t
               /\ \A i \in 1 .. n : Distance(s[i] * Whole, t * p[i]) <= Whole
<1> DEFINE S == 1 .. n
           floors == Floors(t, p)
           rest == t - SumOver(floors, S)
           turn == [i \in S |-> IF i <= rest THEN 1 ELSE 0]
           s == PercentageShares(t, p)
<1>1. /\ floors \in [S -> Nat]
      /\ \A i \in S : /\ t * p[i] \in Nat /\ Whole * floors[i] <= t * p[i]
                      /\ t * p[i] < Whole * floors[i] + Whole
      /\ SumOver(floors, S) \in Int
      /\ rest \in 0 .. n - 1
  BY PercentageRest
<1>2. s = [i \in S |-> floors[i] + (IF i <= rest THEN 1 ELSE 0)]
  <2>1. DOMAIN floors = S /\ DOMAIN p = S
    BY <1>1
  <2>2. Total(floors) = SumOver(floors, S)
    BY <2>1, SharesTotal
  <2>3. QED
    BY <2>1, <2>2 DEF PercentageShares
<1>3. \A i \in S : turn[i] = (IF i <= rest THEN 1 ELSE 0) /\ turn[i] \in Nat
  OBVIOUS
<1>4. IsFiniteSet(S) /\ floors \in [S -> Nat]
  <2>1. IsFiniteSet(S)
    BY FS_Interval
  <2>2. floors \in [S -> Nat]
    BY <1>1
  <2>3. QED
    BY <2>1, <2>2
<1>5. rest \in 0 .. n
  BY <1>1
<1> HIDE DEF floors, turn, s, rest
<1>6. SumOver(turn, S) = rest
  BY <1>3, <1>5, SumOfTurns
<1> HIDE DEF S
<1>7. ASSUME NEW i \in S
      PROVE  /\ floors[i] \in Int /\ turn[i] \in Int /\ s[i] = floors[i] + turn[i]
             /\ floors[i] \in Nat /\ s[i] \in Nat
             /\ s[i] = floors[i] \/ s[i] = floors[i] + 1
  <2>1. PICK f \in Nat : f = floors[i]
    BY <1>4
  <2>2. s[i] = f + turn[i] /\ (turn[i] = 0 \/ turn[i] = 1)
    BY <1>2, <1>3, <2>1
  <2>3. QED
    BY <2>1, <2>2
<1>8. s \in [S -> Nat]
  BY <1>2, <1>7
<1>9. SumOver(s, S) = t
  <2>1. \A i \in S : floors[i] \in Int /\ turn[i] \in Int /\ s[i] = floors[i] + turn[i]
    BY <1>7
  <2>2. SumOver(s, S) = SumOver(floors, S) + SumOver(turn, S)
    BY <1>4, <2>1, SumPlus
  <2>3. PICK f \in Int : f = SumOver(floors, S)
    BY <1>1 DEF S
  <2>4. rest = t - f
    BY <2>3 DEF rest
  <2>5. QED
    BY <1>6, <2>2, <2>3, <2>4
<1>10. ASSUME NEW i \in S
       PROVE  Distance(s[i] * Whole, t * p[i]) <= Whole
  <2>1. t * p[i] \in Nat
    BY <1>1 DEF S
  <2>2. PICK x \in Nat : x = t * p[i]
    BY <2>1
  <2>3. PICK f \in Nat, d \in Nat : f = floors[i] /\ d = s[i]
    BY <1>7
  <2>4. Whole * f <= x /\ x < Whole * f + Whole
    BY <1>1, <2>2, <2>3 DEF S
  <2>5. d = f \/ d = f + 1
    BY <1>7, <2>3
  <2>6. Distance(d * Whole, x) <= Whole
    BY <2>4, <2>5 DEF Distance, Whole
  <2>7. QED
    BY <2>2, <2>3, <2>6
<1>11. QED
  BY <1>8, <1>9, <1>10 DEF s, S

LEMMA PreviewOfPercentages ==
    ASSUME NEW n \in Nat \ {0}, NEW t \in Nat, NEW p \in [1 .. n -> Nat],
           SumOver(p, 1 .. n) = Whole, \A i \in 1 .. n : p[i] # 0
    PROVE  PreviewPercentages(t, p) = PercentageShares(t, p)
<1> DEFINE S == 1 .. n
           floors == Floors(t, p)
           rest == t - Total(floors)
           Paying(last) == {j \in 1 .. last : p[j] > 0}
           all == Cardinality(Paying(Len(p)))
<1>1. floors \in [S -> Nat] /\ t - SumOver(floors, S) \in 0 .. n - 1
  BY PercentageRest
<1>2. rest \in 0 .. n - 1
  BY <1>1, SharesTotal
<1>3. ASSUME NEW i \in S PROVE Cardinality(Paying(i)) = i
  <2>1. Paying(i) = 1 .. i
    OBVIOUS
  <2>2. 1 \in Int /\ i \in Int /\ ~(1 > i) /\ i - 1 + 1 = i
    OBVIOUS
  <2>3. Cardinality(1 .. i) = IF 1 > i THEN 0 ELSE i - 1 + 1
    BY <2>2, FS_Interval
  <2> HIDE DEF Paying
  <2>4. Cardinality(Paying(i)) = i
    BY <2>1, <2>2, <2>3
  <2>5. QED
    BY <2>4
<1>4. Len(p) = n /\ n \in S
  OBVIOUS
<1>5. all = n
  BY <1>3, <1>4
<1> HIDE DEF floors, rest, Paying, all
<1>6. rest \div all = 0 /\ rest % all = rest
  BY <1>2, <1>5
<1>7. DOMAIN p = S
  OBVIOUS
<1>8. PreviewPercentages(t, p) =
          [i \in DOMAIN p |->
              floors[i] +
              IF p[i] = 0 THEN 0
              ELSE rest \div all
                   + (IF Cardinality(Paying(i)) <= rest % all THEN 1 ELSE 0)]
  BY DEF PreviewPercentages, floors, rest, Paying, all
<1>9. PercentageShares(t, p) = [i \in DOMAIN p |-> floors[i] + (IF i <= rest THEN 1 ELSE 0)]
  BY DEF PercentageShares, floors, rest
<1>10. \A i \in S : rest \div all + (IF Cardinality(Paying(i)) <= rest % all THEN 1 ELSE 0)
                    = (IF i <= rest THEN 1 ELSE 0)
  BY <1>3, <1>6
<1>11. QED
  BY <1>7, <1>8, <1>9, <1>10

\* The image of a finite set.
LEMMA FiniteImage ==
    ASSUME NEW S, IsFiniteSet(S), NEW f
    PROVE  IsFiniteSet({f[x] : x \in S})
<1> DEFINE Good == {s \in SUBSET S : IsFiniteSet({f[x] : x \in s})}
<1>1. {} \in Good
  <2>1. {f[x] : x \in {}} = {}
    OBVIOUS
  <2>2. QED
    BY <2>1, FS_EmptySet
<1>2. ASSUME NEW s \in SUBSET S, NEW x \in S, s \in Good, x \notin s
      PROVE  s \union {x} \in Good
  <2>1. {f[y] : y \in s \union {x}} = {f[y] : y \in s} \union {f[x]}
    OBVIOUS
  <2>2. IsFiniteSet({f[y] : y \in s})
    BY <1>2
  <2>3. IsFiniteSet({f[y] : y \in s} \union {f[x]})
    BY <2>2, FS_AddElement
  <2>4. QED
    BY <2>1, <2>3
<1>3. S \in Good
  <2> HIDE DEF Good
  <2>1. QED
    BY <1>1, <1>2, SetInduction
<1>4. QED
  BY <1>3

\* What an itemized request says of lines, assignments and extra amounts.
ItemizedFacts(q) ==
    /\ q \in ItemizedRequest
    /\ IsFiniteSet(q.assigned) /\ IsFiniteSet(q.extras)
    /\ \A e \in q.extras : IsFiniteSet(e.shares)

LEMMA PayersAreFinite ==
    ASSUME NEW q, ItemizedFacts(q)
    PROVE  IsFiniteSet(Payers(q))
<1> DEFINE user(S) == [x \in S |-> x.user]
           of == [e \in q.extras |-> {s.user : s \in e.shares}]
<1>1. ASSUME NEW S, IsFiniteSet(S) PROVE IsFiniteSet({x.user : x \in S})
  <2>1. {x.user : x \in S} = {user(S)[x] : x \in S}
    OBVIOUS
  <2> HIDE DEF user
  <2>2. IsFiniteSet({user(S)[x] : x \in S})
    BY <1>1, FiniteImage
  <2>3. QED
    BY <2>1, <2>2
<1>2. {{s.user : s \in e.shares} : e \in q.extras} = {of[e] : e \in q.extras}
  OBVIOUS
<1>3. IsFiniteSet({of[e] : e \in q.extras})
  <2> HIDE DEF of
  <2>1. QED
    BY FiniteImage DEF ItemizedFacts
<1>4. \A T \in {{s.user : s \in e.shares} : e \in q.extras} : IsFiniteSet(T)
  BY <1>1 DEF ItemizedFacts
<1>5. IsFiniteSet(UNION {{s.user : s \in e.shares} : e \in q.extras})
  BY <1>2, <1>3, <1>4, FS_UNION
<1>6. IsFiniteSet({a.user : a \in q.assigned})
  BY <1>1 DEF ItemizedFacts
<1>7. QED
  BY <1>5, <1>6, FS_Union DEF Payers

\* Amounts added up group by group.
LEMMA AmountsByKey ==
    ASSUME NEW S, IsFiniteSet(S), \A x \in S : x.amount \in Nat,
           NEW K, IsFiniteSet(K), NEW key \in [S -> K],
           NEW g, \A k \in K : g[k] = SumOf({x \in S : key[x] = k})
    PROVE  SumOver(g, K) = SumOf(S)
<1> DEFINE f == AmountOf(S)
           h == [k \in K |-> SumOver(f, {x \in S : key[x] = k})]
<1>1. f \in [S -> Int] /\ h = [k \in K |-> SumOver(f, {x \in S : key[x] = k})]
  BY DEF AmountOf
<1>2. ASSUME NEW k \in K PROVE g[k] = h[k]
  <2> DEFINE mine == {x \in S : key[x] = k}
  <2>1. IsFiniteSet(mine) /\ g[k] = SumOf(mine) /\ mine \subseteq S
    BY FS_Subset
  <2>2. \A x \in mine : AmountOf(mine)[x] = f[x]
    BY DEF AmountOf
  <2>3. h[k] = SumOver(f, mine)
    OBVIOUS
  <2> HIDE DEF mine, f, h
  <2>4. SumOver(AmountOf(mine), mine) = SumOver(f, mine)
    BY <2>1, <2>2, SumCongruent
  <2>5. QED
    BY <2>1, <2>3, <2>4, AmountsTotal
<1>3. SumOver(f, S) = SumOf(S)
  BY AmountsTotal
<1> HIDE DEF f, h
<1>4. SumOver(h, K) = SumOver(f, S)
  BY <1>1, SumByKey
<1>5. SumOver(g, K) = SumOver(h, K)
  BY <1>2, SumCongruent
<1>6. QED
  BY <1>3, <1>4, <1>5

\* An itemized expense costs what its lines and its extra amounts cost.
LEMMA ItemizedAddsUp ==
    ASSUME NEW q, ItemizedFacts(q), ItemizedShares(q) # Refused
    PROVE  LET s == ItemizedShares(q)
           IN  /\ DOMAIN s = Payers(q)
               /\ \A u \in Payers(q) : s[u] \in Nat
               /\ Total(s) = q.total
               /\ Total(s) = Total(q.lines) + SumOf(q.extras)
<1> DEFINE U == Payers(q)
           A == q.assigned
           X == q.extras
           L == DOMAIN q.lines
           s == [u \in U |-> PaidBy(q, u)]
           byLine == [u \in U |-> SumOf({a \in A : a.user = u})]
           row == [e \in X |-> [u \in U |-> SumOf(OfUser(e, u))]]
           col == [u \in U |-> [e \in X |-> SumOf(OfUser(e, u))]]
           byExtra == [u \in U |-> SumOver(col[u], X)]
<1>1. /\ ItemizedShares(q) = s /\ Total(s) = q.total
      /\ KnownLines(q) /\ LinesPaid(q) /\ ExtrasPaid(q)
  BY DEF ItemizedShares
<1>2. /\ q.lines \in Seq(Nat) /\ A \in SUBSET Assignment /\ X \in SUBSET Extra
      /\ IsFiniteSet(A) /\ IsFiniteSet(X) /\ \A e \in X : IsFiniteSet(e.shares)
  BY DEF ItemizedFacts, ItemizedRequest
<1>3. IsFiniteSet(U)
  BY PayersAreFinite
<1>4. \A a \in A : a.amount \in Nat /\ a.user \in U /\ a.line \in L
  BY <1>1, <1>2 DEF Assignment, Payers, KnownLines
<1>5. \A e \in X : /\ e.amount \in Nat /\ IsFiniteSet(e.shares)
                   /\ \A x \in e.shares : x.amount \in Nat /\ x.user \in U
                   /\ SumOf(e.shares) = e.amount
  <2> SUFFICES ASSUME NEW e \in X
               PROVE  /\ e.amount \in Nat /\ IsFiniteSet(e.shares)
                      /\ \A x \in e.shares : x.amount \in Nat /\ x.user \in U
                      /\ SumOf(e.shares) = e.amount
    OBVIOUS
  <2>1. e.amount \in Nat /\ e.shares \in SUBSET Share /\ IsFiniteSet(e.shares)
    BY <1>2 DEF Extra
  <2>2. \A x \in e.shares : x.amount \in Nat
    BY <2>1 DEF Share
  <2>3. \A x \in e.shares : x.user \in U
    BY DEF Payers
  <2>4. QED
    BY <1>1, <2>1, <2>2, <2>3 DEF ExtrasPaid
<1>6. ASSUME NEW S, IsFiniteSet(S), \A x \in S : x.amount \in Nat
      PROVE  SumOf(S) \in Nat
  <2>1. \A x \in S : AmountOf(S)[x] \in Nat
    BY <1>6 DEF AmountOf
  <2>2. QED
    BY <1>6, <2>1, AmountsTotal, SumNat
<1>7. \A u \in U : byLine[u] \in Nat
  <2> SUFFICES ASSUME NEW u \in U PROVE SumOf({a \in A : a.user = u}) \in Nat
    OBVIOUS
  <2>1. IsFiniteSet({a \in A : a.user = u})
    BY <1>2, FS_Subset
  <2>2. \A a \in {a \in A : a.user = u} : a.amount \in Nat
    BY <1>4
  <2>3. QED
    BY <1>6, <2>1, <2>2
<1>8. \A e \in X, u \in U : /\ row[e][u] = SumOf(OfUser(e, u))
                            /\ row[e][u] \in Nat /\ col[u][e] = row[e][u]
                            /\ SumOf(OfUser(e, u)) \in Int
  <2> SUFFICES ASSUME NEW e \in X, NEW u \in U PROVE SumOf(OfUser(e, u)) \in Nat
    OBVIOUS
  <2>1. IsFiniteSet(OfUser(e, u))
    BY <1>5, FS_Subset DEF OfUser
  <2>2. \A x \in OfUser(e, u) : x.amount \in Nat
    BY <1>5 DEF OfUser
  <2>3. QED
    BY <1>6, <2>1, <2>2
<1>9. \A u \in U : s[u] = byLine[u] + byExtra[u] /\ byExtra[u] \in Nat
  <2> SUFFICES ASSUME NEW u \in U
               PROVE  PaidBy(q, u) = byLine[u] + byExtra[u] /\ byExtra[u] \in Nat
    OBVIOUS
  <2> DEFINE extra == MapThenSumSet(LAMBDA e : SumOf(OfUser(e, u)), X)
  <2>1. \A e \in X : col[u][e] \in Nat /\ col[u][e] = SumOf(OfUser(e, u))
    BY <1>8
  <2>2. extra = SumOver(col[u], X)
    BY <1>2, <2>1, ExtrasTotal
  <2>3. PaidBy(q, u) = SumOf({a \in A : a.user = u}) + extra
    BY DEF PaidBy, OfUser
  <2>4. byLine[u] = SumOf({a \in A : a.user = u}) /\ byExtra[u] = SumOver(col[u], X)
    OBVIOUS
  <2> HIDE DEF extra, col, byLine, byExtra
  <2>5. SumOver(col[u], X) \in Nat
    BY <1>2, <2>1, SumNat
  <2>6. QED
    BY <2>2, <2>3, <2>4, <2>5
<1>10. \A u \in U : s[u] \in Nat /\ s[u] \in Int /\ byLine[u] \in Int /\ byExtra[u] \in Int
  <2> HIDE DEF s, byLine, byExtra
  <2>1. QED
    BY <1>7, <1>9
<1>11. SumOver(byLine, U) = SumOf(A)
  <2> DEFINE key == [a \in A |-> a.user]
  <2>1. key \in [A -> U] /\ \A a \in A : a.amount \in Nat
    BY <1>4
  <2>2. \A u \in U : byLine[u] = SumOf({a \in A : key[a] = u})
    <3> SUFFICES ASSUME NEW u \in U PROVE {a \in A : a.user = u} = {a \in A : key[a] = u}
      OBVIOUS
    <3>1. QED
      OBVIOUS
  <2> HIDE DEF key, byLine
  <2>3. QED
    BY <1>2, <1>3, <2>1, <2>2, AmountsByKey
<1>12. SumOver(q.lines, L) = SumOf(A)
  <2> DEFINE key == [a \in A |-> a.line]
  <2>1. key \in [A -> L] /\ \A a \in A : a.amount \in Nat
    BY <1>4
  <2>2. \A l \in L : q.lines[l] = SumOf({a \in A : key[a] = l})
    <3> SUFFICES ASSUME NEW l \in L PROVE q.lines[l] = SumOf({a \in A : key[a] = l})
      OBVIOUS
    <3>1. q.lines[l] = SumOf(OfLine(q, l))
      BY <1>1 DEF LinesPaid
    <3>2. OfLine(q, l) = {a \in A : key[a] = l}
      BY DEF OfLine
    <3>3. QED
      BY <3>1, <3>2
  <2>3. IsFiniteSet(L)
    <3>1. L = 1 .. Len(q.lines) /\ Len(q.lines) \in Nat
      BY <1>2
    <3>2. QED
      BY <3>1, FS_Interval
  <2> HIDE DEF key, L
  <2>4. QED
    BY <1>2, <2>1, <2>2, <2>3, AmountsByKey
<1>13. ASSUME NEW e \in X PROVE SumOver(row[e], U) = e.amount
  <2> DEFINE key == [x \in e.shares |-> x.user]
             r == row[e]
  <2>1. key \in [e.shares -> U] /\ \A x \in e.shares : x.amount \in Nat
    BY <1>5
  <2>2. \A u \in U : r[u] = SumOf({x \in e.shares : key[x] = u})
    <3> SUFFICES ASSUME NEW u \in U PROVE OfUser(e, u) = {x \in e.shares : key[x] = u}
      OBVIOUS
    <3>1. QED
      BY DEF OfUser
  <2>3. IsFiniteSet(e.shares) /\ SumOf(e.shares) = e.amount
    BY <1>5
  <2> HIDE DEF key, r
  <2>4. SumOver(r, U) = SumOf(e.shares)
    BY <1>3, <2>1, <2>2, <2>3, AmountsByKey
  <2>5. QED
    BY <2>3, <2>4 DEF r
<1>14. SumOver(byExtra, U) = SumOf(X)
  <2> DEFINE f == [e \in X |-> SumOver(row[e], U)]
  <2>1. \A e \in X : f[e] = AmountOf(X)[e]
    BY <1>13 DEF AmountOf
  <2>2. byExtra = RowSums(col, U, X) /\ f = RowSums(row, X, U)
    BY DEF RowSums
  <2>3. row \in [X -> [U -> Int]]
    <3>1. \A e \in X, u \in U : SumOf(OfUser(e, u)) \in Int
      BY <1>8
    <3>2. QED
      BY <3>1
  <2>4. col = Columns(row, X, U)
    BY DEF Columns
  <2>5. SumOver(AmountOf(X), X) = SumOf(X)
    BY <1>2, AmountsTotal
  <2> HIDE DEF f, row, col, byExtra
  <2>6. SumOver(f, X) = SumOver(byExtra, U)
    BY <1>2, <1>3, <2>2, <2>3, <2>4, SumSwap
  <2>7. SumOver(f, X) = SumOver(AmountOf(X), X)
    BY <1>2, <2>1, SumCongruent
  <2>8. QED
    BY <2>5, <2>6, <2>7
<1>15. DOMAIN s = U
  OBVIOUS
<1> HIDE DEF s, byLine, byExtra
<1>16. SumOver(s, U) = SumOver(byLine, U) + SumOver(byExtra, U)
  BY <1>3, <1>9, <1>10, SumPlus
<1>17. Total(s) = Total(q.lines) + SumOf(X)
  <2>1. Total(s) = SumOver(s, U) /\ Total(q.lines) = SumOver(q.lines, L)
    BY <1>15, SharesTotal
  <2>2. QED
    BY <1>11, <1>12, <1>14, <1>16, <2>1
<1>18. QED
  BY <1>1, <1>10, <1>15, <1>17

LEMMA RequestFacts ==
    ASSUME NEW q \in SplitRequest
    PROVE  /\ q.type \in {"equal", "percentage", "fixed_amount"} /\ q.total \in Int
           /\ \E n \in Nat \ {0} : /\ q.values \in [1 .. n -> Nat] /\ Len(q.values) = n
                                   /\ DOMAIN q.values = 1 .. n /\ q.values \in Seq(Nat)
                                   /\ Total(q.values) = SumOver(q.values, 1 .. n)
<1>1. q.type \in {"equal", "percentage", "fixed_amount"} /\ q.total \in Int
  BY SplitAssumption DEF SplitRequest
<1>2. PICK n \in 1 .. MaxMembers : q.values \in [1 .. n -> Values]
  BY DEF SplitRequest
<1>3. n \in Nat \ {0} /\ q.values \in [1 .. n -> Nat]
  <2>1. Values \subseteq Nat /\ MaxMembers \in Nat
    BY SplitAssumption
  <2>2. n \in Nat \ {0}
    BY <2>1
  <2>3. QED
    BY <1>2, <2>1, <2>2
<1>4. DOMAIN q.values = 1 .. n /\ q.values \in Seq(Nat) /\ Len(q.values) = n
  BY <1>3
<1>5. Total(q.values) = SumOver(q.values, 1 .. n)
  BY <1>4, SharesTotal
<1>6. QED
  BY <1>1, <1>3, <1>4, <1>5

LEMMA ItemizedRequestFacts ==
    ASSUME NEW q \in Itemized
    PROVE  ItemizedFacts(q) /\ q.type = "itemized" /\ q.total \in Int
<1>1. q \in ItemizedRequest
  BY SplitAssumption
<1>2. q.type = "itemized" /\ q.total \in Int
  BY <1>1 DEF ItemizedRequest
<1>3. /\ IsFiniteSet(q.assigned) /\ IsFiniteSet(q.extras)
      /\ \A e \in q.extras : IsFiniteSet(e.shares)
  BY SplitAssumption
<1>4. QED
  BY <1>1, <1>2, <1>3 DEF ItemizedFacts

\* What StoredShares and PreviewShares answer, branch by branch.
LEMMA Branches ==
    ASSUME NEW q, q.total \in Int,
           q.type \in {"equal", "percentage", "fixed_amount", "itemized"}
    PROVE  /\ q.total <= 0 => StoredShares(q) = Refused /\ PreviewShares(q) = Refused
           /\ q.total > 0 /\ q.type = "equal" =>
                 /\ StoredShares(q) = EqualShares(q.total, Len(q.values))
                 /\ PreviewShares(q) = PreviewEqual(q.total, Len(q.values))
           /\ q.total > 0 /\ q.type = "percentage" =>
                 /\ StoredShares(q) = IF Total(q.values) = Whole
                                            THEN PercentageShares(q.total, q.values)
                                            ELSE Refused
                 /\ PreviewShares(q) # Refused =>
                       /\ Total(q.values) = Whole
                       /\ PreviewShares(q) = PreviewPercentages(q.total, q.values)
           /\ q.total > 0 /\ q.type = "fixed_amount" =>
                 /\ StoredShares(q) = IF Total(q.values) = q.total
                                            THEN q.values ELSE Refused
                 /\ PreviewShares(q) = StoredShares(q)
           /\ q.total > 0 /\ q.type = "itemized" =>
                 StoredShares(q) = ItemizedShares(q)
<1>1. ~(q.total <= 0 /\ q.total > 0) /\ (q.total <= 0 \/ q.total > 0)
  OBVIOUS
<1>2. q.total <= 0 => StoredShares(q) = Refused /\ PreviewShares(q) = Refused
  BY <1>1 DEF StoredShares, PreviewShares
<1>3. q.total > 0 /\ q.type = "equal" =>
          /\ StoredShares(q) = EqualShares(q.total, Len(q.values))
          /\ PreviewShares(q) = PreviewEqual(q.total, Len(q.values))
  BY <1>1 DEF StoredShares, PreviewShares
<1>4. q.total > 0 /\ q.type = "percentage" =>
          /\ StoredShares(q) = IF Total(q.values) = Whole
                                     THEN PercentageShares(q.total, q.values)
                                     ELSE Refused
          /\ PreviewShares(q) # Refused =>
                /\ Total(q.values) = Whole
                /\ PreviewShares(q) = PreviewPercentages(q.total, q.values)
  BY <1>1 DEF StoredShares, PreviewShares
<1>5. q.total > 0 /\ q.type = "fixed_amount" =>
          /\ StoredShares(q) = IF Total(q.values) = q.total
                                     THEN q.values ELSE Refused
          /\ PreviewShares(q) = StoredShares(q)
  BY <1>1 DEF StoredShares, PreviewShares, ExactShares
<1>6. q.total > 0 /\ q.type = "itemized" => StoredShares(q) = ItemizedShares(q)
  BY <1>1 DEF StoredShares
<1>7. QED
  BY <1>2, <1>3, <1>4, <1>5, <1>6

LEMMA StoredIsRight ==
    ASSUME NEW q \in SplitRequest \union Itemized,
           StoredShares(q) # Refused
    PROVE  LET s == StoredShares(q)
           IN  /\ Total(s) = q.total
               /\ \A i \in DOMAIN s : s[i] >= 0
               /\ q.type = "itemized" =>
                     Total(s) = Total(q.lines) + SumOf(q.extras)
               /\ q.type = "equal" =>
                     \A i, j \in DOMAIN s : Distance(s[i], s[j]) <= 1
               /\ q.type = "percentage" =>
                     \A i \in DOMAIN s :
                        Distance(s[i] * Whole, q.total * q.values[i]) <= Whole
<1> DEFINE s == StoredShares(q)
<1>1. CASE q \in Itemized
  <2>1. ItemizedFacts(q) /\ q.type = "itemized" /\ q.total \in Int
    BY <1>1, ItemizedRequestFacts
  <2>2. q.total > 0 /\ s = ItemizedShares(q)
    <3>1. q.type \in {"equal", "percentage", "fixed_amount", "itemized"}
      BY <2>1
    <3>2. QED
      BY <2>1, <3>1, Branches
  <2> HIDE DEF s
  <2>3. /\ DOMAIN s = Payers(q)
        /\ \A u \in Payers(q) : s[u] \in Nat
        /\ Total(s) = q.total
        /\ Total(s) = Total(q.lines) + SumOf(q.extras)
    <3>1. ItemizedShares(q) # Refused
      BY <2>2 DEF s
    <3>2. QED
      BY <2>1, <2>2, <3>1, ItemizedAddsUp
  <2>4. \A i \in DOMAIN s : s[i] >= 0
    BY <2>3
  <2>5. q.type # "equal" /\ q.type # "percentage"
    BY <2>1
  <2>6. QED
    BY <2>3, <2>4, <2>5 DEF s
<1>2. CASE q \in SplitRequest
  <2>1. q.type \in {"equal", "percentage", "fixed_amount"} /\ q.total \in Int
    BY <1>2, RequestFacts
  <2>2. PICK n \in Nat \ {0} : /\ q.values \in [1 .. n -> Nat] /\ Len(q.values) = n
                               /\ DOMAIN q.values = 1 .. n /\ q.values \in Seq(Nat)
                               /\ Total(q.values) = SumOver(q.values, 1 .. n)
    BY <1>2, RequestFacts
  <2>3. q.type \in {"equal", "percentage", "fixed_amount", "itemized"} /\ q.type # "itemized"
    BY <2>1
  <2>4. q.total > 0 /\ q.total \in Nat
    BY <2>1, <2>3, Branches
  <2>5. CASE q.type = "equal"
    <3>1. s = EqualShares(q.total, n)
      BY <2>1, <2>2, <2>3, <2>4, <2>5, Branches
    <3> HIDE DEF s
    <3>2. /\ DOMAIN s = 1 .. n /\ SumOver(s, 1 .. n) = q.total
          /\ \A i \in 1 .. n : s[i] \in Nat
          /\ \A i, j \in 1 .. n : Distance(s[i], s[j]) <= 1
      BY <2>4, <3>1, EqualSharesAddUp
    <3>3. Total(s) = q.total
      BY <3>2, SharesTotal
    <3>4. \A i \in DOMAIN s : s[i] >= 0
      BY <3>2
    <3>5. q.type # "percentage"
      BY <2>5
    <3>6. QED
      BY <2>3, <3>2, <3>3, <3>4, <3>5 DEF s
  <2>6. CASE q.type = "percentage"
    <3>1. s = PercentageShares(q.total, q.values) /\ Total(q.values) = Whole
      BY <2>1, <2>3, <2>4, <2>6, Branches
    <3> HIDE DEF s
    <3>2. /\ s \in [1 .. n -> Nat] /\ SumOver(s, 1 .. n) = q.total
          /\ \A i \in 1 .. n :
                Distance(s[i] * Whole, q.total * q.values[i]) <= Whole
      <4>1. SumOver(q.values, 1 .. n) = Whole
        BY <2>2, <3>1
      <4> DEFINE p == q.values
                 t == q.total
      <4>2. t \in Nat /\ p \in [1 .. n -> Nat] /\ SumOver(p, 1 .. n) = Whole
            /\ s = PercentageShares(t, p)
        BY <2>2, <2>4, <3>1, <4>1
      <4> HIDE DEF p, t
      <4>3. /\ s \in [1 .. n -> Nat] /\ SumOver(s, 1 .. n) = t
            /\ \A i \in 1 .. n : Distance(s[i] * Whole, t * p[i]) <= Whole
        BY <4>2, PercentageSharesAddUp
      <4>4. QED
        BY <4>3, Zenon DEF p, t
    <3>3. DOMAIN s = 1 .. n
      BY <3>2
    <3>4. Total(s) = q.total
      BY <3>2, <3>3, SharesTotal
    <3>5. \A i \in DOMAIN s : s[i] >= 0
      <4>1. \A i \in 1 .. n : s[i] \in Nat
        BY <3>2
      <4>2. QED
        BY <3>3, <4>1
    <3>6. q.type # "equal"
      BY <2>6
    <3>7. QED
      BY <2>3, <3>2, <3>3, <3>4, <3>5, <3>6, Zenon DEF s
  <2>7. CASE q.type = "fixed_amount"
    <3>1. s = q.values /\ Total(q.values) = q.total
      BY <2>1, <2>3, <2>4, <2>7, Branches
    <3>2. \A i \in DOMAIN s : s[i] >= 0
      BY <2>2, <3>1
    <3>3. q.type # "equal" /\ q.type # "percentage"
      BY <2>7
    <3>4. QED
      BY <2>3, <3>1, <3>2, <3>3
  <2>8. QED
    BY <2>1, <2>5, <2>6, <2>7
<1>3. QED
  BY <1>1, <1>2

LEMMA PreviewIsRight ==
    ASSUME NEW q \in SplitRequest, PreviewShares(q) # Refused
    PROVE  /\ StoredShares(q) # Refused
           /\ \/ StoredShares(q) = PreviewShares(q)
              \/ q.type = "percentage" /\ \E i \in DOMAIN q.values : q.values[i] = 0
<1>1. q.type \in {"equal", "percentage", "fixed_amount"} /\ q.total \in Int
  BY RequestFacts
<1>2. PICK n \in Nat \ {0} : /\ q.values \in [1 .. n -> Nat] /\ Len(q.values) = n
                             /\ DOMAIN q.values = 1 .. n /\ q.values \in Seq(Nat)
                             /\ Total(q.values) = SumOver(q.values, 1 .. n)
  BY RequestFacts
<1>3. q.type \in {"equal", "percentage", "fixed_amount", "itemized"}
  BY <1>1
<1>4. q.total > 0 /\ q.total \in Nat
  BY <1>1, <1>3, Branches
<1>5. Refused \notin Seq(Nat) /\ \A s \in [1 .. n -> Nat] : s # Refused
  <2>1. Refused \notin Seq(Nat)
    BY SplitAssumption
  <2>2. \A s \in [1 .. n -> Nat] : s \in Seq(Nat)
    OBVIOUS
  <2>3. QED
    BY <2>1, <2>2
<1>6. CASE q.type = "equal"
  <2> DEFINE s == EqualShares(q.total, n)
  <2>1. StoredShares(q) = s /\ PreviewShares(q) = PreviewEqual(q.total, n)
    BY <1>1, <1>2, <1>3, <1>4, <1>6, Branches
  <2>2. s \in [1 .. n -> Nat]
    <3>1. DOMAIN s = 1 .. n /\ \A i \in 1 .. n : s[i] \in Nat
      BY <1>4, EqualSharesAddUp
    <3>2. s = [i \in 1 .. n |-> s[i]]
      BY DEF EqualShares
    <3> HIDE DEF s
    <3>3. QED
      BY <3>1, <3>2
  <2>3. PreviewEqual(q.total, n) = s
    <3>1. q.total % n \in Int
      <4>1. q.total \in Int
        BY <1>1
      <4>2. q.total % n \in 0 .. n - 1
        BY <4>1, Division
      <4>3. QED
        BY <4>2
    <3>2. \A i \in 1 .. n : i - 1 < q.total % n <=> i <= q.total % n
      BY <3>1
    <3>3. QED
      BY <3>2 DEF PreviewEqual, EqualShares
  <2> HIDE DEF s
  <2>4. QED
    BY <1>5, <2>1, <2>2, <2>3
<1>7. CASE q.type = "percentage"
  <2>1. /\ Total(q.values) = Whole
        /\ PreviewShares(q) = PreviewPercentages(q.total, q.values)
        /\ StoredShares(q) = PercentageShares(q.total, q.values)
    BY <1>1, <1>3, <1>4, <1>7, Branches
  <2> DEFINE p == q.values
             t == q.total
  <2>2. t \in Nat /\ p \in [1 .. n -> Nat] /\ SumOver(p, 1 .. n) = Whole
    BY <1>2, <1>4, <2>1
  <2>3. PercentageShares(t, p) \in [1 .. n -> Nat]
    <3> HIDE DEF p, t
    <3>1. QED
      BY <2>2, PercentageSharesAddUp
  <2>4. (\A i \in 1 .. n : p[i] # 0) =>
            PreviewPercentages(t, p) = PercentageShares(t, p)
    <3> HIDE DEF p, t
    <3>1. QED
      BY <2>2, PreviewOfPercentages
  <2>5. StoredShares(q) # Refused
    BY <1>5, <2>1, <2>3
  <2>6. QED
    BY <1>2, <1>7, <2>1, <2>4, <2>5
<1>8. CASE q.type = "fixed_amount"
  BY <1>1, <1>3, <1>4, <1>8, Branches
<1>9. QED
  BY <1>1, <1>6, <1>7, <1>8

\* Send, SendDirectly, SendItemized and Store keep the invariant of the shares.
THEOREM SplitInvariance == SplitSpec => []SplitInv
<1>1. SplitInit => SplitInv
  BY DEF SplitInit, SplitInv
<1>2. SplitInv /\ [SplitNext]_splitVars => SplitInv'
  <2> SUFFICES ASSUME SplitInv, [SplitNext]_splitVars PROVE SplitInv'
    OBVIOUS
  <2>1. CASE Send
    <3>1. request \in SplitRequest
      <4>1. request \in Itemized => request.type = "itemized"
        BY ItemizedRequestFacts
      <4>2. QED
        BY <2>1, <4>1 DEF SplitInv, Send
    <3>2. QED
      BY <2>1, <3>1 DEF SplitInv, Send
  <2>2. CASE SendDirectly
    BY <2>2 DEF SplitInv, SendDirectly
  <2>3. CASE SendItemized
    BY <2>3 DEF SplitInv, SendItemized
  <2>4. CASE StoreShares
    BY <2>4 DEF SplitInv, StoreShares
  <2>5. CASE UNCHANGED splitVars
    BY <2>5 DEF SplitInv, splitVars
  <2>6. QED
    BY <2>1, <2>2, <2>3, <2>4, <2>5 DEF SplitNext
<1>3. QED
  BY <1>1, <1>2, PTL DEF SplitSpec

\* However many participants share whatever total, and however it is divided,
\* the stored shares are not negative and add up to the total.
THEOREM SharesAlwaysAddUp == SplitSpec => []SharesAddUp
<1>1. SplitInv => SharesAddUp
  BY StoredIsRight DEF SplitInv, SharesAddUp, Stored
<1>2. QED
  BY <1>1, SplitInvariance, PTL

\* An itemized expense of whatever lines and extra amounts pays each of them
\* once.
THEOREM ReceiptsArePaid == SplitSpec => []ReceiptIsPaid
<1>1. SplitInv => ReceiptIsPaid
  BY StoredIsRight DEF SplitInv, ReceiptIsPaid, Stored
<1>2. QED
  BY <1>1, SplitInvariance, PTL

\* Rounding costs nobody more than one unit.
THEOREM RoundingStaysFair == SplitSpec => []RoundingIsFair
<1>1. SplitInv => RoundingIsFair
  <2> SUFFICES ASSUME SplitInv, Stored PROVE RoundingIsFair
    BY DEF RoundingIsFair
  <2>1. stored = StoredShares(request) /\ stored # Refused
        /\ request \in SplitRequest \union Itemized
    BY DEF SplitInv, Stored
  <2>2. /\ request.type = "equal" =>
              \A i, j \in DOMAIN stored : Distance(stored[i], stored[j]) <= 1
        /\ request.type = "percentage" =>
              \A i \in DOMAIN stored :
                 Distance(stored[i] * Whole, request.total * request.values[i])
                     <= Whole
    BY <2>1, StoredIsRight
  <2>3. QED
    BY <2>2, Zenon DEF RoundingIsFair
<1>2. QED
  BY <1>1, SplitInvariance, PTL

\* What the form lets through the backend accepts and stores, except where it
\* rounds a percentage of zero.
THEOREM PreviewsAreStored == SplitSpec => []PreviewIsStored
<1>1. SplitInv => PreviewIsStored
  <2> SUFFICES ASSUME SplitInv, Previewed
               PROVE  /\ stored # Refused
                      /\ \/ stored = preview
                         \/ request.type = "percentage"
                            /\ \E i \in DOMAIN request.values : request.values[i] = 0
    BY DEF PreviewIsStored
  <2>1. /\ request \in SplitRequest /\ PreviewShares(request) # Refused
        /\ preview = PreviewShares(request) /\ stored = StoredShares(request)
    BY DEF SplitInv, Previewed
  <2>2. QED
    BY <2>1, PreviewIsRight
<1>2. QED
  BY <1>1, SplitInvariance, PTL
=============================================================================
