------------------------ MODULE TransactionSyncProofs ------------------------
(* Proofs about TransactionSync for any records, claims, requests and       *)
(* scenarios.                                                               *)
EXTENDS TransactionSync, TLAPS

ClaimAnswer == {"accepted", "duplicate", "rejected"}
Reply == [key: Key, batch: Seq(Item), answer: Seq(ClaimAnswer)]

-----------------------------------------------------------------------------
(* What a transaction sees, and what stays true of it.                     *)

\* The row of rec for t when c is committed.
SeenRow(t, c, rec) == IF t.wrote[rec] # NoRow THEN t.wrote[rec] ELSE c[rec]

LEMMA SeenRows ==
    \A r \in Request, rec \in Record :
        /\ Seen(r)[rec] = SeenRow(tx[r], cloud, rec)
        /\ Seen(r)'[rec] = SeenRow(tx'[r], cloud', rec)
        /\ rec \in Wrote(r) <=> tx[r].wrote[rec] # NoRow
        /\ rec \in Wrote(r)' <=> tx'[r].wrote[rec] # NoRow
  BY DEF Seen, Wrote, SeenRow

\* ResultInv and UnderwayInv for one transaction.
ResultsOk(t, c, o) ==
    \A i \in 1 .. Len(t.results) :
        LET item == t.call.batch[i]
            row  == SeenRow(t, c, item.record)
        IN  \/ t.results[i] = "rejected" \/ item.record \in o
            \/ row.state # "none" /\ Holds(item, t.results[i], row)

UnderwayOk(t, c, o) ==
    LET row == SeenRow(t, c, Target(t)) IN
    /\ t.step = "update" => row.state # "none"
    /\ t.step = "read" => \/ Target(t) \in o
                          \/ row.state # "none" /\ row.time >= Entry(t).time

LEMMA EntryType ==
    ASSUME NEW t \in Transaction, Len(t.results) < Len(t.call.batch)
    PROVE  /\ Len(t.results) + 1 \in 1 .. Len(t.call.batch)
           /\ Entry(t) = t.call.batch[Len(t.results) + 1]
           /\ Entry(t) \in Item /\ Target(t) \in Record
<1>1. t.call \in Call /\ t.results \in Seq(Status)
  BY DEF Transaction
<1>2. t.call.batch \in Seq(Item)
  BY <1>1 DEF Call
<1>3. Entry(t) \in Item
  BY <1>1, <1>2 DEF Entry
<1>4. QED
  BY <1>1, <1>2, <1>3 DEF Entry, Target, Item

LEMMA BatchType ==
    ASSUME NEW t \in Transaction, Placed(t), NEW i \in 1 .. Len(t.results)
    PROVE  /\ t.call.batch[i] \in Item /\ t.call.batch[i].record \in Record
           /\ t.results[i] \in Status
<1>1. t.call \in Call /\ t.results \in Seq(Status)
  BY DEF Transaction
<1>2. t.call.batch \in Seq(Item)
  BY <1>1 DEF Call
<1>3. t.call.batch[i] \in Item
  BY <1>1, <1>2 DEF Placed
<1>4. QED
  BY <1>1, <1>3 DEF Item

LEMMA SeenRowType ==
    ASSUME NEW t \in Transaction, NEW c \in [Record -> Row], NEW rec \in Record
    PROVE  SeenRow(t, c, rec) \in Row
  BY DEF SeenRow, Transaction

\* An answer that is true of a row is true of a later one.
LEMMA LaterTruth ==
    ASSUME NEW item \in Item, NEW status \in Status, NEW row \in Row, NEW new \in Row,
           Later(row, new), row.state # "none", Holds(item, status, row)
    PROVE  new.state # "none" /\ Holds(item, status, new)
<1>1. CASE new = row
  BY <1>1
<1>2. CASE new # row
  <2>1. new.state # "none" /\ new.time > row.time
    BY <1>2 DEF Later
  <2>2. row.time \in Nat /\ new.time \in Nat /\ item.time \in Nat
    BY DEF Row, Item
  <2>3. status # "rejected" => row.time >= item.time
    BY <2>2 DEF Holds, Verdict, UpsertVerdict, DeleteVerdict, Matches
  <2>4. QED
    BY <2>1, <2>2, <2>3 DEF Holds
<1>3. QED
  BY <1>1, <1>2

LEMMA LaterSeen ==
    ASSUME NEW t, NEW c, NEW d, NEW rec, Later(c[rec], d[rec])
    PROVE  Later(SeenRow(t, c, rec), SeenRow(t, d, rec))
  BY DEF SeenRow, Later

\* What others commit takes nothing away from a transaction.
LEMMA StillOk ==
    ASSUME NEW t \in Transaction, Placed(t),
           NEW c \in [Record -> Row], NEW d \in [Record -> Row], NEW o, NEW p, o \subseteq p,
           \A rec \in Record : Later(SeenRow(t, c, rec), SeenRow(t, d, rec)),
           ResultsOk(t, c, o), UnderwayOk(t, c, o)
    PROVE  ResultsOk(t, d, p) /\ UnderwayOk(t, d, p)
<1>1. ResultsOk(t, d, p)
  <2>1. SUFFICES ASSUME NEW i \in 1 .. Len(t.results),
                        t.results[i] # "rejected", t.call.batch[i].record \notin p
                 PROVE  LET row == SeenRow(t, d, t.call.batch[i].record) IN
                        row.state # "none" /\ Holds(t.call.batch[i], t.results[i], row)
    BY DEF ResultsOk
  <2> DEFINE item == t.call.batch[i]
             row == SeenRow(t, c, item.record)
             new == SeenRow(t, d, item.record)
  <2>2. item \in Item /\ item.record \in Record /\ t.results[i] \in Status
    BY BatchType
  <2>3. row \in Row /\ new \in Row /\ Later(row, new)
    BY <2>2, SeenRowType
  <2>4. row.state # "none" /\ Holds(item, t.results[i], row)
    BY <2>1 DEF ResultsOk
  <2> HIDE DEF item, row, new
  <2>5. new.state # "none" /\ Holds(item, t.results[i], new)
    BY <2>2, <2>3, <2>4, LaterTruth
  <2>6. QED
    BY <2>5 DEF item, new
<1>2. UnderwayOk(t, d, p)
  <2>1. CASE t.step \in {"update", "read"}
    <3>1. Len(t.results) < Len(t.call.batch)
      BY <2>1 DEF Placed
    <3>2. Target(t) \in Record /\ Entry(t) \in Item
      BY <3>1, EntryType
    <3>3. /\ SeenRow(t, c, Target(t)) \in Row /\ SeenRow(t, d, Target(t)) \in Row
          /\ Later(SeenRow(t, c, Target(t)), SeenRow(t, d, Target(t)))
      BY <3>2, SeenRowType
    <3>4. /\ SeenRow(t, c, Target(t)).time \in Nat /\ SeenRow(t, d, Target(t)).time \in Nat
          /\ Entry(t).time \in Nat
      BY <3>2, <3>3 DEF Row, Item
    <3>5. QED
      BY <3>3, <3>4 DEF UnderwayOk, Later
  <2>2. CASE t.step \notin {"update", "read"}
    BY <2>2 DEF UnderwayOk
  <2>3. QED
    BY <2>1, <2>2
<1>3. QED
  BY <1>1, <1>2

\* The invariants by transaction, before and after a step.
LEMMA ResultsByTransaction ==
    ASSUME TypeOK, PlaceInv
    PROVE  /\ ResultInv <=> (alive => \A r \in Request : ResultsOk(tx[r], cloud, orphans))
           /\ UnderwayInv => (alive => \A r \in Request : UnderwayOk(tx[r], cloud, orphans))
<1>1. \A r \in Request : tx[r] \in Transaction /\ Placed(tx[r])
  BY DEF TypeOK, PlaceInv
<1>2. \A r \in Request : \A i \in 1 .. Len(tx[r].results) : tx[r].call.batch[i].record \in Record
  BY <1>1, BatchType
<1>3. \A r \in Request : tx[r].step \in {"update", "read"} => Target(tx[r]) \in Record
  <2>1. SUFFICES ASSUME NEW r \in Request, tx[r].step \in {"update", "read"}
                 PROVE  Target(tx[r]) \in Record
    OBVIOUS
  <2>2. Len(tx[r].results) < Len(tx[r].call.batch)
    BY <1>1, <2>1 DEF Placed
  <2>3. QED
    BY <1>1, <2>2, EntryType
<1>4. ResultInv <=> (alive => \A r \in Request : ResultsOk(tx[r], cloud, orphans))
  BY <1>2, SeenRows DEF ResultInv, ResultsOk, IsTrue
<1>5. UnderwayInv => (alive => \A r \in Request : UnderwayOk(tx[r], cloud, orphans))
  BY <1>3, SeenRows DEF UnderwayInv, UnderwayOk
<1>6. QED
  BY <1>4, <1>5

LEMMA ResultsByTransactionNext ==
    ASSUME TypeOK', PlaceInv',
           alive' => \A r \in Request : ResultsOk(tx'[r], cloud', orphans')
                                        /\ UnderwayOk(tx'[r], cloud', orphans')
    PROVE  ResultInv' /\ UnderwayInv'
<1>1. \A r \in Request : tx'[r] \in Transaction /\ Placed(tx'[r])
  BY DEF TypeOK, PlaceInv, Placed, Entry
<1>2. \A r \in Request : \A i \in 1 .. Len(tx'[r].results) : tx'[r].call.batch[i].record \in Record
  BY <1>1, BatchType
<1>3. \A r \in Request : tx'[r].step \in {"update", "read"} => Target(tx'[r]) \in Record
  <2>1. SUFFICES ASSUME NEW r \in Request, tx'[r].step \in {"update", "read"}
                 PROVE  Target(tx'[r]) \in Record
    OBVIOUS
  <2>2. Len(tx'[r].results) < Len(tx'[r].call.batch)
    BY <1>1, <2>1 DEF Placed
  <2>3. QED
    BY <1>1, <2>2, EntryType
<1>4. ResultInv'
  <2>1. SUFFICES ASSUME alive', NEW r \in Request, NEW i \in 1 .. Len(tx'[r].results)
                 PROVE  IsTrue(tx[r].call.batch[i], tx[r].results[i],
                               Seen(r)[tx[r].call.batch[i].record])'
    BY DEF ResultInv
  <2> DEFINE item == tx'[r].call.batch[i]
             row == SeenRow(tx'[r], cloud', item.record)
  <2>2. Seen(r)'[item.record] = row
    BY <1>2, SeenRows
  <2>3. \/ tx'[r].results[i] = "rejected" \/ item.record \in orphans'
        \/ row.state # "none" /\ Holds(item, tx'[r].results[i], row)
    BY <2>1 DEF ResultsOk
  <2> HIDE DEF row
  <2>4. QED
    BY <2>2, <2>3 DEF IsTrue, Holds, Verdict, UpsertVerdict, DeleteVerdict, Matches
<1>5. UnderwayInv'
  BY <1>3, SeenRows DEF UnderwayInv, UnderwayOk, Target, Entry
<1>6. QED
  BY <1>4, <1>5

-----------------------------------------------------------------------------
(* Steps of one transaction: nothing is committed.                         *)

StoredReply(p) ==
    p.key \in DOMAIN claims /\ claims[p.key] = [batch |-> p.batch, answer |-> p.answer]

\* A transaction alone with its key, and with its rows.
AloneWithKey(r, t) ==
    t.holds => /\ t.call.key \notin DOMAIN claims
               /\ \A q \in Request \ {r} : tx[q].holds => tx[q].call.key # t.call.key
AloneWithRows(r, t) ==
    \A rec \in Record : t.wrote[rec] # NoRow =>
        /\ \A q \in Request \ {r} : tx[q].wrote[rec] = NoRow
        /\ Later(cloud[rec], t.wrote[rec])

LEMMA Alone ==
    ASSUME IInv, NEW r \in Request
    PROVE  AloneWithKey(r, tx[r]) /\ AloneWithRows(r, tx[r])
<1>1. AloneWithKey(r, tx[r])
  BY DEF IInv, ClaimInv, KeyHeld, AloneWithKey
<1>2. AloneWithRows(r, tx[r])
  BY SeenRows DEF IInv, WroteInv, Free, AloneWithRows
<1>3. QED
  BY <1>1, <1>2

LEMMA Replies ==
    ASSUME IInv
    PROVE  replies \subseteq Reply /\ \A p \in replies : StoredReply(p)
  BY DEF IInv, TypeOK, ClaimInv, StoredReply, Reply, ClaimAnswer

LEMMA Moving ==
    ASSUME IInv, NEW r \in Request, NEW t \in Transaction, tx' = [tx EXCEPT ![r] = t],
           UNCHANGED <<alive, cloud, claims, device, answered, workload>>, clock' \in Nat,
           orphans \subseteq orphans', orphans' \subseteq Record,
           replies' \subseteq Reply, \A p \in replies' : StoredReply(p),
           Placed(t), AloneWithKey(r, t), AloneWithRows(r, t),
           alive => ResultsOk(t, cloud, orphans') /\ UnderwayOk(t, cloud, orphans')
    PROVE  IInv'
<1>1. /\ tx' \in [Request -> Transaction]
      /\ tx'[r] = t
      /\ \A q \in Request : q # r => tx'[q] = tx[q]
  BY DEF IInv, TypeOK
<1>2. UNCHANGED <<alive, cloud, claims, cursor, view, behind, answered, workload>>
  BY DEF device
<1>3. TypeOK'
  BY <1>1, <1>2 DEF IInv, TypeOK, Reply, ClaimAnswer
<1>4. \A q \in Request : Placed(tx'[q])
  BY <1>1 DEF IInv, PlaceInv
<1>5. PlaceInv'
  BY <1>4 DEF PlaceInv, Placed, Entry
<1>6. ClaimInv'
  BY <1>1, <1>2 DEF IInv, ClaimInv, KeyHeld, AloneWithKey, StoredReply
<1>7. WroteInv'
  <2>1. SUFFICES ASSUME NEW q \in Request, NEW rec \in Record, tx'[q].wrote[rec] # NoRow
                 PROVE  /\ \A p \in Request \ {q} : tx'[p].wrote[rec] = NoRow
                        /\ Later(cloud[rec], tx'[q].wrote[rec])
    BY <1>2 DEF WroteInv, Wrote, Free, Later
  <2>2. CASE q = r
    BY <1>1, <2>1, <2>2 DEF AloneWithRows
  <2>3. CASE q # r
    <3>1. AloneWithRows(q, tx[q])
      BY Alone
    <3>2. tx'[r].wrote[rec] = NoRow
      BY <1>1, <2>1, <2>3 DEF AloneWithRows
    <3>3. QED
      BY <1>1, <2>1, <2>3, <3>1, <3>2 DEF AloneWithRows
  <2>4. QED
    BY <2>2, <2>3
<1>8. ASSUME alive', NEW q \in Request
      PROVE  ResultsOk(tx'[q], cloud', orphans') /\ UnderwayOk(tx'[q], cloud', orphans')
  <2>1. CASE q = r
    BY <1>1, <1>2, <1>8, <2>1
  <2>2. CASE q # r
    <3>1. tx[q] \in Transaction /\ Placed(tx[q]) /\ cloud \in [Record -> Row]
      BY DEF IInv, TypeOK, PlaceInv
    <3>2. ResultsOk(tx[q], cloud, orphans) /\ UnderwayOk(tx[q], cloud, orphans)
      BY <1>2, <1>8, ResultsByTransaction DEF IInv
    <3>3. \A rec \in Record : Later(SeenRow(tx[q], cloud, rec), SeenRow(tx[q], cloud, rec))
      BY DEF Later
    <3>4. ResultsOk(tx[q], cloud, orphans') /\ UnderwayOk(tx[q], cloud, orphans')
      BY <3>1, <3>2, <3>3, StillOk
    <3>5. QED
      BY <1>1, <1>2, <2>2, <3>4
  <2>3. QED
    BY <2>1, <2>2
<1>9. ResultInv' /\ UnderwayInv'
  BY <1>3, <1>5, <1>8, ResultsByTransactionNext
<1>10. AnswersStayTrue'
  BY <1>2 DEF IInv, AnswersStayTrue, Present, Holds, Verdict, UpsertVerdict, DeleteVerdict, Matches
<1>11. OnlyOvertakenIsSkipped'
  BY <1>2 DEF IInv, OnlyOvertakenIsSkipped, Present, After, At
<1>12. QED
  BY <1>3, <1>5, <1>6, <1>7, <1>9, <1>10, <1>11 DEF IInv

LEMMA EmptyType ==
    /\ New \in Transaction /\ New.results = <<>> /\ New.wrote = NoRows /\ ~New.holds
    /\ New.step = "new" /\ New.call.batch = <<>>
    /\ Done \in Transaction /\ Done.results = <<>> /\ Done.wrote = NoRows /\ ~Done.holds
    /\ Done.step = "done" /\ Done.call.batch = <<>>
    /\ NoRow \in Row /\ NoRows \in [Record -> Row]
<1>1. NoRow \in Row /\ NoRows \in [Record -> Row]
  BY DEF NoRow, NoRows, Row
<1>2. [key |-> None, batch |-> <<>>] \in Call
  BY DEF Call
<1>3. <<>> \in Seq(Status)
  OBVIOUS
<1>4. QED
  BY <1>1, <1>2, <1>3 DEF New, Done, Transaction

\* A transaction without results or rows.
LEMMA EmptyOk ==
    ASSUME NEW r, NEW t, NEW c, NEW o, t.results = <<>>, t.wrote = NoRows
    PROVE  /\ ResultsOk(t, c, o) /\ AloneWithRows(r, t)
           /\ t.step \notin {"update", "read"} => UnderwayOk(t, c, o)
<1>1. ResultsOk(t, c, o)
  BY DEF ResultsOk
<1>2. AloneWithRows(r, t)
  BY DEF AloneWithRows, NoRows
<1>3. t.step \notin {"update", "read"} => UnderwayOk(t, c, o)
  BY DEF UnderwayOk
<1>4. QED
  BY <1>1, <1>2, <1>3

\* A request that ends without committing.
LEMMA Ending ==
    ASSUME IInv, NEW r \in Request, tx' = [tx EXCEPT ![r] = Done], UNCHANGED orphans,
           UNCHANGED <<alive, cloud, claims, clock, device, answered, workload>>,
           replies' \subseteq Reply, \A p \in replies' : StoredReply(p)
    PROVE  IInv'
<1>1. Placed(Done)
  BY EmptyType DEF Placed
<1>2. AloneWithKey(r, Done)
  BY EmptyType DEF AloneWithKey
<1>3. AloneWithRows(r, Done) /\ ResultsOk(Done, cloud, orphans') /\ UnderwayOk(Done, cloud, orphans')
  BY EmptyType, EmptyOk
<1>4. clock' \in Nat /\ orphans' \subseteq Record
  BY DEF IInv, TypeOK
<1>5. QED
  BY <1>1, <1>2, <1>3, <1>4, EmptyType, Moving

LEMMA StepFail == ASSUME IInv, NEW r \in Request, Go(r, Done), UNCHANGED orphans PROVE IInv'
  BY Replies, Ending DEF Go

\* On to the next entry, or to the end of the batch.
LEMMA Continuing ==
    ASSUME IInv, NEW r \in Request, NEW u \in Transaction, Continue(r, u),
           orphans \subseteq orphans', orphans' \subseteq Record,
           Len(u.results) <= Len(u.call.batch),
           u.holds <=> u.call.key # None,
           AloneWithKey(r, u), AloneWithRows(r, u),
           alive => ResultsOk(u, cloud, orphans')
    PROVE  IInv'
<1>1. PICK now \in Readings(u) : clock' = now
          /\ tx' = [tx EXCEPT ![r] = [u EXCEPT !.step = NextStep(u), !.now = now]]
  BY DEF Continue
<1> DEFINE t == [u EXCEPT !.step = NextStep(u), !.now = now]
<1>2. now \in Nat
  BY SyncAssumption DEF Readings, IInv, TypeOK
<1>3. NextStep(u) \in {"commit", "insert", "delete", "reject"}
  BY DEF NextStep
<1>4. /\ t \in Transaction /\ t.step = NextStep(u) /\ t.call = u.call
      /\ t.results = u.results /\ t.wrote = u.wrote /\ t.holds = u.holds
  BY <1>2, <1>3 DEF Transaction
<1>5. tx' = [tx EXCEPT ![r] = t]
  BY <1>1
<1> HIDE DEF t
<1>6. Placed(t)
  <2>1. Len(u.results) \in Nat /\ Len(u.call.batch) \in Nat
    BY DEF Transaction, Call
  <2>2. Entry(t) = Entry(u)
    BY <1>4 DEF Entry
  <2>3. NextStep(u) # "commit" => Len(u.results) < Len(u.call.batch)
    BY <2>1 DEF NextStep
  <2>4. NextStep(u) = "insert" => Entry(u).action = "upsert"
    BY DEF NextStep
  <2>5. NextStep(u) = "delete" => Entry(u).action = "delete"
    BY DEF NextStep
  <2>6. QED
    BY <1>3, <1>4, <2>2, <2>3, <2>4, <2>5 DEF Placed
<1>7. AloneWithKey(r, t) /\ AloneWithRows(r, t)
  BY <1>4 DEF AloneWithKey, AloneWithRows
<1>8. alive => ResultsOk(t, cloud, orphans') /\ UnderwayOk(t, cloud, orphans')
  <2>1. ASSUME NEW rec PROVE SeenRow(t, cloud, rec) = SeenRow(u, cloud, rec)
    BY <1>4 DEF SeenRow
  <2>2. ASSUME alive, NEW i \in 1 .. Len(t.results)
        PROVE  LET item == t.call.batch[i]
                   row == SeenRow(t, cloud, item.record)
               IN  \/ t.results[i] = "rejected" \/ item.record \in orphans'
                   \/ row.state # "none" /\ Holds(item, t.results[i], row)
    <3> DEFINE item == u.call.batch[i]
    <3>1. i \in 1 .. Len(u.results)
      BY <1>4, <2>2
    <3>2. \/ u.results[i] = "rejected" \/ item.record \in orphans'
          \/ /\ SeenRow(u, cloud, item.record).state # "none"
             /\ Holds(item, u.results[i], SeenRow(u, cloud, item.record))
      BY <2>2, <3>1 DEF ResultsOk
    <3>3. SeenRow(t, cloud, item.record) = SeenRow(u, cloud, item.record)
      BY <2>1
    <3>4. QED
      BY <1>4, <3>2, <3>3
  <2>3. t.step \notin {"update", "read"}
    BY <1>3, <1>4
  <2>4. QED
    BY <2>2, <2>3 DEF ResultsOk, UnderwayOk
<1>9. /\ UNCHANGED <<alive, cloud, claims, device, answered, workload>>
      /\ clock' \in Nat /\ replies' = replies
  BY <1>1, <1>2 DEF Continue
<1>10. QED
  BY <1>4, <1>5, <1>6, <1>7, <1>8, <1>9, Replies, Moving

LEMMA StepPush == ASSUME IInv, NEW r \in Request, Push(r) PROVE IInv'
<1>1. PICK call \in workload.calls :
          call.key = None /\ Continue(r, [New EXCEPT !.call = call]) /\ UNCHANGED orphans
  BY DEF Push
<1>2. call \in Call
  BY DEF IInv, TypeOK
<1> DEFINE u == [New EXCEPT !.call = call]
<1>3. /\ u \in Transaction /\ u.results = <<>> /\ u.wrote = NoRows /\ ~u.holds /\ u.call = call
  BY <1>2, EmptyType DEF New, Transaction
<1>4. Continue(r, u)
  BY <1>1
<1> HIDE DEF u
<1>5. AloneWithKey(r, u) /\ AloneWithRows(r, u) /\ ResultsOk(u, cloud, orphans')
  BY <1>3, EmptyOk DEF AloneWithKey
<1>6. Len(u.results) <= Len(u.call.batch)
  BY <1>2, <1>3 DEF Call
<1>7. orphans \subseteq orphans' /\ orphans' \subseteq Record
  BY <1>1 DEF IInv, TypeOK
<1>8. QED
  BY <1>1, <1>3, <1>4, <1>5, <1>6, <1>7, Continuing

LEMMA StepClaim == ASSUME IInv, NEW r \in Request, Claim(r) PROVE IInv'
<1>1. PICK call \in workload.calls :
          call.key # None /\ Go(r, [New EXCEPT !.call = call, !.step = "claim"])
          /\ UNCHANGED orphans
  BY DEF Claim
<1>2. call \in Call
  BY DEF IInv, TypeOK
<1> DEFINE t == [New EXCEPT !.call = call, !.step = "claim"]
<1>3. /\ t \in Transaction /\ t.results = <<>> /\ t.wrote = NoRows /\ ~t.holds /\ t.call = call
      /\ t.step = "claim"
  BY <1>2, EmptyType DEF New, Transaction
<1>4. Go(r, t)
  BY <1>1
<1> HIDE DEF t
<1>5. /\ AloneWithKey(r, t) /\ AloneWithRows(r, t)
      /\ ResultsOk(t, cloud, orphans') /\ UnderwayOk(t, cloud, orphans')
  BY <1>3, EmptyOk DEF AloneWithKey
<1>6. Placed(t)
  BY <1>1, <1>2, <1>3 DEF Placed, Call
<1>7. orphans \subseteq orphans' /\ orphans' \subseteq Record /\ clock' \in Nat
  BY <1>1, <1>4 DEF IInv, TypeOK, Go
<1>8. QED
  BY <1>3, <1>4, <1>5, <1>6, <1>7, Replies, Moving DEF Go

\* The key is found, or taken and held.
LEMMA StepTryCreate == ASSUME IInv, NEW r \in Request, TryCreate(r) PROVE IInv'
<1> DEFINE k == tx[r].call.key
<1>1. /\ tx[r] \in Transaction /\ tx[r].results = <<>> /\ tx[r].wrote = NoRows
      /\ k # None /\ tx[r].call \in Call /\ k \in Key
  BY DEF TryCreate, IInv, TypeOK, PlaceInv, Placed, Transaction, Call
<1>2. CASE k \in DOMAIN claims
  <2>1. Replay(r)
    BY <1>2 DEF TryCreate
  <2>2. ASSUME NEW p \in replies' PROVE p \in Reply /\ StoredReply(p)
    <3>1. CASE p \in replies
      BY <3>1, Replies
    <3>2. CASE p \notin replies
      <4>1. /\ p = [key |-> k, batch |-> tx[r].call.batch, answer |-> claims[k].answer]
            /\ claims[k].batch = tx[r].call.batch
        BY <2>1, <2>2, <3>2 DEF Replay, Stored, SameRequest
      <4>2. claims[k] \in Claimed
        BY <1>2 DEF IInv, TypeOK
      <4>3. QED
        BY <1>1, <1>2, <4>1, <4>2 DEF Claimed, Reply, ClaimAnswer, StoredReply
    <3>3. QED
      BY <3>1, <3>2
  <2>3. /\ tx' = [tx EXCEPT ![r] = Done] /\ UNCHANGED orphans
        /\ UNCHANGED <<alive, cloud, claims, clock, device, answered, workload>>
    BY <2>1 DEF Replay
  <2>4. QED
    BY <2>2, <2>3, Ending
<1>3. CASE k \notin DOMAIN claims
  <2>1. CASE ~alive
    BY <1>3, <2>1, StepFail DEF TryCreate, BeginClaim, Fail
  <2>2. CASE alive
    <3> DEFINE u == [tx[r] EXCEPT !.holds = TRUE]
    <3>1. Continue(r, u) /\ UNCHANGED orphans
      BY <1>3, <2>2 DEF TryCreate, BeginClaim
    <3>2. /\ u \in Transaction /\ u.results = <<>> /\ u.wrote = NoRows /\ u.holds
          /\ u.call = tx[r].call
      BY <1>1 DEF Transaction
    <3> HIDE DEF u
    <3>3. AloneWithKey(r, u)
      BY <1>3, <3>2 DEF AloneWithKey, TryCreate, KeyHeld
    <3>4. AloneWithRows(r, u) /\ ResultsOk(u, cloud, orphans')
      BY <3>2, EmptyOk
    <3>5. Len(u.results) <= Len(u.call.batch)
      BY <1>1, <3>2 DEF Call
    <3>6. orphans \subseteq orphans' /\ orphans' \subseteq Record
      BY <3>1 DEF IInv, TypeOK
    <3>7. QED
      BY <1>1, <3>1, <3>2, <3>3, <3>4, <3>5, <3>6, Continuing
  <2>3. QED
    BY <2>1, <2>2
<1>4. QED
  BY <1>2, <1>3

-----------------------------------------------------------------------------
(* The statements of one entry.                                            *)

\* A transaction at an entry of its batch.
LEMMA AtEntry ==
    ASSUME IInv, NEW r \in Request,
           tx[r].step \in {"insert", "update", "delete", "reject", "read"}
    PROVE  /\ tx[r] \in Transaction /\ Placed(tx[r])
           /\ Len(tx[r].results) < Len(tx[r].call.batch)
           /\ tx[r].call \in Call /\ tx[r].results \in Seq(Status)
           /\ tx[r].wrote \in [Record -> Row]
           /\ Entry(tx[r]) \in Item /\ Target(tx[r]) \in Record
           /\ Entry(tx[r]) = tx[r].call.batch[Len(tx[r].results) + 1]
           /\ Entry(tx[r]).record = Target(tx[r])
           /\ tx[r].holds <=> tx[r].call.key # None
<1>1. tx[r] \in Transaction /\ Placed(tx[r])
  BY DEF IInv, TypeOK, PlaceInv
<1>2. Len(tx[r].results) < Len(tx[r].call.batch)
  BY <1>1 DEF Placed
<1>3. tx[r].holds <=> tx[r].call.key # None
  BY <1>1 DEF Placed
<1>4. tx[r].call \in Call /\ tx[r].results \in Seq(Status) /\ tx[r].wrote \in [Record -> Row]
  BY <1>1 DEF Transaction
<1>5. QED
  BY <1>1, <1>2, <1>3, <1>4, EntryType DEF Target

LEMMA LaterTransitive ==
    ASSUME NEW x \in Row, NEW y \in Row, NEW z \in Row, Later(x, y), Later(y, z)
    PROVE  Later(x, z)
<1>1. x.time \in Nat /\ y.time \in Nat /\ z.time \in Nat
  BY DEF Row
<1>2. QED
  BY <1>1 DEF Later

\* The entry is done: its status joins the results, w are the rows held now.
LEMMA Advancing ==
    ASSUME IInv, NEW r \in Request,
           tx[r].step \in {"insert", "update", "delete", "reject", "read"},
           NEW u \in Transaction, NEW status \in Status, Continue(r, u),
           u.call = tx[r].call, u.holds = tx[r].holds,
           u.results = Append(tx[r].results, status),
           AloneWithRows(r, u),
           \A rec \in Record : Later(SeenRow(tx[r], cloud, rec), SeenRow(u, cloud, rec)),
           orphans \subseteq orphans', orphans' \subseteq Record,
           alive => \/ status = "rejected" \/ Target(tx[r]) \in orphans'
                    \/ /\ SeenRow(u, cloud, Target(tx[r])).state # "none"
                       /\ Holds(Entry(tx[r]), status, SeenRow(u, cloud, Target(tx[r])))
    PROVE  IInv'
<1> DEFINE t == tx[r]
           n == Len(t.results)
<1>1. /\ t \in Transaction /\ Placed(t) /\ n < Len(t.call.batch)
      /\ t.results \in Seq(Status) /\ n \in Nat
      /\ Entry(t) = t.call.batch[n + 1] /\ Entry(t).record = Target(t)
      /\ t.holds <=> t.call.key # None
      /\ Len(t.call.batch) \in Nat
  BY AtEntry DEF Call
<1>2. Len(u.results) = n + 1 /\ u.results[n + 1] = status
      /\ \A i \in 1 .. n : u.results[i] = t.results[i]
  BY <1>1
<1>3. AloneWithKey(r, u)
  BY Alone DEF AloneWithKey
<1>4. ASSUME alive PROVE ResultsOk(u, cloud, orphans')
  <2>1. SUFFICES ASSUME NEW i \in 1 .. n + 1
                 PROVE  LET item == t.call.batch[i]
                            row == SeenRow(u, cloud, item.record)
                        IN  \/ u.results[i] = "rejected" \/ item.record \in orphans'
                            \/ row.state # "none" /\ Holds(item, u.results[i], row)
    BY <1>2 DEF ResultsOk
  <2>2. CASE i = n + 1
    BY <1>1, <1>2, <1>4, <2>2
  <2>3. CASE i # n + 1
    <3> DEFINE item == t.call.batch[i]
               row == SeenRow(t, cloud, item.record)
               new == SeenRow(u, cloud, item.record)
    <3>1. i \in 1 .. n /\ u.results[i] = t.results[i]
      BY <1>1, <1>2, <2>3
    <3>2. item \in Item /\ item.record \in Record /\ t.results[i] \in Status
      BY <1>1, <3>1, BatchType
    <3>3. cloud \in [Record -> Row]
      BY DEF IInv, TypeOK
    <3>4. row \in Row /\ new \in Row /\ Later(row, new)
      BY <1>1, <3>2, <3>3, SeenRowType
    <3>5. \/ t.results[i] = "rejected" \/ item.record \in orphans
          \/ row.state # "none" /\ Holds(item, t.results[i], row)
      BY <1>4, <3>1, ResultsByTransaction DEF IInv, ResultsOk
    <3> HIDE DEF item, row, new
    <3>6. \/ t.results[i] = "rejected" \/ item.record \in orphans
          \/ new.state # "none" /\ Holds(item, t.results[i], new)
      BY <3>2, <3>4, <3>5, LaterTruth
    <3>7. QED
      BY <3>1, <3>6 DEF item, new
  <2>4. QED
    BY <2>2, <2>3
<1>5. Len(u.results) <= Len(u.call.batch)
  BY <1>1, <1>2
<1>6. u.holds <=> u.call.key # None
  BY <1>1
<1>7. alive => ResultsOk(u, cloud, orphans')
  BY <1>4
<1> HIDE DEF t, n
<1>8. QED
  BY <1>3, <1>5, <1>6, <1>7, Continuing

\* A status without a write.
LEMMA Answering ==
    ASSUME IInv, NEW r \in Request, tx[r].step \in {"reject", "read"},
           NEW status \in Status, Answer(r, status), UNCHANGED orphans,
           alive => \/ status = "rejected" \/ Target(tx[r]) \in orphans
                    \/ /\ SeenRow(tx[r], cloud, Target(tx[r])).state # "none"
                       /\ Holds(Entry(tx[r]), status, SeenRow(tx[r], cloud, Target(tx[r])))
    PROVE  IInv'
<1> DEFINE u == [tx[r] EXCEPT !.results = Append(tx[r].results, status)]
<1>1. tx[r] \in Transaction /\ Append(tx[r].results, status) \in Seq(Status)
  BY AtEntry
<1>2. /\ u \in Transaction /\ u.results = Append(tx[r].results, status)
      /\ u.wrote = tx[r].wrote /\ u.call = tx[r].call /\ u.holds = tx[r].holds
  BY <1>1 DEF Transaction
<1>3. Continue(r, u)
  BY DEF Answer
<1> HIDE DEF u
<1>4. AloneWithRows(r, u)
  BY <1>2, Alone DEF AloneWithRows
<1>5. \A rec \in Record : SeenRow(u, cloud, rec) = SeenRow(tx[r], cloud, rec)
  BY <1>2 DEF SeenRow
<1>6. \A rec \in Record : Later(SeenRow(tx[r], cloud, rec), SeenRow(u, cloud, rec))
  BY <1>5 DEF Later
<1>7. Target(tx[r]) \in Record /\ orphans \subseteq orphans' /\ orphans' \subseteq Record
  BY AtEntry DEF IInv, TypeOK
<1>8. QED
  BY <1>2, <1>3, <1>4, <1>5, <1>6, <1>7, Advancing

\* A status with a write, of a row nobody else holds.
LEMMA Writing ==
    ASSUME IInv, NEW r \in Request, tx[r].step \in {"insert", "update", "delete"},
           NEW status \in Status, NEW row \in Row, Write(r, row, status),
           row.state # "none", Free(r, Target(tx[r])),
           Later(SeenRow(tx[r], cloud, Target(tx[r])), row),
           orphans \subseteq orphans', orphans' \subseteq Record,
           Holds(Entry(tx[r]), status, row)
    PROVE  IInv'
<1> DEFINE rec == Target(tx[r])
           w == [tx[r].wrote EXCEPT ![rec] = row]
           u == [tx[r] EXCEPT !.results = Append(tx[r].results, status), !.wrote = w]
<1>1. /\ tx[r] \in Transaction /\ Append(tx[r].results, status) \in Seq(Status)
      /\ tx[r].wrote \in [Record -> Row] /\ rec \in Record /\ cloud \in [Record -> Row]
  BY AtEntry DEF IInv, TypeOK
<1>2. w \in [Record -> Row] /\ w[rec] = row /\ \A x \in Record : x # rec => w[x] = tx[r].wrote[x]
  BY <1>1
<1>3. Continue(r, u)
  <2>1. Continue(r, [tx[r] EXCEPT !.results = Append(@, status), !.wrote[rec] = row])
    BY DEF Write
  <2>2. [tx[r] EXCEPT !.results = Append(@, status), !.wrote[rec] = row] = u
    BY <1>1 DEF Transaction
  <2>3. QED
    BY <2>1, <2>2
<1> HIDE DEF w
<1>4. /\ u \in Transaction /\ u.results = Append(tx[r].results, status)
      /\ u.wrote = w /\ u.call = tx[r].call /\ u.holds = tx[r].holds
  BY <1>1, <1>2 DEF Transaction
<1> HIDE DEF u
<1>5. row # NoRow
  BY DEF NoRow
<1>6. Later(cloud[rec], SeenRow(tx[r], cloud, rec))
  BY <1>1, Alone DEF AloneWithRows, SeenRow, Later
<1>7. Later(cloud[rec], row)
  BY <1>1, <1>6, SeenRowType, LaterTransitive
<1>8. AloneWithRows(r, u)
  <2>1. \A q \in Request \ {r} : tx[q].wrote[rec] = NoRow
    BY <1>1, SeenRows DEF Free
  <2>2. QED
    BY <1>1, <1>2, <1>4, <1>7, <2>1, Alone DEF AloneWithRows
<1>9. SeenRow(u, cloud, rec) = row
      /\ \A x \in Record : x # rec => SeenRow(u, cloud, x) = SeenRow(tx[r], cloud, x)
  BY <1>2, <1>4, <1>5 DEF SeenRow
<1>10. \A x \in Record : Later(SeenRow(tx[r], cloud, x), SeenRow(u, cloud, x))
  BY <1>9 DEF Later
<1>11. QED
  BY <1>3, <1>4, <1>8, <1>9, <1>10, Advancing

LEMMA StepReject == ASSUME IInv, NEW r \in Request, Reject(r) PROVE IInv'
  BY Answering DEF Reject, Status

\* The same entry, at its next statement.
LEMMA Staying ==
    ASSUME IInv, NEW r \in Request, tx[r].step \in {"insert", "update", "delete"},
           NEW s \in {"update", "read"}, To(r, s),
           s = "update" => Entry(tx[r]).action = "upsert",
           orphans \subseteq orphans', orphans' \subseteq Record,
           alive => LET row == SeenRow(tx[r], cloud, Target(tx[r])) IN
               /\ s = "update" => row.state # "none"
               /\ s = "read" => \/ Target(tx[r]) \in orphans'
                                \/ row.state # "none" /\ row.time >= Entry(tx[r]).time
    PROVE  IInv'
<1> DEFINE t == [tx[r] EXCEPT !.step = s]
<1>1. tx[r] \in Transaction /\ Placed(tx[r]) /\ Len(tx[r].results) < Len(tx[r].call.batch)
  BY AtEntry
<1>2. /\ t \in Transaction /\ t.step = s /\ t.call = tx[r].call /\ t.results = tx[r].results
      /\ t.wrote = tx[r].wrote /\ t.holds = tx[r].holds
  BY <1>1 DEF Transaction
<1>3. Go(r, t)
  BY DEF To
<1> HIDE DEF t
<1>4. Entry(t) = Entry(tx[r]) /\ Target(t) = Target(tx[r])
  BY <1>2 DEF Entry, Target
<1>5. Placed(t)
  BY <1>1, <1>2, <1>4 DEF Placed
<1>6. AloneWithKey(r, t) /\ AloneWithRows(r, t)
  BY <1>2, Alone DEF AloneWithKey, AloneWithRows
<1>7. ASSUME alive PROVE ResultsOk(t, cloud, orphans') /\ UnderwayOk(t, cloud, orphans')
  <2>1. ResultsOk(tx[r], cloud, orphans)
    BY <1>7, ResultsByTransaction DEF IInv
  <2>2. ResultsOk(t, cloud, orphans')
    BY <1>2, <2>1 DEF ResultsOk, SeenRow
  <2>3. UnderwayOk(t, cloud, orphans')
    BY <1>2, <1>4, <1>7 DEF UnderwayOk, SeenRow
  <2>4. QED
    BY <2>2, <2>3
<1>8. clock' \in Nat
  BY <1>3 DEF Go, IInv, TypeOK
<1>9. QED
  BY <1>2, <1>3, <1>5, <1>6, <1>7, <1>8, Replies, Moving DEF Go

LEMMA OrphansSame ==
    ASSUME IInv, UNCHANGED orphans
    PROVE  orphans \subseteq orphans' /\ orphans' \subseteq Record
  BY DEF IInv, TypeOK

\* What an upsert writes agrees with the entry.
LEMMA UpsertedTruth ==
    ASSUME NEW item \in Item, item.action = "upsert", NEW now \in Nat,
           NEW status \in {"created", "updated"}
    PROVE  /\ Upserted(item, now) \in Row /\ Upserted(item, now).state = "live"
           /\ Upserted(item, now).time = item.time
           /\ Holds(item, status, Upserted(item, now))
<1>1. /\ Upserted(item, now) \in Row /\ Upserted(item, now).state = "live"
      /\ Upserted(item, now).time = item.time /\ Upserted(item, now).body = item.body
  BY DEF Upserted, Row, Item
<1>2. Verdict(item, Upserted(item, now)) = "unchanged"
  BY <1>1 DEF Verdict, UpsertVerdict, Matches
<1>3. QED
  BY <1>1, <1>2 DEF Holds

LEMMA StepTryInsert == ASSUME IInv, NEW r \in Request, TryInsert(r) PROVE IInv'
<1> DEFINE t == tx[r]
           row == SeenRow(t, cloud, Target(t))
<1>1. /\ t.step = "insert" /\ Free(r, Target(t)) /\ UNCHANGED orphans
  BY DEF TryInsert
<1>2. /\ t \in Transaction /\ Placed(t) /\ Entry(t) \in Item /\ Target(t) \in Record
      /\ Entry(t).action = "upsert" /\ t.now \in Nat
  BY <1>1, AtEntry DEF Placed, Transaction
<1>3. Seen(r)[Target(t)] = row
  BY <1>2, SeenRows
<1> HIDE DEF row
<1>4. CASE row.state # "none"
  <2>1. To(r, "update")
    BY <1>3, <1>4 DEF TryInsert
  <2>2. QED
    BY <1>1, <1>2, <1>4, <2>1, OrphansSame, Staying DEF row
<1>5. CASE row.state = "none" /\ alive
  <2>1. Write(r, Upserted(Entry(t), t.now), "created")
    BY <1>3, <1>5 DEF TryInsert
  <2>2. Later(row, Upserted(Entry(t), t.now))
    BY <1>2, <1>5, UpsertedTruth DEF Later
  <2>3. QED
    BY <1>1, <1>2, <2>1, <2>2, OrphansSame, UpsertedTruth, Writing DEF row, Status
<1>6. CASE row.state = "none" /\ ~alive
  <2>1. Go(r, Done)
    BY <1>3, <1>6 DEF TryInsert
  <2>2. QED
    BY <1>1, <2>1, StepFail
<1>7. QED
  BY <1>4, <1>5, <1>6

\* Whoever writes a row holds it already or finds it free.
LEMMA NewerIsFree ==
    ASSUME IInv, NEW r \in Request, tx[r].step \in {"update", "delete"}, Unlocked(r),
           Newer(Entry(tx[r]), SeenRow(tx[r], cloud, Target(tx[r])))
    PROVE  Free(r, Target(tx[r]))
<1>1. Target(tx[r]) \in Record
  BY AtEntry
<1>2. CASE tx[r].wrote[Target(tx[r])] # NoRow
  BY <1>1, <1>2, Alone, SeenRows DEF AloneWithRows, Free
<1>3. CASE tx[r].wrote[Target(tx[r])] = NoRow
  BY <1>3 DEF Unlocked, SeenRow
<1>4. QED
  BY <1>2, <1>3

LEMMA StepUpdateIfNewer == ASSUME IInv, NEW r \in Request, UpdateIfNewer(r) PROVE IInv'
<1> DEFINE t == tx[r]
           row == SeenRow(t, cloud, Target(t))
<1>1. t.step = "update" /\ Unlocked(r) /\ UNCHANGED orphans
  BY DEF UpdateIfNewer
<1>2. /\ t \in Transaction /\ Placed(t) /\ Entry(t) \in Item /\ Target(t) \in Record
      /\ Entry(t).action = "upsert" /\ t.now \in Nat
  BY <1>1, AtEntry DEF Placed, Transaction
<1>3. Seen(r)[Target(t)] = row /\ row \in Row
  BY <1>2, SeenRows, SeenRowType DEF IInv, TypeOK
<1>4. row.time \in Nat /\ Entry(t).time \in Nat
  BY <1>2, <1>3 DEF Row, Item
<1>5. alive => row.state # "none"
  BY <1>1, ResultsByTransaction DEF IInv, UnderwayOk
<1> HIDE DEF row
<1>6. CASE Newer(Entry(t), row)
  <2>1. Write(r, Upserted(Entry(t), t.now), "updated")
    BY <1>3, <1>6 DEF UpdateIfNewer
  <2>2. Free(r, Target(t))
    BY <1>1, <1>6, NewerIsFree DEF row
  <2>3. Later(row, Upserted(Entry(t), t.now))
    BY <1>2, <1>4, <1>6, UpsertedTruth DEF Later, Newer
  <2>4. QED
    BY <1>1, <1>2, <2>1, <2>2, <2>3, OrphansSame, UpsertedTruth, Writing DEF row, Status
<1>7. CASE ~Newer(Entry(t), row)
  <2>1. To(r, "read")
    BY <1>3, <1>7 DEF UpdateIfNewer
  <2>2. alive => row.state # "none" /\ row.time >= Entry(t).time
    BY <1>4, <1>5, <1>7 DEF Newer
  <2>3. QED
    BY <1>1, <1>2, <2>1, <2>2, OrphansSame, Staying DEF row
<1>8. QED
  BY <1>6, <1>7

LEMMA StepDeleteIfNewer == ASSUME IInv, NEW r \in Request, DeleteIfNewer(r) PROVE IInv'
<1> DEFINE t == tx[r]
           row == SeenRow(t, cloud, Target(t))
<1>1. t.step = "delete" /\ Unlocked(r)
  BY DEF DeleteIfNewer
<1>2. /\ t \in Transaction /\ Placed(t) /\ Entry(t) \in Item /\ Target(t) \in Record
      /\ t.now \in Nat
  BY <1>1, AtEntry DEF Transaction
<1>3. Seen(r)[Target(t)] = row /\ row \in Row
  BY <1>2, SeenRows, SeenRowType DEF IInv, TypeOK
<1>4. row.time \in Nat /\ Entry(t).time \in Nat
  BY <1>2, <1>3 DEF Row, Item
<1> HIDE DEF row
<1>5. orphans' = orphans \union (IF row.state = "none" THEN {Target(t)} ELSE {})
  BY <1>3 DEF DeleteIfNewer
<1>6. orphans \subseteq orphans' /\ orphans' \subseteq Record
  BY <1>2, <1>5 DEF IInv, TypeOK
<1>7. CASE Newer(Entry(t), row)
  <2> DEFINE new == Deleted(row, Entry(t), t.now)
  <2>1. Write(r, new, "deleted")
    BY <1>3, <1>7 DEF DeleteIfNewer
  <2>2. Free(r, Target(t))
    BY <1>1, <1>7, NewerIsFree DEF row
  <2>3. new \in Row /\ new.state = "deleted" /\ new.time = Entry(t).time
    BY <1>2, <1>3, <1>4 DEF Deleted, Row
  <2> HIDE DEF new
  <2>4. Later(row, new)
    BY <1>4, <1>7, <2>3 DEF Later, Newer
  <2>5. Holds(Entry(t), "deleted", new)
    BY <2>3 DEF Holds
  <2>6. QED
    BY <1>1, <1>6, <2>1, <2>2, <2>3, <2>4, <2>5, Writing DEF row, Status
<1>8. CASE ~Newer(Entry(t), row)
  <2>1. To(r, "read")
    BY <1>3, <1>8 DEF DeleteIfNewer
  <2>2. Target(t) \in orphans' \/ (row.state # "none" /\ row.time >= Entry(t).time)
    BY <1>4, <1>5, <1>8 DEF Newer
  <2>3. QED
    BY <1>1, <1>6, <2>1, <2>2, Staying DEF row
<1>9. QED
  BY <1>7, <1>8

LEMMA StepReadExisting == ASSUME IInv, NEW r \in Request, ReadExisting(r) PROVE IInv'
<1> DEFINE t == tx[r]
           row == SeenRow(t, cloud, Target(t))
<1>1. t.step = "read" /\ UNCHANGED orphans
  BY DEF ReadExisting
<1>2. /\ t \in Transaction /\ Placed(t) /\ Entry(t) \in Item /\ Target(t) \in Record
      /\ Entry(t).action \in {"upsert", "delete"}
  BY <1>1, AtEntry DEF Placed
<1>3. Seen(r)[Target(t)] = row /\ row \in Row
  BY <1>2, SeenRows, SeenRowType DEF IInv, TypeOK
<1>4. row.time \in Nat /\ Entry(t).time \in Nat
  BY <1>2, <1>3 DEF Row, Item
<1>5. alive => \/ Target(t) \in orphans
               \/ row.state # "none" /\ row.time >= Entry(t).time
  BY <1>1, ResultsByTransaction DEF IInv, UnderwayOk
<1> HIDE DEF row
<1>6. CASE row.state = "none" /\ Entry(t).action = "upsert"
  <2>1. Go(r, Done)
    BY <1>3, <1>6 DEF ReadExisting
  <2>2. QED
    BY <1>1, <2>1, StepFail
<1>7. CASE ~(row.state = "none" /\ Entry(t).action = "upsert")
  <2> DEFINE status == Verdict(Entry(t), row)
  <2>1. Answer(r, status)
    BY <1>3, <1>7 DEF ReadExisting
  <2>2. status \in {"unchanged", "conflict"}
    BY DEF Verdict, UpsertVerdict, DeleteVerdict
  <2>3. row.time >= Entry(t).time => Holds(Entry(t), status, row)
    BY <1>4, <2>2 DEF Holds
  <2> HIDE DEF status
  <2>4. QED
    BY <1>1, <1>5, <2>1, <2>2, <2>3, Answering DEF row, Status
<1>8. QED
  BY <1>6, <1>7

-----------------------------------------------------------------------------
(* Steps that change what is committed, or what the device has.            *)

\* The statuses of a batch as the stored answer of a claim.
LEMMA ResponseType ==
    ASSUME NEW t \in Transaction
    PROVE  Response(t) \in Seq(ClaimAnswer)
<1>1. t.results \in Seq(Status)
  BY DEF Transaction
<1>2. \A s \in Status : ClaimStatus(s) \in ClaimAnswer
  BY DEF ClaimStatus, ClaimAnswer
<1>3. Response(t) \in [1 .. Len(t.results) -> ClaimAnswer]
  BY <1>1, <1>2 DEF Response
<1>4. QED
  BY <1>1, <1>3

LEMMA StepCommit == ASSUME IInv, NEW r \in Request, Commit(r) PROVE IInv'
<1> DEFINE t == tx[r]
           k == t.call.key
<1>1. /\ t.step = "commit"
      /\ cloud' = Seen(r)
      /\ tx' = [tx EXCEPT ![r] = Done]
      /\ answered' = answered \union Answers(t)
      /\ behind' = (behind \ Wrote(r)) \union {rec \in Wrote(r) : ~After(At(rec, cloud'), cursor)}
      /\ UNCHANGED <<alive, clock, cursor, view, orphans, workload>>
  BY DEF Commit
<1>2. /\ t \in Transaction /\ Placed(t) /\ t.call \in Call /\ t.call.batch \in Seq(Item)
      /\ t.results \in Seq(Status) /\ cloud \in [Record -> Row]
      /\ k # None => t.holds /\ k \in Key
  BY <1>1 DEF IInv, TypeOK, PlaceInv, Placed, Transaction, Call
<1>3. /\ tx' \in [Request -> Transaction] /\ tx'[r] = Done
      /\ \A q \in Request : q # r => tx'[q] = tx[q]
  BY <1>1, EmptyType DEF IInv, TypeOK
<1>4. \A rec \in Record : cloud'[rec] = SeenRow(t, cloud, rec) /\ cloud'[rec] \in Row
  BY <1>1, <1>2, SeenRows, SeenRowType
<1>5. cloud' \in [Record -> Row]
  <2>1. cloud' = [rec \in Record |-> IF rec \in Wrote(r) THEN t.wrote[rec] ELSE cloud[rec]]
    BY <1>1 DEF Seen
  <2>2. QED
    BY <1>4, <2>1
<1>6. \A rec \in Record : Later(cloud[rec], cloud'[rec])
  BY <1>4, Alone DEF AloneWithRows, SeenRow, Later
<1>7. \A rec \in Record : rec \notin Wrote(r) => cloud'[rec] = cloud[rec]
  BY <1>4, SeenRows DEF SeenRow
<1>8. Answers(t) \subseteq [item: Item, status: Status]
  BY <1>2, BatchType DEF Answers
<1>9. /\ \A j \in DOMAIN claims : j # k => j \in DOMAIN claims' /\ claims'[j] = claims[j]
      /\ DOMAIN claims' = IF k = None THEN DOMAIN claims ELSE DOMAIN claims \union {k}
      /\ k = None => claims' = claims
      /\ k # None => claims'[k] = [batch |-> t.call.batch, answer |-> Response(t)]
  BY DEF Commit
<1>10. replies' = replies \union
          IF k = None THEN {}
          ELSE {[key |-> k, batch |-> t.call.batch, answer |-> Response(t)]}
  BY DEF Commit
<1>11. k # None => k \notin DOMAIN claims
  BY <1>2, Alone DEF AloneWithKey
<1> HIDE DEF k
<1>12. TypeOK'
  <2>1. [batch |-> t.call.batch, answer |-> Response(t)] \in Claimed
    BY <1>2, ResponseType DEF Claimed, ClaimAnswer
  <2>2. \A j \in DOMAIN claims' : j \in Key /\ claims'[j] \in Claimed
    BY <1>2, <1>9, <2>1 DEF IInv, TypeOK
  <2>3. replies' \subseteq Reply
    BY <1>2, <1>10, ResponseType, Replies DEF Reply
  <2>4. behind' \subseteq Record
    BY <1>1 DEF IInv, TypeOK, Wrote
  <2>5. QED
    BY <1>1, <1>3, <1>5, <1>8, <2>2, <2>3, <2>4 DEF IInv, TypeOK, Reply, ClaimAnswer
<1>13. \A q \in Request : Placed(tx'[q])
  BY <1>3, EmptyType DEF IInv, PlaceInv, Placed
<1>14. PlaceInv'
  BY <1>13 DEF PlaceInv, Placed, Entry
<1>15. ClaimInv'
  <2>1. ASSUME NEW q \in Request, tx'[q].holds
        PROVE  /\ tx'[q].call.key \notin DOMAIN claims'
               /\ \A p \in Request \ {q} : tx'[p].holds => tx'[p].call.key # tx'[q].call.key
    <3>1. q # r /\ tx'[q] = tx[q]
      BY <1>3, <2>1, EmptyType
    <3>2. AloneWithKey(q, tx[q])
      BY Alone
    <3>3. k # None => tx[q].call.key # k
      BY <1>2, <2>1, <3>1, <3>2 DEF AloneWithKey, k
    <3>4. QED
      BY <1>3, <1>9, <2>1, <3>1, <3>2, <3>3, EmptyType DEF AloneWithKey
  <2>2. ASSUME NEW p \in replies'
        PROVE  p.key \in DOMAIN claims' /\ claims'[p.key] = [batch |-> p.batch, answer |-> p.answer]
    <3>1. CASE p \in replies
      <4>1. StoredReply(p)
        BY <3>1, Replies
      <4>2. QED
        BY <1>9, <1>11, <4>1 DEF StoredReply
    <3>2. CASE p \notin replies
      BY <1>9, <1>10, <3>2
    <3>3. QED
      BY <3>1, <3>2
  <2>3. QED
    BY <2>1, <2>2 DEF ClaimInv, KeyHeld
<1>16. ASSUME NEW q \in Request, q # r, NEW rec \in Record, tx[q].wrote[rec] # NoRow
       PROVE  cloud'[rec] = cloud[rec]
  BY <1>7, <1>16, Alone, SeenRows DEF AloneWithRows
<1>17. WroteInv'
  <2>1. SUFFICES ASSUME NEW q \in Request, NEW rec \in Record, tx'[q].wrote[rec] # NoRow
                 PROVE  /\ \A p \in Request \ {q} : tx'[p].wrote[rec] = NoRow
                        /\ Later(cloud'[rec], tx'[q].wrote[rec])
    BY DEF WroteInv, Wrote, Free, Later
  <2>2. q # r /\ tx'[q] = tx[q]
    BY <1>3, <2>1, EmptyType DEF NoRows
  <2>3. AloneWithRows(q, tx[q])
    BY Alone
  <2>4. tx'[r].wrote[rec] = NoRow
    BY <1>3, EmptyType DEF NoRows
  <2>5. QED
    BY <1>3, <1>16, <2>1, <2>2, <2>3, <2>4 DEF AloneWithRows
<1>18. ASSUME alive', NEW q \in Request
       PROVE  ResultsOk(tx'[q], cloud', orphans') /\ UnderwayOk(tx'[q], cloud', orphans')
  <2>1. CASE q = r
    BY <1>3, <2>1, EmptyOk, EmptyType
  <2>2. CASE q # r
    <3>1. tx[q] \in Transaction /\ Placed(tx[q])
      BY DEF IInv, TypeOK, PlaceInv
    <3>2. ResultsOk(tx[q], cloud, orphans) /\ UnderwayOk(tx[q], cloud, orphans)
      BY <1>1, <1>18, ResultsByTransaction DEF IInv
    <3>3. \A rec \in Record : Later(SeenRow(tx[q], cloud, rec), SeenRow(tx[q], cloud', rec))
      BY <1>6, LaterSeen
    <3>4. orphans \subseteq orphans'
      BY <1>1
    <3>5. ResultsOk(tx[q], cloud', orphans') /\ UnderwayOk(tx[q], cloud', orphans')
      BY <1>2, <1>5, <3>1, <3>2, <3>3, <3>4, StillOk
    <3>6. QED
      BY <1>3, <2>2, <3>5
  <2>3. QED
    BY <2>1, <2>2
<1>19. ResultInv' /\ UnderwayInv'
  BY <1>12, <1>14, <1>18, ResultsByTransactionNext
<1>20. AnswersStayTrue'
  <2>1. ASSUME alive, NEW a \in answered', a.status # "rejected", a.item.record \notin orphans
        PROVE  /\ a.item.record \in Record /\ cloud'[a.item.record].state # "none"
               /\ Holds(a.item, a.status, cloud'[a.item.record])
    <3>1. a.item \in Item /\ a.item.record \in Record /\ a.status \in Status
      BY <1>12 DEF TypeOK, Item
    <3>2. CASE a \in answered
      <4>1. /\ cloud[a.item.record].state # "none"
            /\ Holds(a.item, a.status, cloud[a.item.record])
        BY <2>1, <3>2 DEF IInv, AnswersStayTrue, Present
      <4>2. cloud[a.item.record] \in Row /\ cloud'[a.item.record] \in Row
        BY <1>2, <1>4, <3>1
      <4>3. Later(cloud[a.item.record], cloud'[a.item.record])
        BY <1>6, <3>1
      <4>4. QED
        BY <3>1, <4>1, <4>2, <4>3, LaterTruth
    <3>3. CASE a \in Answers(t)
      <4>1. ResultsOk(t, cloud, orphans) /\ DOMAIN t.results = 1 .. Len(t.results)
        BY <1>2, <2>1, ResultsByTransaction DEF IInv
      <4> HIDE DEF t
      <4>2. PICK i \in 1 .. Len(t.results) : a.item = t.call.batch[i] /\ a.status = t.results[i]
        BY <3>3, <4>1 DEF Answers
      <4>3. /\ SeenRow(t, cloud, a.item.record).state # "none"
            /\ Holds(a.item, a.status, SeenRow(t, cloud, a.item.record))
        BY <2>1, <4>1, <4>2 DEF ResultsOk
      <4>4. QED
        BY <1>4, <3>1, <4>3
    <3>4. QED
      BY <1>1, <2>1, <3>2, <3>3
  <2>2. QED
    BY <1>1, <2>1 DEF AnswersStayTrue, Present, Holds, Verdict, UpsertVerdict, DeleteVerdict, Matches
<1>21. OnlyOvertakenIsSkipped'
  <2>1. SUFFICES ASSUME NEW rec \in Record, cloud'[rec].state # "none", rec \notin behind',
                        ~After(At(rec, cloud'), cursor)
                 PROVE  view[rec] = cloud'[rec]
    BY <1>1 DEF OnlyOvertakenIsSkipped, Present, After, At
  <2>2. rec \notin Wrote(r) /\ rec \notin behind
    BY <1>1, <2>1
  <2>3. cloud'[rec] = cloud[rec]
    BY <1>7, <2>2
  <2>4. QED
    BY <2>1, <2>2, <2>3 DEF IInv, OnlyOvertakenIsSkipped, Present, After, At
<1>22. QED
  BY <1>12, <1>14, <1>15, <1>17, <1>19, <1>20, <1>21 DEF IInv

LEMMA StepPull == ASSUME IInv, Pull PROVE IInv'
<1>1. PICK last \in Changes :
          /\ cursor' = At(last, cloud)
          /\ view' = [rec \in Record |-> IF rec \in Page(last) THEN cloud[rec] ELSE view[rec]]
  BY DEF Pull
<1>2. UNCHANGED <<alive, cloud, claims, clock, tx, behind, answered, replies, orphans, workload>>
  BY DEF Pull, ghosts
<1>3. last \in Record /\ last \in Nat /\ cloud[last] \in Row
  BY SyncAssumption DEF Changes, Present, IInv, TypeOK
<1>4. cursor' \in Position
  BY <1>1, <1>3 DEF At, Row, Position
<1>5. view' \in [Record -> Row]
  BY <1>1 DEF IInv, TypeOK
<1>6. TypeOK'
  BY <1>2, <1>4, <1>5 DEF IInv, TypeOK
<1>7. OnlyOvertakenIsSkipped'
  <2>1. SUFFICES ASSUME NEW rec \in Record, cloud[rec].state # "none", rec \notin behind,
                        ~After(At(rec, cloud), cursor')
                 PROVE  view'[rec] = cloud[rec]
    BY <1>2 DEF OnlyOvertakenIsSkipped, Present, After, At
  <2>2. CASE rec \in Page(last)
    BY <1>1, <2>2
  <2>3. CASE rec \notin Page(last)
    <3>1. rec \notin Changes
      BY <1>1, <2>1, <2>3 DEF Page, Before, After
    <3>2. ~After(At(rec, cloud), cursor)
      BY <2>1, <3>1 DEF Changes, Present
    <3>3. QED
      BY <1>1, <2>1, <2>3, <3>2 DEF IInv, OnlyOvertakenIsSkipped, Present
  <2>4. QED
    BY <2>2, <2>3
<1>8. PlaceInv' /\ ClaimInv' /\ WroteInv'
  <2>1. PlaceInv'
    BY <1>2 DEF IInv, PlaceInv, Placed, Entry
  <2>2. ClaimInv'
    BY <1>2 DEF IInv, ClaimInv, KeyHeld
  <2>3. WroteInv'
    BY <1>2 DEF IInv, WroteInv, Wrote, Free, Later
  <2>4. QED
    BY <2>1, <2>2, <2>3
<1>9. ResultInv' /\ UnderwayInv'
  <2>1. \A q \in Request : alive => ResultsOk(tx[q], cloud, orphans) /\ UnderwayOk(tx[q], cloud, orphans)
    BY ResultsByTransaction DEF IInv
  <2>2. QED
    BY <1>2, <1>6, <1>8, <2>1, ResultsByTransactionNext
<1>10. AnswersStayTrue'
  BY <1>2 DEF IInv, AnswersStayTrue, Present, Holds, Verdict, UpsertVerdict, DeleteVerdict, Matches
<1>11. QED
  BY <1>6, <1>7, <1>8, <1>9, <1>10 DEF IInv

LEMMA StepDeleteAccount == ASSUME IInv, DeleteAccount PROVE IInv'
<1>1. /\ alive' = FALSE /\ cloud' = NoRows /\ claims' = <<>> /\ cursor' = Start
      /\ view' = NoRows /\ behind' = {} /\ answered' = {} /\ replies' = {}
      /\ UNCHANGED <<clock, tx, orphans, workload>>
      /\ \A r \in Request : ~tx[r].holds /\ Wrote(r) = {}
  BY DEF DeleteAccount
<1>2. TypeOK'
  <2>1. NoRows \in [Record -> Row] /\ Start \in Position
    BY EmptyType DEF Start, Position
  <2>2. \A k \in DOMAIN claims' : k \in Key /\ claims'[k] \in Claimed
    BY <1>1, EmptyType
  <2>3. clock' \in Nat /\ tx' \in [Request -> Transaction] /\ orphans' \subseteq Record
        /\ workload'.calls \subseteq Call
    BY <1>1 DEF IInv, TypeOK
  <2>4. QED
    BY <1>1, <2>1, <2>2, <2>3 DEF TypeOK
<1>3. PlaceInv'
  BY <1>1 DEF IInv, PlaceInv, Placed, Entry
<1>4. ClaimInv' /\ ResultInv' /\ UnderwayInv' /\ AnswersStayTrue'
  BY <1>1 DEF ClaimInv, ResultInv, UnderwayInv, AnswersStayTrue
<1>5. WroteInv'
  BY <1>1 DEF WroteInv, Wrote
<1>6. OnlyOvertakenIsSkipped'
  BY <1>1 DEF OnlyOvertakenIsSkipped, Present, NoRows, NoRow
<1>7. QED
  BY <1>2, <1>3, <1>4, <1>5, <1>6 DEF IInv

LEMMA InitIInv == ASSUME Init PROVE IInv
<1>1. PICK s \in Scenario :
          cloud = s.rows /\ workload = [calls |-> s.calls, closing |-> s.closing]
  BY DEF Init
<1>2. cloud \in [Record -> Row] /\ workload.calls \subseteq Call
  BY <1>1, SyncAssumption
<1>3. \A r \in Request : tx[r] = New
  BY DEF Init
<1>4. TypeOK
  BY <1>2, EmptyType DEF Init, TypeOK, Start, Position
<1>5. \A r \in Request : Placed(tx[r])
  BY <1>3, EmptyType DEF Placed
<1>6. PlaceInv /\ ClaimInv
  BY <1>3, <1>5, EmptyType DEF PlaceInv, ClaimInv, Init
<1>7. WroteInv
  BY <1>3, EmptyType DEF WroteInv, Wrote, NoRows
<1>8. ResultInv /\ UnderwayInv
  BY <1>3, EmptyType DEF ResultInv, UnderwayInv
<1>9. AnswersStayTrue
  BY DEF Init, AnswersStayTrue
<1>10. OnlyOvertakenIsSkipped
  <2>1. \A rec \in Record : cloud[rec].at \in Nat
    BY <1>2 DEF Row
  <2>2. cursor.at = -1
    BY DEF Init, Start
  <2>3. \A rec \in Record : After(At(rec, cloud), cursor)
    <3>1. TAKE rec \in Record
    <3>2. At(rec, cloud).at = cloud[rec].at
      BY DEF At
    <3>3. cloud[rec].at > -1
      BY <2>1
    <3>4. QED
      BY <2>2, <3>2, <3>3 DEF After
  <2>4. QED
    BY <2>3 DEF OnlyOvertakenIsSkipped, Present
<1>11. QED
  BY <1>4, <1>6, <1>7, <1>8, <1>9, <1>10 DEF IInv

LEMMA StepIInv == ASSUME IInv, [Next]_vars PROVE IInv'
<1>1. ASSUME NEW r \in Request, Serve(r) PROVE IInv'
  <2>1. CASE Crash(r)
    BY <2>1, StepFail DEF Crash, Fail
  <2>2. QED
    BY <1>1, <2>1, StepPush, StepClaim, StepTryCreate, StepReject, StepTryInsert,
       StepUpdateIfNewer, StepDeleteIfNewer, StepReadExisting, StepCommit DEF Serve
<1>2. CASE UNCHANGED vars
  <2>1. UNCHANGED <<alive, cloud, claims, clock, tx, cursor, view, behind, answered, replies,
                    orphans, workload>>
    BY <1>2 DEF vars, device, ghosts
  <2>2. TypeOK' /\ PlaceInv' /\ ClaimInv' /\ WroteInv'
    <3>1. TypeOK' /\ PlaceInv'
      BY <2>1 DEF IInv, TypeOK, PlaceInv, Placed, Entry
    <3>2. ClaimInv'
      BY <2>1 DEF IInv, ClaimInv, KeyHeld
    <3>3. WroteInv'
      BY <2>1 DEF IInv, WroteInv, Wrote, Free, Later
    <3>4. QED
      BY <3>1, <3>2, <3>3
  <2>3. \A q \in Request : alive => ResultsOk(tx[q], cloud, orphans) /\ UnderwayOk(tx[q], cloud, orphans)
    BY ResultsByTransaction DEF IInv
  <2>4. ResultInv' /\ UnderwayInv'
    BY <2>1, <2>2, <2>3, ResultsByTransactionNext
  <2>5. AnswersStayTrue' /\ OnlyOvertakenIsSkipped'
    <3>1. AnswersStayTrue'
      BY <2>1 DEF IInv, AnswersStayTrue, Present, Holds, Verdict, UpsertVerdict, DeleteVerdict,
         Matches
    <3>2. OnlyOvertakenIsSkipped'
      BY <2>1 DEF IInv, OnlyOvertakenIsSkipped, Present, After, At
    <3>3. QED
      BY <3>1, <3>2
  <2>6. QED
    BY <2>2, <2>4, <2>5 DEF IInv
<1>3. QED
  BY <1>1, <1>2, StepPull, StepDeleteAccount DEF Next

\* What transactions hold, have answered and are about to decide agrees with
\* the rows they see.
THEOREM SyncInvariance == Spec => []IInv
<1>1. Init => IInv
  BY InitIInv
<1>2. IInv /\ [Next]_vars => IInv'
  BY StepIInv
<1>3. QED
  BY <1>1, <1>2, PTL DEF Spec

\* Every variable keeps its type.
THEOREM SyncTypes == Spec => []TypeOK
<1>1. IInv => TypeOK
  BY DEF IInv
<1>2. QED
  BY <1>1, SyncInvariance, PTL

\* What a device was told of an entry stays true of the committed row, whatever
\* is pushed and claimed beside it and later.
THEOREM TruthLasts == Spec => []AnswersStayTrue
<1>1. IInv => AnswersStayTrue
  BY DEF IInv
<1>2. QED
  BY <1>1, SyncInvariance, PTL

\* Two answers to one key are the same answer to the same request.
THEOREM ClaimsHaveOneAnswer == Spec => []ClaimAnsweredOnce
<1>1. IInv => ClaimAnsweredOnce
  <2>1. SUFFICES ASSUME IInv, NEW a \in replies, NEW b \in replies, a.key = b.key
                 PROVE  a = b
    BY DEF ClaimAnsweredOnce
  <2>2. a \in Reply /\ b \in Reply /\ StoredReply(a) /\ StoredReply(b)
    BY <2>1, Replies
  <2>3. a.batch = b.batch /\ a.answer = b.answer
    BY <2>1, <2>2 DEF StoredReply
  <2>4. QED
    BY <2>1, <2>2, <2>3 DEF Reply
<1>2. QED
  BY <1>1, SyncInvariance, PTL

\* However the pages of a pull fall, the device has every record its cursor has
\* passed, but for what was committed behind the cursor.
THEOREM PullsMissNothing == Spec => []OnlyOvertakenIsSkipped
<1>1. IInv => OnlyOvertakenIsSkipped
  BY DEF IInv
<1>2. QED
  BY <1>1, SyncInvariance, PTL
=============================================================================
