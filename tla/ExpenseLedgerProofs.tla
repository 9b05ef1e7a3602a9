------------------------ MODULE ExpenseLedgerProofs ------------------------
(* Proofs about ExpenseLedger for any expenses, members, operations and     *)
(* faults.                                                                  *)
EXTENDS ExpenseLedger, TLAPS

Label == {"idle", "receipt", "row", "settlements", "apply", "expense", "share",
          "stamp", "write", "answered"}
Answer == {"none", "accepted", "duplicate", "conflict", "rejected", "error"}
FeedRow == [op: Op \union {Creation}, expense: Expense, version: Nat,
            kind: {"snapshot", "tombstone", "share"}, details: Details]
LedgerRow == [version: Nat, deleted: BOOLEAN, details: Details]

-----------------------------------------------------------------------------
(* What the building blocks of the actions do.                             *)

LEMMA BodyType ==
    ASSUME NEW c \in Call
    PROVE  /\ c.op \in Op /\ Target(c) \in Expense /\ Asked(c) \in Details
           /\ KindOf(c) \in Kind /\ c # Nobody
  BY LedgerAssumption DEF Call, Target, Asked, KindOf

LEMMA RowType ==
    ASSUME NEW v \in Nat, NEW d \in BOOLEAN, NEW x \in Details
    PROVE  Row(v, d, x) \in LedgerRow
  BY DEF Row, LedgerRow

LEMMA ChangeType ==
    ASSUME NEW o \in Op \union {Creation}, NEW e \in Expense,
           NEW k \in {"snapshot", "tombstone", "share"}, NEW row \in LedgerRow
    PROVE  Change(o, e, k, row) \in FeedRow
  BY DEF Change, FeedRow, LedgerRow

LEMMA RespondEffect ==
    ASSUME TypeOK, NEW c \in Call, NEW r \in Answer, Respond(c, r)
    PROVE  /\ pc' \in [Call -> Label] /\ reply' \in [Call -> Answer]
           /\ pc'[c] = "answered"
           /\ \A d \in Call : d # c => pc'[d] = pc[d]
  BY DEF TypeOK, Respond, Goto, Label, Answer

LEMMA GotoEffect ==
    ASSUME TypeOK, NEW c \in Call, NEW place \in Label, Goto(c, place)
    PROVE  /\ pc' \in [Call -> Label]
           /\ pc'[c] = place
           /\ \A d \in Call : d # c => pc'[d] = pc[d]
  BY DEF TypeOK, Goto, Label

LEMMA ForgetEffect ==
    ASSUME TypeOK, NEW c \in Call, Forget(c)
    PROVE  /\ pc' \in [Call -> Label] /\ reply' \in [Call -> Answer]
           /\ sawLock' \subseteq Call /\ stamp' \in [Call -> Nat]
           /\ pc'[c] = "idle"
           /\ \A d \in Call : d # c => pc'[d] = pc[d] /\ stamp'[d] = stamp[d]
<1>1. Goto(c, "idle") /\ "idle" \in Label
  BY DEF Forget, Label
<1>2. /\ reply' \in [Call -> Answer] /\ sawLock' \subseteq Call /\ stamp' \in [Call -> Nat]
      /\ \A d \in Call : d # c => stamp'[d] = stamp[d]
  BY DEF Forget, TypeOK, Answer
<1>3. QED
  BY <1>1, <1>2, GotoEffect

LEMMA ReleaseEffect ==
    ASSUME TypeOK, NEW c \in Call, Release(c)
    PROVE  /\ rowLock' \in [Expense -> Call \union {Nobody}]
           /\ \A e \in Expense : rowLock[e] \notin {c, Nobody} => rowLock'[e] = rowLock[e]
  BY DEF TypeOK, Release

LEMMA AppendType ==
    ASSUME NEW S, NEW s \in Seq(S), NEW x \in S
    PROVE  Append(s, x) \in Seq(S)
  OBVIOUS

LEMMA AppendParts ==
    ASSUME NEW S, NEW s \in Seq(S), NEW x \in S
    PROVE  /\ Len(s) \in Nat /\ Len(s) + 1 \notin DOMAIN s
           /\ DOMAIN Append(s, x) = DOMAIN s \union {Len(s) + 1}
           /\ Append(s, x)[Len(s) + 1] = x
           /\ \A i \in DOMAIN s : i \in Nat /\ i < Len(s) + 1 /\ s[i] \in S
                                  /\ Append(s, x)[i] = s[i]
<1>1. Len(s) \in Nat /\ DOMAIN s = 1 .. Len(s)
  OBVIOUS
<1>2. DOMAIN Append(s, x) = 1 .. Len(s) + 1
  OBVIOUS
<1>3. Append(s, x)[Len(s) + 1] = x
  OBVIOUS
<1>4. \A i \in 1 .. Len(s) : Append(s, x)[i] = s[i] /\ s[i] \in S
  OBVIOUS
<1>5. QED
  BY <1>1, <1>2, <1>3, <1>4

\* The type of everything a call's own steps can change.
CallTypes ==
    /\ rowLock' \in [Expense -> Call \union {Nobody}]
    /\ pc' \in [Call -> Label]
    /\ sawLock' \subseteq Call
    /\ stamp' \in [Call -> Nat]
    /\ reply' \in [Call -> Answer]
    /\ faults' \in Nat

LEMMA TypesOfCalls ==
    ASSUME TypeOK, UNCHANGED dbVars, UNCHANGED clientVars, CallTypes
    PROVE  TypeOK'
  BY DEF TypeOK, dbVars, clientVars, CallTypes, Label, Answer

LEMMA OneMoreFault ==
    ASSUME TypeOK, faults' = faults \/ faults' = faults + 1
    PROVE  faults' \in Nat
  BY DEF TypeOK

\* A call moves and no row changes: only what c itself now holds is in question.
Moves(c) ==
    /\ UNCHANGED <<ledger, settled, expected>>
    /\ \A d \in Call : d # c => pc'[d] = pc[d] /\ stamp'[d] = stamp[d]
    /\ \A e \in Expense : rowLock[e] \notin {c, Nobody} => rowLock'[e] = rowLock[e]

LEMMA Moved ==
    ASSUME IInv, NEW c \in Call, Moves(c),
           pc'[c] \in {"row", "settlements", "apply"} => KindOf(c) \in Mutation,
           pc'[c] \in {"expense", "share", "stamp", "write"} => KindOf(c) \notin Mutation,
           pc'[c] = "write" => stamp'[c] > 0,
           pc'[c] \in {"settlements", "apply"} =>
               rowLock'[Target(c)] = c /\ ~Overtaken(c)
    PROVE  RowInv' /\ PathInv' /\ LockInv' /\ StampInv'
<1>1. RowInv'
  BY DEF IInv, RowInv, Created, Moves
<1>2. PathInv'
  BY DEF IInv, PathInv, Moves, KindOf
<1>3. LockInv'
  <2>1. SUFFICES ASSUME NEW d \in Call, pc'[d] \in {"settlements", "apply"}
                 PROVE  rowLock'[Target(d)] = d /\ ~Overtaken(d)'
    BY DEF LockInv, Target
  <2>2. ~Overtaken(d) => ~Overtaken(d)'
    BY DEF Overtaken, Moves, Target
  <2>3. CASE d = c
    BY <2>1, <2>2, <2>3
  <2>4. CASE d # c
    <3>1. rowLock[Target(d)] = d /\ ~Overtaken(d)
      BY <2>1, <2>4 DEF Moves, IInv, LockInv
    <3>2. QED
      BY <2>2, <2>4, <3>1, BodyType DEF Moves
  <2>5. QED
    BY <2>3, <2>4
<1>4. StampInv'
  BY DEF IInv, StampInv, Moves
<1>5. QED
  BY <1>1, <1>2, <1>3, <1>4

-----------------------------------------------------------------------------
(* Every action preserves the invariant.                                   *)

LEMMA InitIInv == ASSUME Init PROVE IInv
<1>1. \A e \in Expense : Row(0, FALSE, Initial[e]) \in LedgerRow
  BY LedgerAssumption, RowType
<1>2. ledger \in [Expense -> LedgerRow]
  BY <1>1 DEF Init
<1>3. feed \in Seq(FeedRow)
  BY DEF Init
<1>4. planned \subseteq Call
  BY LedgerAssumption DEF Init
<1>5. TypeOK
  BY <1>2, <1>3, <1>4 DEF Init, TypeOK, LedgerRow, FeedRow, Unsent
<1>6. RowInv /\ PathInv /\ LockInv /\ StampInv
  BY DEF Init, RowInv, PathInv, LockInv, StampInv, Row
<1>7. QED
  BY <1>5, <1>6 DEF IInv

\* Calls stay where they are, and rows that calls hold stay as they are.
LEMMA Untouched ==
    ASSUME IInv, UNCHANGED <<rowLock, pc, stamp>>,
           \A c \in Call : pc[c] \in {"settlements", "apply"} =>
               (~Overtaken(c) => ~Overtaken(c)')
    PROVE  PathInv' /\ LockInv' /\ StampInv'
  BY DEF IInv, PathInv, LockInv, StampInv, KindOf, Target

LEMMA StepCreate == ASSUME IInv, NEW e \in Expense, Create(e) PROVE IInv'
<1>1. Row(1, FALSE, Initial[e]) \in LedgerRow /\ Row(1, FALSE, Initial[e]).version = 1
      /\ Row(1, FALSE, Initial[e]).deleted = FALSE
  BY LedgerAssumption, RowType DEF Row
<1>2. /\ ledger \in [Expense -> LedgerRow]
      /\ ledger' = [ledger EXCEPT ![e] = Row(1, FALSE, Initial[e])]
      /\ UNCHANGED <<settled, rowLock, pc, stamp, expected>>
      /\ ledger[e].version = 0
  BY DEF IInv, TypeOK, Create, LedgerRow, Created, clientVars
<1>3. ledger' \in [Expense -> LedgerRow] /\ announce' \in [Expense -> {"none", "pending", "lost", "done"}]
  BY <1>1 DEF IInv, TypeOK, Create, LedgerRow
<1>4. TypeOK'
  BY <1>3 DEF IInv, TypeOK, Create, LedgerRow, clientVars
<1>5. RowInv'
  <2>1. ledger'[e].version = 1 /\ \A x \in Expense : x # e => ledger'[x] = ledger[x]
    BY <1>1, <1>2
  <2>2. \A x \in Expense : ledger[x].deleted \/ x \in settled => ledger[x].version > 0
    BY DEF IInv, RowInv, Created
  <2>3. ASSUME NEW x \in Expense, ledger'[x].deleted \/ x \in settled'
        PROVE  ledger'[x].version > 0
    <3>1. CASE x = e
      BY <2>1, <3>1
    <3>2. CASE x # e
      BY <1>2, <2>1, <2>2, <2>3, <3>2
    <3>3. QED
      BY <3>1, <3>2
  <2>4. QED
    BY <2>3 DEF RowInv, Created
<1>6. ASSUME NEW c \in Call, ~Overtaken(c)
      PROVE  ~Overtaken(c)'
  <2>1. CASE Target(c) = e
    BY <1>1, <1>2, <1>6, <2>1 DEF Overtaken, Unversioned, Target
  <2>2. CASE Target(c) # e
    BY <1>2, <1>6, <2>2 DEF Overtaken, Target
  <2>3. QED
    BY <2>1, <2>2
<1>7. QED
  BY <1>2, <1>4, <1>5, <1>6, Untouched DEF IInv

LEMMA StepAnnounce ==
    ASSUME IInv, NEW e \in Expense, Announce(e) \/ CreatorDies(e)
    PROVE  IInv'
<1>1. UNCHANGED <<ledger, settled, rowLock, pc, clock, sawLock, stamp, reply, receipts, expected,
                  told, planned>>
  BY DEF Announce, CreatorDies, clientVars
<1>2. feed' \in Seq(FeedRow)
  <2>1. feed \in Seq(FeedRow) /\ ledger[e] \in LedgerRow
    BY DEF IInv, TypeOK, FeedRow, LedgerRow
  <2>2. /\ Change(Creation, e, "snapshot", Row(1, FALSE, Initial[e])) \in FeedRow
        /\ Change(Creation, e, "snapshot", ledger[e]) \in FeedRow
    BY <2>1, LedgerAssumption, RowType, ChangeType
  <2>3. \/ feed' = feed
        \/ feed' = Append(feed, Change(Creation, e, "snapshot", Row(1, FALSE, Initial[e])))
        \/ feed' = Append(feed, Change(Creation, e, "snapshot", ledger[e]))
    BY DEF Announce, CreatorDies
  <2>4. QED
    BY <2>1, <2>2, <2>3, AppendType
<1>3. announce' \in [Expense -> {"none", "pending", "lost", "done"}] /\ faults' \in Nat
  <2>1. announce \in [Expense -> {"none", "pending", "lost", "done"}]
    BY DEF IInv, TypeOK
  <2>2. \/ announce' = [announce EXCEPT ![e] = "done"] /\ faults' = faults
        \/ announce' = [announce EXCEPT ![e] = "lost"] /\ faults' = faults + 1
    BY DEF Announce, CreatorDies
  <2>3. QED
    BY <2>1, <2>2, OneMoreFault DEF IInv
<1>4. TypeOK'
  BY <1>1, <1>2, <1>3 DEF IInv, TypeOK, FeedRow
<1>5. RowInv' /\ PathInv' /\ LockInv' /\ StampInv'
  BY <1>1, Untouched DEF IInv, RowInv, Created, Overtaken, Target
<1>6. QED
  BY <1>4, <1>5 DEF IInv

LEMMA StepSettle == ASSUME IInv, Settle PROVE IInv'
<1>1. UNCHANGED <<ledger, rowLock, pc, stamp, expected>> /\ settled' = {e \in Expense : Created(e)}
  BY DEF Settle, clientVars
<1>2. TypeOK'
  BY DEF IInv, TypeOK, Settle, clientVars
<1>3. RowInv'
  BY <1>1 DEF IInv, RowInv, Created
<1>4. PathInv' /\ LockInv' /\ StampInv'
  BY <1>1, Untouched DEF Overtaken, Target
<1>5. QED
  BY <1>2, <1>3, <1>4 DEF IInv

\* No call can be under way with an operation that has not been queued.
LEMMA StepEnqueue == ASSUME IInv, NEW o \in Op, Enqueue(o) PROVE IInv'
<1>1. /\ UNCHANGED <<ledger, settled, rowLock, pc, stamp>>
      /\ Body[o].expense \in Expense
      /\ expected[o] = Unsent
      /\ expected' = [expected EXCEPT ![o] =
                        IF Body[o].versioned THEN ledger[Body[o].expense].version ELSE Unversioned]
  BY LedgerAssumption DEF Enqueue, dbVars
<1>2. expected' \in [Op -> Nat \union {Unsent}]
  BY <1>1 DEF IInv, TypeOK, Unversioned
<1>3. TypeOK'
  BY <1>2 DEF IInv, TypeOK, Enqueue, dbVars
<1>4. ASSUME NEW c \in Call, ~Overtaken(c)
      PROVE  ~Overtaken(c)'
  <2>1. c.op # o
    <3>1. ledger[Target(c)].version \in Nat
      BY BodyType DEF IInv, TypeOK
    <3>2. QED
      BY <1>1, <1>4, <3>1 DEF Overtaken, Unsent, Unversioned
  <2>2. QED
    BY <1>1, <1>4, <2>1, BodyType DEF IInv, TypeOK, Overtaken, Target
<1>5. RowInv' /\ PathInv' /\ LockInv' /\ StampInv'
  BY <1>1, <1>4, Untouched DEF IInv, RowInv, Created
<1>6. QED
  BY <1>3, <1>5 DEF IInv

LEMMA StepSend == ASSUME IInv, NEW c \in Call, Send(c) PROVE IInv'
<1>1. Goto(c, "receipt") /\ UNCHANGED <<rowLock, sawLock, stamp, reply, faults>>
      /\ UNCHANGED dbVars /\ UNCHANGED clientVars
  BY DEF Send
<1>2. pc' \in [Call -> Label] /\ pc'[c] = "receipt" /\ \A d \in Call : d # c => pc'[d] = pc[d]
  BY <1>1, GotoEffect DEF IInv, Label
<1>3. TypeOK'
  BY <1>1, <1>2, TypesOfCalls DEF IInv, TypeOK, CallTypes, Label, Answer
<1>4. Moves(c)
  BY <1>1, <1>2 DEF Moves, dbVars, clientVars
<1>5. QED
  BY <1>2, <1>3, <1>4, Moved DEF IInv

\* A statement that only reads: c answers, or goes on to a place it may be at.
Reads(c, place) ==
    /\ \/ \E r \in Answer : Respond(c, r)
       \/ Goto(c, place) /\ UNCHANGED reply
    /\ UNCHANGED <<rowLock, stamp, faults>> /\ sawLock' \subseteq Call
    /\ UNCHANGED dbVars /\ UNCHANGED clientVars

LEMMA StepReads ==
    ASSUME IInv, NEW c \in Call, NEW place \in Label, Reads(c, place),
           place \in {"row", "settlements", "apply"} => KindOf(c) \in Mutation,
           place \in {"expense", "share", "stamp"} => KindOf(c) \notin Mutation,
           place # "write",
           place \in {"settlements", "apply"} => rowLock[Target(c)] = c /\ ~Overtaken(c)
    PROVE  IInv'
<1>1. /\ pc' \in [Call -> Label] /\ reply' \in [Call -> Answer]
      /\ pc'[c] \in {"answered", place}
      /\ \A d \in Call : d # c => pc'[d] = pc[d]
  <2>1. CASE \E r \in Answer : Respond(c, r)
    BY <2>1, RespondEffect DEF IInv
  <2>2. CASE Goto(c, place) /\ UNCHANGED reply
    BY <2>2, GotoEffect DEF IInv, TypeOK, Answer
  <2>3. QED
    BY <2>1, <2>2 DEF Reads
<1>2. TypeOK'
  BY <1>1, TypesOfCalls DEF Reads, IInv, TypeOK, CallTypes
<1>3. Moves(c) /\ rowLock' = rowLock
  BY <1>1 DEF Moves, Reads, dbVars, clientVars
<1>4. QED
  BY <1>1, <1>2, <1>3, Moved DEF IInv

LEMMA StepCheckReceipt == ASSUME IInv, NEW c \in Call, CheckReceipt(c) PROVE IInv'
<1>1. CASE KindOf(c) \in Mutation
  <2>1. Reads(c, "row")
    BY <1>1 DEF CheckReceipt, Reads, Answer, IInv, TypeOK
  <2>2. QED
    BY <1>1, <2>1, StepReads DEF Label
<1>2. CASE KindOf(c) \notin Mutation
  <2>1. Reads(c, "expense")
    BY <1>2 DEF CheckReceipt, Reads, Answer, IInv, TypeOK
  <2>2. QED
    BY <1>2, <2>1, StepReads DEF Label
<1>3. QED
  BY <1>1, <1>2

LEMMA StepReadSettlements == ASSUME IInv, NEW c \in Call, ReadSettlements(c) PROVE IInv'
<1>1. Reads(c, "apply")
  BY DEF ReadSettlements, Reads, IInv, TypeOK
<1>2. pc[c] = "settlements" /\ KindOf(c) \in Mutation /\ rowLock[Target(c)] = c /\ ~Overtaken(c)
  BY DEF ReadSettlements, IInv, PathInv, LockInv
<1>3. QED
  BY <1>1, <1>2, StepReads DEF Label

LEMMA StepCheckExpense == ASSUME IInv, NEW c \in Call, CheckExpense(c) PROVE IInv'
<1>1. Reads(c, "share")
  BY DEF CheckExpense, Reads, Answer, IInv, TypeOK
<1>2. KindOf(c) \notin Mutation
  BY DEF CheckExpense, IInv, PathInv
<1>3. QED
  BY <1>1, <1>2, StepReads DEF Label

LEMMA StepReadShare == ASSUME IInv, NEW c \in Call, ReadShare(c) PROVE IInv'
<1>1. Reads(c, "stamp")
  BY DEF ReadShare, Reads, Answer, IInv, TypeOK
<1>2. KindOf(c) \notin Mutation
  BY DEF ReadShare, IInv, PathInv
<1>3. QED
  BY <1>1, <1>2, StepReads DEF Label

\* What is read of the clock is no longer zero.
LEMMA StepStamp == ASSUME IInv, NEW c \in Call, Stamp(c) PROVE IInv'
<1>1. /\ Goto(c, "write") /\ Target(c) \in Expense
      /\ clock' = [clock EXCEPT ![Target(c)] = @ + 1]
      /\ stamp' = [stamp EXCEPT ![c] = clock[Target(c)] + 1]
      /\ UNCHANGED <<ledger, settled, receipts, feed, announce, rowLock, sawLock, reply, faults>>
      /\ UNCHANGED clientVars
  BY BodyType DEF Stamp, Tick
<1>2. pc' \in [Call -> Label] /\ pc'[c] = "write" /\ \A d \in Call : d # c => pc'[d] = pc[d]
  BY <1>1, GotoEffect DEF IInv, Label
<1>3. clock \in [Expense -> Nat] /\ stamp \in [Call -> Nat]
  BY DEF IInv, TypeOK
<1>4. clock' \in [Expense -> Nat] /\ stamp' \in [Call -> Nat] /\ stamp'[c] > 0
  BY <1>1, <1>3
<1>5. TypeOK'
  BY <1>1, <1>2, <1>4 DEF IInv, TypeOK, Label, clientVars
<1>6. Moves(c)
  BY <1>1, <1>2, <1>3 DEF Moves, clientVars
<1>7. KindOf(c) \notin Mutation
  BY DEF Stamp, IInv, PathInv
<1>8. QED
  BY <1>2, <1>4, <1>5, <1>6, <1>7, Moved DEF IInv

\* The row is taken only when it is free and as the request expects it.
LEMMA StepLockRow == ASSUME IInv, NEW c \in Call, LockRow(c) PROVE IInv'
<1>1. KindOf(c) \in Mutation /\ Target(c) \in Expense /\ c # Nobody
  BY BodyType DEF LockRow, IInv, PathInv
<1>2. CASE Respond(c, "conflict") /\ UNCHANGED rowLock
  <2>1. Reads(c, "row")
    BY <1>2 DEF LockRow, Reads, Answer, IInv, TypeOK
  <2>2. QED
    BY <1>1, <2>1, StepReads DEF Label
<1>3. CASE /\ ~Overtaken(c)
           /\ rowLock' = [rowLock EXCEPT ![Target(c)] = c]
           /\ Goto(c, "settlements")
           /\ UNCHANGED reply
  <2>1. /\ pc' \in [Call -> Label] /\ pc'[c] = "settlements"
        /\ \A d \in Call : d # c => pc'[d] = pc[d]
    BY <1>3, GotoEffect DEF IInv, Label
  <2>2. /\ rowLock' \in [Expense -> Call \union {Nobody}]
        /\ rowLock'[Target(c)] = c
        /\ \A e \in Expense : rowLock[e] \notin {c, Nobody} => rowLock'[e] = rowLock[e]
    BY <1>1, <1>3 DEF IInv, TypeOK, LockRow
  <2>3. UNCHANGED <<sawLock, stamp, faults>> /\ UNCHANGED clientVars /\ UNCHANGED dbVars
    BY DEF LockRow
  <2>4. TypeOK'
    BY <1>3, <2>1, <2>2, <2>3, TypesOfCalls DEF IInv, TypeOK, CallTypes, Answer
  <2>5. Moves(c)
    BY <2>1, <2>2, <2>3 DEF Moves, clientVars, dbVars
  <2>6. QED
    BY <1>1, <1>3, <2>1, <2>2, <2>4, <2>5, Moved DEF IInv
<1>4. QED
  BY <1>2, <1>3 DEF LockRow

LEMMA StepRefuse == ASSUME IInv, NEW c \in Call, Refuse(c) PROVE IInv'
<1>1. \E r \in Answer : Respond(c, r)
  BY DEF Refuse, Answer
<1>2. Release(c) /\ UNCHANGED <<sawLock, stamp, faults>> /\ UNCHANGED clientVars /\ UNCHANGED dbVars
  BY DEF Refuse
<1>3. /\ pc' \in [Call -> Label] /\ reply' \in [Call -> Answer] /\ pc'[c] = "answered"
      /\ \A d \in Call : d # c => pc'[d] = pc[d]
  BY <1>1, RespondEffect DEF IInv
<1>4. /\ rowLock' \in [Expense -> Call \union {Nobody}]
      /\ \A e \in Expense : rowLock[e] \notin {c, Nobody} => rowLock'[e] = rowLock[e]
  BY <1>2, ReleaseEffect DEF IInv
<1>5. TypeOK'
  BY <1>2, <1>3, <1>4, TypesOfCalls DEF IInv, TypeOK, CallTypes
<1>6. Moves(c)
  BY <1>2, <1>3, <1>4 DEF Moves, clientVars, dbVars
<1>7. QED
  BY <1>3, <1>5, <1>6, Moved DEF IInv

LEMMA StepCrash == ASSUME IInv, NEW c \in Call, Crash(c) PROVE IInv'
<1>1. Release(c) /\ Forget(c) /\ UNCHANGED clientVars /\ UNCHANGED dbVars /\ faults' = faults + 1
  BY DEF Crash
<1>2. /\ pc' \in [Call -> Label] /\ reply' \in [Call -> Answer] /\ sawLock' \subseteq Call
      /\ stamp' \in [Call -> Nat] /\ pc'[c] = "idle"
      /\ \A d \in Call : d # c => pc'[d] = pc[d] /\ stamp'[d] = stamp[d]
  BY <1>1, ForgetEffect DEF IInv
<1>3. /\ rowLock' \in [Expense -> Call \union {Nobody}]
      /\ \A e \in Expense : rowLock[e] \notin {c, Nobody} => rowLock'[e] = rowLock[e]
  BY <1>1, ReleaseEffect DEF IInv
<1>4. TypeOK'
  BY <1>1, <1>2, <1>3, OneMoreFault, TypesOfCalls DEF IInv, CallTypes
<1>5. Moves(c)
  BY <1>1, <1>2, <1>3 DEF Moves, clientVars, dbVars
<1>6. QED
  BY <1>2, <1>4, <1>5, Moved DEF IInv

LEMMA StepDeliver == ASSUME IInv, NEW c \in Call, Deliver(c) PROVE IInv'
<1>1. Forget(c) /\ UNCHANGED <<rowLock, expected, planned, faults>> /\ UNCHANGED dbVars
      /\ told' = [told EXCEPT ![c.op] = @ \union FinalAnswers(reply[c])]
  BY DEF Deliver
<1>2. /\ pc' \in [Call -> Label] /\ reply' \in [Call -> Answer] /\ sawLock' \subseteq Call
      /\ stamp' \in [Call -> Nat] /\ pc'[c] = "idle"
      /\ \A d \in Call : d # c => pc'[d] = pc[d] /\ stamp'[d] = stamp[d]
  BY <1>1, ForgetEffect DEF IInv
<1>3. FinalAnswers(reply[c]) \subseteq {"applied", "conflict", "rejected"}
  BY DEF IInv, TypeOK, FinalAnswers
<1>4. told' \in [Op -> SUBSET {"applied", "conflict", "rejected"}]
  BY <1>1, <1>3, BodyType DEF IInv, TypeOK
<1>5. TypeOK'
  BY <1>1, <1>2, <1>4 DEF IInv, TypeOK, Label, Answer, dbVars
<1>6. Moves(c)
  BY <1>1, <1>2 DEF Moves, dbVars
<1>7. QED
  BY <1>2, <1>5, <1>6, Moved DEF IInv

\* A row is written by a call while nobody else holds it.
LEMMA RowWritten ==
    ASSUME IInv, NEW c \in Call, rowLock[Target(c)] \in {c, Nobody},
           NEW new \in LedgerRow, new.version > 0, clock' \in [Expense -> Nat],
           ledger' = [ledger EXCEPT ![Target(c)] = new],
           NEW x \in FeedRow, feed' = Append(feed, x),
           receipts' = receipts \union {c.op},
           Release(c) \/ UNCHANGED rowLock, Respond(c, "accepted"),
           UNCHANGED <<settled, announce, sawLock, stamp, faults>>, UNCHANGED clientVars
    PROVE  IInv'
<1>1. /\ pc' \in [Call -> Label] /\ reply' \in [Call -> Answer]
      /\ pc'[c] = "answered"
      /\ \A d \in Call : d # c => pc'[d] = pc[d]
  BY RespondEffect DEF IInv, Answer
<1>2. /\ rowLock' \in [Expense -> Call \union {Nobody}]
      /\ \A e \in Expense : rowLock[e] \notin {c, Nobody} => rowLock'[e] = rowLock[e]
  BY ReleaseEffect DEF IInv, TypeOK
<1>3. /\ ledger \in [Expense -> LedgerRow] /\ ledger' \in [Expense -> LedgerRow]
      /\ feed \in Seq(FeedRow)
  BY DEF IInv, TypeOK, LedgerRow, FeedRow
<1>4. feed' \in Seq(FeedRow)
  BY <1>3, AppendType
<1>5. receipts' \subseteq Op
  BY BodyType DEF IInv, TypeOK
<1>6. TypeOK'
  BY <1>1, <1>2, <1>3, <1>4, <1>5 DEF IInv, TypeOK, LedgerRow, FeedRow, Label,
     Answer, clientVars
<1>7. Target(c) \in Expense
  BY BodyType
<1>8. RowInv'
  <2>2. ledger'[Target(c)] = new /\ \A e \in Expense : e # Target(c) => ledger'[e] = ledger[e]
    BY <1>3, <1>7
  <2>3. \A e \in Expense : ledger[e].deleted \/ e \in settled => ledger[e].version > 0
    BY DEF IInv, RowInv, Created
  <2>4. QED
    BY <2>2, <2>3 DEF RowInv, Created
<1>9. PathInv'
  BY <1>1 DEF IInv, PathInv, KindOf
<1>10. LockInv'
  <2>1. SUFFICES ASSUME NEW d \in Call, pc'[d] \in {"settlements", "apply"}
                 PROVE  rowLock'[Target(d)] = d /\ ~Overtaken(d)'
    BY DEF LockInv, Target
  <2>2. d # c /\ pc[d] \in {"settlements", "apply"}
    BY <1>1, <2>1
  <2>3. rowLock[Target(d)] = d /\ ~Overtaken(d)
    BY <2>2 DEF IInv, LockInv
  <2>4. Target(d) \in Expense /\ d # Nobody
    BY BodyType
  <2>5. Target(d) # Target(c)
    BY <2>2, <2>3, <2>4
  <2>6. ledger'[Target(d)] = ledger[Target(d)]
    BY <1>3, <1>7, <2>4, <2>5
  <2>7. QED
    BY <1>2, <2>2, <2>3, <2>4, <2>6 DEF Overtaken, Target, clientVars
<1>11. StampInv'
  BY <1>1 DEF IInv, StampInv
<1>12. QED
  BY <1>6, <1>8, <1>9, <1>10, <1>11 DEF IInv

LEMMA AfterType ==
    ASSUME TypeOK, NEW c \in Call
    PROVE  /\ After(c) \in LedgerRow /\ After(c).version = clock[Target(c)] + 1
           /\ After(c).version > 0
<1>1. ledger[Target(c)] \in LedgerRow /\ Asked(c) \in Details /\ clock[Target(c)] \in Nat
  BY BodyType DEF TypeOK, LedgerRow
<1>2. /\ clock[Target(c)] + 1 \in Nat /\ clock[Target(c)] + 1 > 0
      /\ ledger[Target(c)].details \in Details
  BY <1>1 DEF LedgerRow
<1>3. QED
  BY <1>1, <1>2, RowType DEF After, Row

LEMMA TickType ==
    ASSUME TypeOK, NEW c \in Call, Tick(Target(c))
    PROVE  /\ clock' \in [Expense -> Nat] /\ clock'[Target(c)] = clock[Target(c)] + 1
           /\ \A e \in Expense : clock[e] <= clock'[e]
  BY BodyType DEF TypeOK, Tick

LEMMA StepCommitMutation ==
    ASSUME IInv, NEW c \in Call, CommitMutation(c) PROVE IInv'
<1>1. rowLock[Target(c)] = c
  BY DEF CommitMutation, IInv, LockInv
<1>2. After(c) \in LedgerRow /\ After(c).version > 0 /\ clock' \in [Expense -> Nat]
  BY AfterType, TickType DEF CommitMutation, IInv
<1>3. PICK kind \in {"snapshot", "tombstone", "share"} :
          feed' = Append(feed, Change(c.op, Target(c), kind, After(c)))
  BY DEF CommitMutation
<1>4. Change(c.op, Target(c), kind, After(c)) \in FeedRow
  BY <1>2, BodyType, ChangeType
<1>5. QED
  BY <1>1, <1>2, <1>3, <1>4, RowWritten DEF CommitMutation

LEMMA RowWithShares ==
    ASSUME NEW row \in LedgerRow, NEW v \in Nat, NEW shares \in [Member -> Nat \union {Absent}]
    PROVE  [row EXCEPT !.version = v, !.details.shares = shares] \in LedgerRow
<1>1. [row.details EXCEPT !.shares = shares] \in Details
  BY DEF LedgerRow, Details
<1>2. [row EXCEPT !.version = v, !.details = [row.details EXCEPT !.shares = shares]]
          \in LedgerRow
  BY <1>1 DEF LedgerRow
<1>3. [row EXCEPT !.version = v, !.details.shares = shares]
      = [row EXCEPT !.version = v, !.details = [row.details EXCEPT !.shares = shares]]
  BY DEF LedgerRow
<1>4. QED
  BY <1>2, <1>3

LEMMA PatchedType ==
    ASSUME TypeOK, NEW c \in Call
    PROVE  /\ Patched(c) \in LedgerRow
           /\ Patched(c).version = stamp[c]
           /\ Patched(c).deleted = ledger[Target(c)].deleted
<1>1. ledger[Target(c)] \in LedgerRow /\ Asked(c) \in Details /\ stamp[c] \in Nat
  BY BodyType DEF TypeOK, LedgerRow
<1>2. /\ ledger[Target(c)].details.shares \in [Member -> Nat \union {Absent}]
      /\ Asked(c).shares \in [Member -> Nat \union {Absent}]
  BY <1>1 DEF LedgerRow, Details
<1>3. SharesAfter(c) \in [Member -> Nat \union {Absent}]
  BY <1>2 DEF SharesAfter
<1>4. Patched(c) \in LedgerRow
  BY <1>1, <1>3, RowWithShares DEF Patched
<1>5. /\ Patched(c).version = stamp[c]
      /\ Patched(c).deleted = ledger[Target(c)].deleted
  BY <1>1 DEF Patched, LedgerRow
<1>6. QED
  BY <1>4, <1>5

LEMMA StepWriteShare == ASSUME IInv, NEW c \in Call, WriteShare(c) PROVE IInv'
<1>1. CASE Stale(c)
  <2>1. Reads(c, "answered")
    BY <1>1 DEF WriteShare, Reads, Answer, IInv, TypeOK, dbVars
  <2>2. QED
    BY <2>1, StepReads DEF Label
<1>2. CASE ~Stale(c)
  <2>1. Patched(c) \in LedgerRow /\ Patched(c).version > 0 /\ clock' \in [Expense -> Nat]
    BY PatchedType DEF WriteShare, IInv, TypeOK, StampInv
  <2>2. Change(c.op, Target(c), "share", Patched(c)) \in FeedRow
    BY <2>1, BodyType, ChangeType
  <2>3. /\ ledger' = [ledger EXCEPT ![Target(c)] = Patched(c)]
        /\ feed' = Append(feed, Change(c.op, Target(c), "share", Patched(c)))
        /\ receipts' = receipts \union {c.op}
        /\ Respond(c, "accepted")
        /\ rowLock[Target(c)] = Nobody
        /\ UNCHANGED <<rowLock, settled, announce, sawLock, stamp, faults>>
        /\ UNCHANGED clientVars
    BY <1>2 DEF WriteShare
  <2>4. QED
    BY <2>1, <2>2, <2>3, RowWritten
<1>3. QED
  BY <1>1, <1>2

LEMMA StepIInv == ASSUME IInv, [Next]_vars PROVE IInv'
<1>1. ASSUME NEW c \in Call, MutationStep(c) PROVE IInv'
  BY <1>1, StepLockRow, StepReadSettlements, StepRefuse, StepCommitMutation DEF MutationStep
<1>2. ASSUME NEW c \in Call, ShareStep(c) PROVE IInv'
  BY <1>2, StepCheckExpense, StepReadShare, StepStamp, StepWriteShare DEF ShareStep
<1>3. CASE ExpenseStep
  BY <1>3, StepCreate, StepAnnounce DEF ExpenseStep
<1>4. CASE UNCHANGED vars
  BY <1>4 DEF vars, IInv, TypeOK, RowInv, PathInv, LockInv, StampInv, Created, Overtaken, Target, KindOf
<1>5. QED
  BY <1>1, <1>2, <1>3, <1>4, StepSettle, StepEnqueue, StepSend, StepCheckReceipt,
     StepDeliver, StepCrash DEF Next

\* In every behaviour the rows, locks and places of the calls are as IInv says.
THEOREM LedgerInvariance == Spec => []IInv
<1>1. Init => IInv
  BY InitIInv
<1>2. IInv /\ [Next]_vars => IInv'
  BY StepIInv
<1>3. QED
  BY <1>1, <1>2, PTL DEF Spec

\* Every variable keeps its type.
THEOREM LedgerTypes == Spec => []TypeOK
<1>1. IInv => TypeOK
  BY DEF IInv
<1>2. QED
  BY <1>1, LedgerInvariance, PTL

-----------------------------------------------------------------------------
(* Which steps write rows, receipts and the feed.                          *)

LEMMA Writers ==
    ASSUME Next
    PROVE  \/ UNCHANGED <<ledger, receipts, feed>>
           \/ \E e \in Expense : Create(e)
           \/ \E e \in Expense : Announce(e)
           \/ \E c \in Call : CommitMutation(c)
           \/ \E c \in Call : WriteShare(c) /\ ~Stale(c)
<1>1. ASSUME NEW c \in Call, MutationStep(c)
      PROVE  CommitMutation(c) \/ UNCHANGED <<ledger, receipts, feed>>
  BY <1>1 DEF MutationStep, LockRow, ReadSettlements, Refuse, dbVars
<1>2. ASSUME NEW c \in Call, ShareStep(c)
      PROVE  (WriteShare(c) /\ ~Stale(c)) \/ UNCHANGED <<ledger, receipts, feed>>
  BY <1>2 DEF ShareStep, CheckExpense, ReadShare, Stamp, WriteShare, dbVars
<1>3. ASSUME NEW e \in Expense, CreatorDies(e)
      PROVE  UNCHANGED <<ledger, receipts, feed>>
  BY <1>3 DEF CreatorDies
<1>4. ASSUME NEW c \in Call, Send(c) \/ CheckReceipt(c) \/ Deliver(c) \/ Crash(c)
      PROVE  UNCHANGED <<ledger, receipts, feed>>
  BY <1>4 DEF Send, CheckReceipt, Deliver, Crash, dbVars
<1>5. ASSUME NEW o \in Op, Enqueue(o)
      PROVE  UNCHANGED <<ledger, receipts, feed>>
  BY <1>5 DEF Enqueue, dbVars
<1>6. Settle => UNCHANGED <<ledger, receipts, feed>>
  BY DEF Settle
<1>7. QED
  BY <1>1, <1>2, <1>3, <1>4, <1>5, <1>6 DEF Next, ExpenseStep

\* What a committed update or delete was based on is what it was applied to.
LEMMA CommitEffect ==
    ASSUME IInv, NEW c \in Call, CommitMutation(c)
    PROVE  /\ KindOf(c) \in Mutation /\ ~Overtaken(c)
           /\ Target(c) \in Expense
           /\ receipts' = receipts \union {c.op} /\ UNCHANGED settled
           /\ ledger'[Target(c)] = After(c)
           /\ \A e \in Expense : e # Target(c) => ledger'[e] = ledger[e]
  BY BodyType DEF CommitMutation, IInv, TypeOK, PathInv, LockInv

LEMMA WriteShareEffect ==
    ASSUME IInv, NEW c \in Call, WriteShare(c), ~Stale(c)
    PROVE  /\ KindOf(c) \notin Mutation
           /\ Target(c) \in Expense
           /\ c.op \in receipts' \ receipts /\ receipts' = receipts \union {c.op}
           /\ UNCHANGED settled
           /\ ledger'[Target(c)] = Patched(c)
           /\ \A e \in Expense : e # Target(c) => ledger'[e] = ledger[e]
<1>1. KindOf(c) \notin Mutation
  BY DEF WriteShare, IInv, PathInv
<1>2. ledger' = [ledger EXCEPT ![Target(c)] = Patched(c)]
  BY DEF WriteShare
<1>3. QED
  BY <1>1, <1>2, BodyType DEF WriteShare, Stale, IInv, TypeOK

-----------------------------------------------------------------------------

\* An update or a delete is applied to exactly the version it was based on,
\* whatever the other calls do between its checks and its commit.
THEOREM UpdatesAreNotLost == Spec => NoLostUpdate
<1>1. ASSUME IInv, Next, NEW o \in Op, o \in receipts' \ receipts,
             Body[o].kind \in Mutation
      PROVE  expected[o] \in {Unversioned, ledger[Body[o].expense].version}
  <2>1. CASE \E e \in Expense : Create(e) \/ Announce(e)
    BY <1>1, <2>1 DEF Create, Announce
  <2>2. CASE \E c \in Call : CommitMutation(c)
    BY <1>1, <2>2, CommitEffect DEF Overtaken, Target
  <2>3. CASE \E c \in Call : WriteShare(c) /\ ~Stale(c)
    BY <1>1, <2>3, WriteShareEffect DEF KindOf
  <2>4. QED
    BY <1>1, <2>1, <2>2, <2>3, Writers
<1>2. IInv /\ [Next]_vars =>
         [\A o \in Op :
             o \in receipts' \ receipts /\ Body[o].kind \in Mutation =>
                 expected[o] \in {Unversioned, ledger[Body[o].expense].version}]_vars
  BY <1>1
<1>3. QED
  BY <1>2, LedgerInvariance, PTL DEF Spec, NoLostUpdate

\* A call that is about to commit has looked for settlements, and remembers it.
LEMMA Applying ==
    ASSUME IInv, Next, NEW d \in Call, pc'[d] = "apply"
    PROVE  \/ pc[d] = "apply" /\ (d \in sawLock => d \in sawLock')
           \/ Target(d) \in settled => d \in sawLock'
<1>1. ASSUME NEW c \in Call, MutationStep(c)
      PROVE  \/ pc[d] = "apply" /\ (d \in sawLock => d \in sawLock')
             \/ Target(d) \in settled => d \in sawLock'
  BY <1>1 DEF MutationStep, LockRow, ReadSettlements, Refuse, CommitMutation, Respond,
     Goto, IInv, TypeOK
<1>2. ASSUME NEW c \in Call, ShareStep(c)
      PROVE  pc[d] = "apply" /\ sawLock' = sawLock
  BY <1>2 DEF ShareStep, CheckExpense, ReadShare, Stamp, WriteShare, Respond, Goto, IInv, TypeOK
<1>3. ASSUME NEW e \in Expense, Create(e) \/ Announce(e) \/ CreatorDies(e)
      PROVE  pc[d] = "apply" /\ sawLock' = sawLock
  BY <1>3 DEF Create, Announce, CreatorDies
<1>4. ASSUME NEW c \in Call, Send(c) \/ CheckReceipt(c)
      PROVE  pc[d] = "apply" /\ sawLock' = sawLock
  BY <1>4 DEF Send, CheckReceipt, Respond, Goto, IInv, TypeOK
<1>5. ASSUME NEW c \in Call, Deliver(c) \/ Crash(c)
      PROVE  pc[d] = "apply" /\ (d \in sawLock => d \in sawLock')
  BY <1>5 DEF Deliver, Crash, Forget, Goto, IInv, TypeOK
<1>6. ASSUME Settle \/ \E o \in Op : Enqueue(o)
      PROVE  pc[d] = "apply" /\ sawLock' = sawLock
  BY <1>6 DEF Settle, Enqueue
<1>7. QED
  BY <1>1, <1>2, <1>3, <1>4, <1>5, <1>6 DEF Next, ExpenseStep

LEMMA SettledGrows == ASSUME IInv, Next PROVE settled \subseteq settled'
<1>1. Settle => settled \subseteq settled'
  BY DEF Settle, IInv, TypeOK, RowInv
<1>2. ASSUME NEW c \in Call, MutationStep(c) \/ ShareStep(c) PROVE settled' = settled
  BY <1>2 DEF MutationStep, ShareStep, LockRow, ReadSettlements, Refuse, CommitMutation,
     CheckExpense, ReadShare, Stamp, WriteShare, dbVars
<1>3. ASSUME NEW c \in Call, Send(c) \/ CheckReceipt(c) \/ Deliver(c) \/ Crash(c)
      PROVE settled' = settled
  BY <1>3 DEF Send, CheckReceipt, Deliver, Crash, dbVars
<1>4. ASSUME NEW e \in Expense, Create(e) \/ Announce(e) \/ CreatorDies(e)
      PROVE settled' = settled
  BY <1>4 DEF Create, Announce, CreatorDies
<1>5. ASSUME NEW o \in Op, Enqueue(o) PROVE settled' = settled
  BY <1>5 DEF Enqueue, dbVars
<1>6. QED
  BY <1>1, <1>2, <1>3, <1>4, <1>5 DEF Next, ExpenseStep

LEMMA FrozenStays == ASSUME IInv, Next, NEW e \in Expense, Frozen(e) PROVE Frozen(e)'
<1>1. e \in settled'
  BY SettledGrows DEF Frozen
<1>2. ASSUME NEW d \in Call, Target(d) = e, pc'[d] = "apply" PROVE d \in sawLock'
  BY <1>2, Applying DEF Frozen
<1>3. QED
  BY <1>1, <1>2 DEF Frozen, Target

\* What ClosedStaysClosed says of one expense and one step.
Keeps(e) ==
    LET patched == Patch(receipts' \ receipts, e) IN
    /\ ledger[e].deleted => /\ ledger'[e].deleted
                            /\ patched \/ ledger'[e] = ledger[e]
    /\ Frozen(e) => \/ patched
                    \/ /\ ledger'[e].details = ledger[e].details
                       /\ ledger'[e].deleted = ledger[e].deleted

LEMMA StepKeeps == ASSUME IInv, Next, NEW e \in Expense PROVE Keeps(e)
<1>1. CASE ledger'[e] = ledger[e]
  BY <1>1 DEF Keeps
<1>2. CASE \E x \in Expense : Create(x)
  <2>1. ~Created(e) \/ ledger'[e] = ledger[e]
    BY <1>2 DEF Create, IInv, TypeOK
  <2>2. QED
    BY <1>1, <2>1 DEF Keeps, Frozen, IInv, RowInv
<1>3. ASSUME NEW c \in Call, CommitMutation(c), Target(c) = e PROVE Keeps(e)
  <2>1. ~ledger[e].deleted /\ ledger[e].deleted \in BOOLEAN /\ ledger'[e] = After(c)
    BY <1>3, CommitEffect DEF Overtaken, IInv, TypeOK
  <2>2. ASSUME Frozen(e)
        PROVE  ledger'[e].details = ledger[e].details /\ ledger'[e].deleted = ledger[e].deleted
    <3>1. c \in sawLock
      BY <1>3, <2>2 DEF Frozen, CommitMutation
    <3>2. KindOf(c) # "delete" /\ Asked(c) = ledger[e].details
      BY <1>3, <3>1 DEF CommitMutation, ChangesFinancials
    <3>3. ledger'[e] = Row(clock[e] + 1, FALSE, ledger[e].details)
      BY <1>3, <2>1, <3>2 DEF After
    <3>4. ledger'[e].details = ledger[e].details /\ ledger'[e].deleted = FALSE
      BY <3>3 DEF Row
    <3>5. ledger[e].deleted = FALSE
      BY <2>1
    <3>6. QED
      BY <3>4, <3>5
  <2>3. QED
    BY <2>1, <2>2 DEF Keeps
<1>4. ASSUME NEW c \in Call, WriteShare(c), ~Stale(c), Target(c) = e PROVE Keeps(e)
  <2>1. Patch(receipts' \ receipts, e)
    BY <1>4, WriteShareEffect DEF Patch, KindOf, Target
  <2>2. ledger'[e].deleted = ledger[e].deleted
    BY <1>4, WriteShareEffect, PatchedType DEF IInv
  <2>3. QED
    BY <2>1, <2>2 DEF Keeps
<1>5. ASSUME NEW x \in Expense, Announce(x) PROVE ledger' = ledger
  BY <1>5 DEF Announce
<1>6. QED
  BY <1>1, <1>2, <1>3, <1>4, <1>5, Writers, CommitEffect, WriteShareEffect

\* A deleted expense stays as it is, and an expense whose settlement every call
\* under way has seen keeps its amounts; share operations alone still write.
THEOREM ClosedIsClosed == Spec => ClosedStaysClosed
<1>1. IInv /\ [Next]_vars =>
         [\A e \in Expense :
            LET patched == Patch(receipts' \ receipts, e) IN
            /\ ledger[e].deleted => /\ ledger'[e].deleted
                                    /\ patched \/ ledger'[e] = ledger[e]
            /\ Frozen(e) => /\ Frozen(e)'
                            /\ \/ patched
                               \/ /\ ledger'[e].details = ledger[e].details
                                  /\ ledger'[e].deleted = ledger[e].deleted]_vars
  BY StepKeeps, FrozenStays DEF Keeps
<1>2. QED
  BY <1>1, LedgerInvariance, PTL DEF Spec, ClosedStaysClosed
-----------------------------------------------------------------------------
(* Every write has its receipt, its row in the feed and its time.           *)

\* Whoever is under way with an operation has queued it, and an operation is
\* queued for an expense that exists.
QueueInv ==
    /\ \A o \in Op : expected[o] # Unsent => Created(Body[o].expense)
    /\ \A c \in Call : pc[c] # "idle" => expected[c.op] # Unsent

Receipts(e) == {o \in receipts : Body[o].expense = e}

\* Nothing carries a time that the clock has not shown yet, and the times that
\* follow a creation follow its own.
ClockInv ==
    /\ \A e \in Expense : ledger[e].version <= clock[e] /\ (Created(e) \/ clock[e] = 0)
    /\ \A e \in Expense : \A i \in WriteRows(e) : feed[i].version <= clock[e]
    /\ \A c \in Call : pc[c] = "write" => stamp[c] > 1 /\ stamp[c] <= clock[Target(c)]

\* What AppliedOnce says of an expense, and that an expense nobody has written
\* is as old as its creation.
Counted(e) ==
    /\ {feed[i].op : i \in WriteRows(e)} = Receipts(e)
    /\ \A i, j \in WriteRows(e) : i < j =>
           /\ feed[i].op # feed[j].op
           /\ Body[feed[j].op].kind \in Mutation => feed[i].version < feed[j].version
    /\ \A i \in WriteRows(e) :
           (\A j \in WriteRows(e) : j <= i) => feed[i].version = ledger[e].version
    /\ WriteRows(e) = {} => ledger[e].version = 1

OnceInv ==
    \A e \in Expense : IF Created(e) THEN Counted(e)
                        ELSE Receipts(e) = {} /\ WriteRows(e) = {}

LEMMA InitOnce == ASSUME Init PROVE QueueInv /\ ClockInv /\ OnceInv
<1>1. QueueInv
  BY DEF Init, QueueInv
<1>2. \A e \in Expense : ~Created(e) /\ Receipts(e) = {} /\ WriteRows(e) = {}
  BY DEF Init, Created, Row, Receipts, WriteRows
<1>3. ClockInv
  BY <1>2 DEF Init, ClockInv, Row
<1>4. QED
  BY <1>1, <1>2, <1>3 DEF OnceInv

\* The row of a created expense never goes away.
LEMMA CreatedStays ==
    ASSUME IInv, Next, NEW e \in Expense, Created(e)
    PROVE  Created(e)'
<1>1. CASE \E x \in Expense : Create(x)
  BY <1>1 DEF Create, Created, IInv, TypeOK, Row
<1>2. ASSUME NEW c \in Call, CommitMutation(c) PROVE Created(e)'
  <2>1. ledger'[Target(c)] = After(c) /\ \A x \in Expense : x # Target(c) => ledger'[x] = ledger[x]
    BY <1>2, CommitEffect
  <2>2. After(c).version > 0
    BY AfterType DEF IInv
  <2>3. QED
    BY <2>1, <2>2 DEF Created
<1>3. ASSUME NEW c \in Call, WriteShare(c), ~Stale(c) PROVE Created(e)'
  <2>1. ledger'[Target(c)] = Patched(c) /\ \A x \in Expense : x # Target(c) => ledger'[x] = ledger[x]
    BY <1>3, WriteShareEffect
  <2>2. Patched(c).version > 0
    BY <1>3, PatchedType DEF WriteShare, IInv, StampInv
  <2>3. QED
    BY <2>1, <2>2 DEF Created
<1>4. ASSUME ledger' = ledger PROVE Created(e)'
  BY <1>4 DEF Created
<1>5. QED
  BY <1>1, <1>2, <1>3, <1>4, Writers DEF Announce

LEMMA StepQueue == ASSUME IInv, QueueInv, Next PROVE QueueInv'
<1>1. \/ UNCHANGED expected
      \/ \E o \in Op : Enqueue(o)
  BY DEF Next, ExpenseStep, Create, Announce, CreatorDies, Settle, Send, CheckReceipt,
     MutationStep, LockRow, ReadSettlements, Refuse, CommitMutation, ShareStep, CheckExpense,
     ReadShare, Stamp, WriteShare, Deliver, Crash, clientVars
<1>2. ASSUME NEW o \in Op
      PROVE  /\ expected'[o] # Unsent => expected[o] # Unsent \/ Created(Body[o].expense)
             /\ expected[o] # Unsent => expected'[o] # Unsent
  <2>1. ASSUME NEW x \in Op, Enqueue(x)
        PROVE  /\ expected' = [expected EXCEPT ![x] =
                      IF Body[x].versioned THEN ledger[Body[x].expense].version ELSE Unversioned]
               /\ expected[x] = Unsent /\ Created(Body[x].expense)
    BY <2>1 DEF Enqueue, Live
  <2>2. QED
    BY <1>1, <2>1 DEF IInv, TypeOK
<1>3. ASSUME NEW d \in Call, pc'[d] # "idle"
      PROVE  expected[d.op] # Unsent
  <2>1. CASE pc[d] # "idle"
    BY <2>1 DEF QueueInv
  <2>2. CASE pc[d] = "idle"
    <3>1. pc' = pc \/ \E c \in Call : \E l \in Label :
             Goto(c, l) /\ (pc[c] # "idle" \/ Send(c))
      <4>1. ASSUME ExpenseStep \/ Settle \/ \E o \in Op : Enqueue(o) PROVE pc' = pc
        BY <4>1 DEF ExpenseStep, Create, Announce, CreatorDies, Settle, Enqueue, clientVars
      <4>2. ASSUME NEW c \in Call, Send(c) \/ CheckReceipt(c) \/ Deliver(c) \/ Crash(c)
            PROVE  \E l \in Label : Goto(c, l) /\ (pc[c] # "idle" \/ Send(c))
        BY <4>2 DEF Send, CheckReceipt, Deliver, Crash, Forget, Respond, Label
      <4>3. ASSUME NEW c \in Call, MutationStep(c)
            PROVE  \E l \in Label : Goto(c, l) /\ pc[c] # "idle"
        BY <4>3 DEF MutationStep, LockRow, ReadSettlements, Refuse, CommitMutation, Respond, Label
      <4>4. ASSUME NEW c \in Call, ShareStep(c)
            PROVE  \E l \in Label : Goto(c, l) /\ pc[c] # "idle"
        BY <4>4 DEF ShareStep, CheckExpense, ReadShare, Stamp, WriteShare, Respond, Label
      <4>5. QED
        BY <4>1, <4>2, <4>3, <4>4 DEF Next
    <3>2. Send(d)
      BY <1>3, <2>2, <3>1, GotoEffect DEF IInv
    <3>3. QED
      BY <3>2 DEF Send
  <2>3. QED
    BY <2>1, <2>2
<1>4. ASSUME NEW o \in Op, expected'[o] # Unsent PROVE Created(Body[o].expense)'
  BY <1>2, <1>4, CreatedStays, LedgerAssumption DEF QueueInv
<1>5. ASSUME NEW d \in Call, pc'[d] # "idle" PROVE expected'[d.op] # Unsent
  BY <1>2, <1>3, <1>5, BodyType
<1>6. QED
  BY <1>4, <1>5 DEF QueueInv

\* Nothing is written of y.
LEMMA SameCount ==
    ASSUME OnceInv, NEW y \in Expense, ledger'[y] = ledger[y], Receipts(y)' = Receipts(y),
           WriteRows(y)' = WriteRows(y), \A i \in WriteRows(y) : feed'[i] = feed[i]
    PROVE  IF Created(y)' THEN Counted(y)' ELSE Receipts(y)' = {} /\ WriteRows(y)' = {}
<1>1. {feed'[i].op : i \in WriteRows(y)'} = {feed[i].op : i \in WriteRows(y)}
  OBVIOUS
<1>2. Counted(y) => Counted(y)'
  BY <1>1 DEF Counted
<1>3. QED
  BY <1>2 DEF OnceInv, Created

\* A row about an expense joins the writes unless it announces the creation.
LEMMA WriteRowsGrow ==
    ASSUME feed \in Seq(FeedRow), NEW x \in FeedRow, feed' = Append(feed, x), NEW e \in Expense
    PROVE  /\ x.expense = e /\ x.op # Creation =>
                  WriteRows(e)' = WriteRows(e) \union {Len(feed) + 1}
           /\ ~(x.expense = e /\ x.op # Creation) => WriteRows(e)' = WriteRows(e)
           /\ feed'[Len(feed) + 1] = x
           /\ \A i \in WriteRows(e) : i \in Nat /\ i < Len(feed) + 1 /\ feed'[i] = feed[i]
<1> DEFINE n == Len(feed) + 1
<1>1. /\ n \in Nat /\ n \notin DOMAIN feed
      /\ DOMAIN feed' = DOMAIN feed \union {n} /\ feed'[n] = x
      /\ \A i \in DOMAIN feed : i \in Nat /\ i < n /\ feed'[i] = feed[i] /\ feed[i] \in FeedRow
  BY AppendParts
<1> HIDE DEF n
<1>2. /\ x.expense = e /\ x.op # Creation => WriteRows(e)' = WriteRows(e) \union {n}
      /\ ~(x.expense = e /\ x.op # Creation) => WriteRows(e)' = WriteRows(e)
  <2>1. ASSUME NEW i \in WriteRows(e)'
        PROVE  i \in WriteRows(e) \/ (i = n /\ x.expense = e /\ x.op # Creation)
    BY <1>1, <2>1 DEF WriteRows
  <2>2. WriteRows(e) \subseteq WriteRows(e)'
    BY <1>1 DEF WriteRows
  <2>3. x.expense = e /\ x.op # Creation => n \in WriteRows(e)'
    BY <1>1 DEF WriteRows
  <2>4. QED
    BY <2>1, <2>2, <2>3
<1>3. \A i \in WriteRows(e) : i \in DOMAIN feed
  BY DEF WriteRows
<1>4. QED
  BY <1>1, <1>2, <1>3 DEF n

\* A write of an expense is one more receipt and one more row of the feed.
LEMMA OneMore ==
    ASSUME IInv, OnceInv, NEW o \in Op \ receipts, NEW e \in Expense, NEW x \in FeedRow,
           Created(e), e = Body[o].expense,
           receipts' = receipts \union {o}, feed' = Append(feed, x),
           x.op = o, x.expense = e, x.version = ledger'[e].version, x.version > 0,
           Body[o].kind \in Mutation => \A i \in WriteRows(e) : feed[i].version < x.version,
           \A y \in Expense : y # e => ledger'[y] = ledger[y]
    PROVE  OnceInv'
<1> DEFINE n == Len(feed) + 1
<1>1. feed \in Seq(FeedRow) /\ n \in Nat
  <2>1. feed \in Seq(FeedRow)
    BY DEF IInv, TypeOK, FeedRow
  <2>2. QED
    BY <2>1
<1>2. o # Creation /\ receipts \subseteq Op
  BY LedgerAssumption DEF IInv, TypeOK
<1>3. /\ WriteRows(e)' = WriteRows(e) \union {n} /\ feed'[n] = x
      /\ \A i \in WriteRows(e) : i \in Nat /\ i < n /\ feed'[i] = feed[i]
  <2>1. x.op # Creation
    BY <1>2
  <2>2. QED
    BY <1>1, <2>1, WriteRowsGrow
<1>4. Counted(e)'
  <2>1. Counted(e)
    BY DEF OnceInv
  <2>2. Receipts(e)' = Receipts(e) \union {o} /\ o \notin Receipts(e)
    BY DEF Receipts
  <2>3. \A i \in WriteRows(e) : feed[i].op \in Receipts(e)
    BY <2>1 DEF Counted
  <2>4. {feed'[i].op : i \in WriteRows(e)'} = {feed[i].op : i \in WriteRows(e)} \union {o}
    <3>1. \A i \in WriteRows(e)' : i = n \/ i \in WriteRows(e)
      BY <1>3
    <3>2. \A i \in WriteRows(e) : i \in WriteRows(e)' /\ feed'[i].op = feed[i].op
      BY <1>3
    <3>3. n \in WriteRows(e)' /\ feed'[n].op = o
      BY <1>3
    <3>4. ASSUME NEW i \in WriteRows(e)'
          PROVE  feed'[i].op \in {feed[j].op : j \in WriteRows(e)} \union {o}
      BY <3>1, <3>2, <3>3
    <3>5. ASSUME NEW i \in WriteRows(e)
          PROVE  feed[i].op \in {feed'[j].op : j \in WriteRows(e)'}
      BY <3>2
    <3>6. o \in {feed'[j].op : j \in WriteRows(e)'}
      BY <3>3
    <3>7. QED
      BY <3>4, <3>5, <3>6
  <2>5. {feed'[i].op : i \in WriteRows(e)'} = Receipts(e)'
    BY <2>1, <2>2, <2>4 DEF Counted
  <2>6. ASSUME NEW i \in WriteRows(e)', NEW j \in WriteRows(e)', i < j
        PROVE  /\ feed'[i].op # feed'[j].op
               /\ Body[feed'[j].op].kind \in Mutation => feed'[i].version < feed'[j].version
    <3>1. i \in WriteRows(e)
      BY <1>1, <1>3, <2>6
    <3>2. CASE j = n
      <4>1. feed'[i] = feed[i] /\ feed'[j] = x
        BY <1>3, <3>1, <3>2
      <4>2. feed[i].op # o
        BY <2>2, <2>3, <3>1
      <4>3. Body[o].kind \in Mutation => feed[i].version < x.version
        BY <3>1
      <4>4. /\ feed'[j].op = o /\ feed'[j].version = x.version
            /\ feed'[i].op = feed[i].op /\ feed'[i].version = feed[i].version
        BY <4>1
      <4>5. QED
        BY <4>2, <4>3, <4>4, Zenon
    <3>3. CASE j \in WriteRows(e)
      <4>1. /\ feed[i].op # feed[j].op
            /\ Body[feed[j].op].kind \in Mutation => feed[i].version < feed[j].version
        BY <2>1, <2>6, <3>1, <3>3 DEF Counted
      <4>2. feed'[i] = feed[i] /\ feed'[j] = feed[j]
        BY <1>3, <3>1, <3>3
      <4>3. /\ feed'[j].op = feed[j].op /\ feed'[j].version = feed[j].version
            /\ feed'[i].op = feed[i].op /\ feed'[i].version = feed[i].version
        BY <4>2
      <4>4. QED
        BY <4>1, <4>3, Zenon
    <3>4. QED
      BY <1>3, <3>2, <3>3
  <2>7. ASSUME NEW i \in WriteRows(e)', \A j \in WriteRows(e)' : j <= i
        PROVE  feed'[i].version = ledger'[e].version
    <3>1. i = n
      BY <1>1, <1>3, <2>7
    <3>2. QED
      BY <1>3, <3>1
  <2>8. WriteRows(e)' # {}
    BY <1>3
  <2>9. QED
    BY <2>5, <2>6, <2>7, <2>8, Zenon DEF Counted
<1>5. ASSUME NEW y \in Expense, y # e
      PROVE  IF Created(y)' THEN Counted(y)' ELSE Receipts(y)' = {} /\ WriteRows(y)' = {}
  <2>1. Receipts(y)' = Receipts(y)
    BY <1>5 DEF Receipts
  <2>2. ledger'[y] = ledger[y] /\ WriteRows(y)' = WriteRows(y)
        /\ \A i \in WriteRows(y) : feed'[i] = feed[i]
    BY <1>1, <1>5, WriteRowsGrow
  <2>3. QED
    BY <2>1, <2>2, SameCount
<1>6. Created(e)'
  BY DEF Created
<1>7. QED
  BY <1>4, <1>5, <1>6 DEF OnceInv

LEMMA AnnounceRow ==
    ASSUME IInv, NEW e \in Expense, Announce(e)
    PROVE  \E x \in FeedRow : feed' = Append(feed, x) /\ x.op = Creation
<1>1. Row(1, FALSE, Initial[e]) \in LedgerRow /\ ledger[e] \in LedgerRow
  BY LedgerAssumption, RowType DEF IInv, TypeOK, LedgerRow
<1>2. PICK row \in LedgerRow : feed' = Append(feed, Change(Creation, e, "snapshot", row))
  BY <1>1 DEF Announce
<1>3. /\ Change(Creation, e, "snapshot", row) \in FeedRow
      /\ Change(Creation, e, "snapshot", row).op = Creation
  BY ChangeType DEF Change
<1>4. QED
  BY <1>2, <1>3

\* Announcing a creation is no write, and neither is a new expense.
LEMMA NoneMore ==
    ASSUME IInv, OnceInv, NEW e \in Expense, Create(e) \/ Announce(e)
    PROVE  OnceInv'
<1>1. CASE Create(e)
  <2>1. /\ UNCHANGED <<receipts, feed>> /\ ~Created(e) /\ ledger'[e].version = 1
        /\ \A y \in Expense : y # e => ledger'[y] = ledger[y]
    BY <1>1 DEF Create, IInv, TypeOK, Row
  <2>2. Receipts(e) = {} /\ WriteRows(e) = {}
    BY <2>1 DEF OnceInv
  <2>3. Receipts(e)' = {} /\ WriteRows(e)' = {}
    BY <2>1, <2>2 DEF Receipts, WriteRows
  <2>4. Counted(e)' /\ Created(e)'
    BY <2>1, <2>3 DEF Counted, Created
  <2>5. ASSUME NEW y \in Expense, y # e
        PROVE  IF Created(y)' THEN Counted(y)' ELSE Receipts(y)' = {} /\ WriteRows(y)' = {}
    <3>1. Receipts(y)' = Receipts(y) /\ WriteRows(y)' = WriteRows(y)
      BY <2>1 DEF Receipts, WriteRows
    <3>2. QED
      BY <2>1, <2>5, <3>1, SameCount
  <2>6. QED
    BY <2>1, <2>4, <2>5 DEF OnceInv
<1>2. CASE Announce(e)
  <2>1. PICK x \in FeedRow : feed' = Append(feed, x) /\ x.op = Creation
    BY <1>2, AnnounceRow
  <2>2. UNCHANGED <<ledger, receipts>> /\ feed \in Seq(FeedRow)
    BY <1>2 DEF Announce, IInv, TypeOK, FeedRow
  <2>3. ASSUME NEW y \in Expense
        PROVE  IF Created(y)' THEN Counted(y)' ELSE Receipts(y)' = {} /\ WriteRows(y)' = {}
    <3>1. WriteRows(y)' = WriteRows(y) /\ \A i \in WriteRows(y) : feed'[i] = feed[i]
      BY <2>1, <2>2, WriteRowsGrow
    <3>2. Receipts(y)' = Receipts(y)
      BY <2>2 DEF Receipts
    <3>3. QED
      BY <2>2, <3>1, <3>2, SameCount
  <2>4. QED
    BY <2>3 DEF OnceInv
<1>3. QED
  BY <1>1, <1>2

LEMMA SameOnce == ASSUME OnceInv, UNCHANGED <<ledger, receipts, feed>> PROVE OnceInv'
<1>1. ASSUME NEW e \in Expense
      PROVE  IF Created(e)' THEN Counted(e)' ELSE Receipts(e)' = {} /\ WriteRows(e)' = {}
  <2>1. Receipts(e)' = Receipts(e) /\ WriteRows(e)' = WriteRows(e)
    BY DEF Receipts, WriteRows
  <2>2. QED
    BY <2>1, SameCount
<1>2. QED
  BY <1>1 DEF OnceInv

LEMMA RowOfWrite ==
    ASSUME IInv, NEW e \in Expense
    PROVE  \A i \in WriteRows(e) : feed[i].version \in Nat
<1>1. feed \in Seq(FeedRow) /\ \A i \in WriteRows(e) : i \in DOMAIN feed
  BY DEF IInv, TypeOK, FeedRow, WriteRows
<1>2. \A i \in DOMAIN feed : feed[i] \in FeedRow
  BY <1>1
<1>3. QED
  BY <1>1, <1>2 DEF FeedRow

\* Who is about to write has just read the clock, or had before.
LEMMA Writing ==
    ASSUME IInv, Next, NEW d \in Call, pc'[d] = "write"
    PROVE  (pc[d] = "write" /\ stamp'[d] = stamp[d]) \/ Stamp(d)
<1>1. ASSUME NEW c \in Call, MutationStep(c)
      PROVE  pc[d] = "write" /\ stamp'[d] = stamp[d]
  BY <1>1 DEF MutationStep, LockRow, ReadSettlements, Refuse, CommitMutation, Respond,
     Goto, IInv, TypeOK
<1>2. ASSUME NEW c \in Call, CheckExpense(c) \/ ReadShare(c) \/ WriteShare(c)
      PROVE  pc[d] = "write" /\ stamp'[d] = stamp[d]
  BY <1>2 DEF CheckExpense, ReadShare, WriteShare, Respond, Goto, IInv, TypeOK
<1>3. ASSUME NEW c \in Call, Stamp(c)
      PROVE  (pc[d] = "write" /\ stamp'[d] = stamp[d]) \/ Stamp(d)
  <2>1. c # d => pc'[d] = pc[d] /\ stamp'[d] = stamp[d]
    BY <1>3 DEF Stamp, Goto, IInv, TypeOK
  <2>2. QED
    BY <1>3, <2>1
<1>4. ASSUME NEW e \in Expense, Create(e) \/ Announce(e) \/ CreatorDies(e)
      PROVE  pc[d] = "write" /\ stamp'[d] = stamp[d]
  BY <1>4 DEF Create, Announce, CreatorDies
<1>5. ASSUME NEW c \in Call, Send(c) \/ CheckReceipt(c)
      PROVE  pc[d] = "write" /\ stamp'[d] = stamp[d]
  BY <1>5 DEF Send, CheckReceipt, Respond, Goto, IInv, TypeOK
<1>6. ASSUME NEW c \in Call, Deliver(c) \/ Crash(c)
      PROVE  pc[d] = "write" /\ stamp'[d] = stamp[d]
  BY <1>6 DEF Deliver, Crash, Forget, Goto, IInv, TypeOK
<1>7. ASSUME Settle \/ \E o \in Op : Enqueue(o)
      PROVE  pc[d] = "write" /\ stamp'[d] = stamp[d]
  BY <1>7 DEF Settle, Enqueue
<1>8. QED
  BY <1>1, <1>2, <1>3, <1>4, <1>5, <1>6, <1>7 DEF Next, ExpenseStep, ShareStep

\* The clock is read for an expense that exists, and goes forward only.
LEMMA ClockGrows ==
    ASSUME IInv, QueueInv, ClockInv, Next, NEW e \in Expense
    PROVE  clock[e] <= clock'[e] /\ (Created(e)' \/ clock'[e] = 0)
<1>1. clock[e] \in Nat /\ (Created(e) \/ clock[e] = 0) /\ (Created(e) => Created(e)')
  BY CreatedStays DEF IInv, TypeOK, ClockInv
<1>2. \/ clock' = clock
      \/ \E x \in Expense : Create(x)
      \/ \E c \in Call : Tick(Target(c)) /\ pc[c] # "idle"
  BY DEF Next, ExpenseStep, Announce, CreatorDies, Settle, Enqueue, Send, CheckReceipt,
     MutationStep, LockRow, ReadSettlements, Refuse, CommitMutation, ShareStep, CheckExpense,
     ReadShare, Stamp, WriteShare, Deliver, Crash, dbVars
<1>3. CASE clock' = clock
  BY <1>1, <1>3
<1>4. ASSUME NEW x \in Expense, Create(x)
      PROVE  clock[e] <= clock'[e] /\ (Created(e)' \/ clock'[e] = 0)
  <2>1. /\ clock' = [clock EXCEPT ![x] = 1] /\ ~Created(x)
        /\ ledger' = [ledger EXCEPT ![x] = Row(1, FALSE, Initial[x])]
    BY <1>4 DEF Create
  <2>2. CASE x = e
    BY <1>1, <2>1, <2>2 DEF IInv, TypeOK, Created, Row
  <2>3. CASE x # e
    BY <1>1, <2>1, <2>3 DEF IInv, TypeOK
  <2>4. QED
    BY <2>2, <2>3
<1>5. ASSUME NEW c \in Call, Tick(Target(c)), pc[c] # "idle"
      PROVE  clock[e] <= clock'[e] /\ (Created(e)' \/ clock'[e] = 0)
  <2>1. Created(Target(c)) /\ Target(c) \in Expense
    BY <1>5, BodyType DEF QueueInv, Target
  <2>2. clock[e] <= clock'[e]
    BY <1>5, TickType DEF IInv
  <2>3. e # Target(c) => clock'[e] = clock[e]
    BY <1>5, <2>1 DEF Tick, IInv, TypeOK
  <2>4. QED
    BY <1>1, <2>1, <2>2, <2>3
<1>6. QED
  BY <1>2, <1>3, <1>4, <1>5

\* What is written carries a time the clock has shown.
LEMMA LedgerTime ==
    ASSUME IInv, QueueInv, ClockInv, Next, NEW e \in Expense
    PROVE  ledger'[e].version <= clock'[e]
<1>1. /\ clock[e] \in Nat /\ ledger[e].version \in Nat /\ ledger[e].version <= clock[e]
      /\ clock'[e] \in Nat /\ clock[e] <= clock'[e]
  BY ClockGrows, StepIInv DEF IInv, TypeOK, ClockInv
<1>2. CASE ledger'[e] = ledger[e]
  BY <1>1, <1>2
<1>3. ASSUME NEW x \in Expense, Create(x) PROVE ledger'[e].version <= clock'[e]
  <2>1. CASE x = e
    BY <1>3, <2>1 DEF Create, Row, IInv, TypeOK
  <2>2. CASE x # e
    BY <1>2, <1>3, <2>2 DEF Create, IInv, TypeOK
  <2>3. QED
    BY <2>1, <2>2
<1>4. ASSUME NEW c \in Call, CommitMutation(c), Target(c) = e PROVE ledger'[e].version <= clock'[e]
  <2>1. ledger'[e].version = clock[e] + 1
    BY <1>4, CommitEffect, AfterType DEF IInv
  <2>2. clock'[e] = clock[e] + 1
    BY <1>4, TickType DEF CommitMutation, IInv
  <2>3. QED
    BY <1>1, <2>1, <2>2
<1>5. ASSUME NEW c \in Call, WriteShare(c), ~Stale(c), Target(c) = e
      PROVE  ledger'[e].version <= clock'[e]
  <2>1. ledger'[e].version = stamp[c]
    BY <1>5, WriteShareEffect, PatchedType DEF IInv
  <2>2. stamp[c] <= clock[e] /\ stamp[c] \in Nat
    BY <1>5 DEF WriteShare, ClockInv, IInv, TypeOK
  <2>3. QED
    BY <1>1, <2>1, <2>2
<1>6. QED
  BY <1>2, <1>3, <1>4, <1>5, Writers, CommitEffect, WriteShareEffect DEF Announce

\* A row that joins the feed announces a creation or tells of the row written.
LEMMA RowTold ==
    ASSUME IInv, Next
    PROVE  \/ feed' = feed
           \/ \E x \in FeedRow :
                 /\ feed' = Append(feed, x)
                 /\ x.op = Creation \/ x.version = ledger'[x.expense].version
<1>1. ASSUME NEW c \in Call, NEW row \in LedgerRow, NEW kind \in {"snapshot", "tombstone", "share"},
             feed' = Append(feed, Change(c.op, Target(c), kind, row)), ledger'[Target(c)] = row
      PROVE  \E x \in FeedRow :
                 feed' = Append(feed, x) /\ x.version = ledger'[x.expense].version
  <2>1. Change(c.op, Target(c), kind, row) \in FeedRow
    BY BodyType, ChangeType
  <2>2. /\ Change(c.op, Target(c), kind, row).version = row.version
        /\ Change(c.op, Target(c), kind, row).expense = Target(c)
    BY DEF Change
  <2>3. QED
    BY <1>1, <2>1, <2>2
<1>2. ASSUME NEW c \in Call, CommitMutation(c)
      PROVE  \E x \in FeedRow :
                 feed' = Append(feed, x) /\ x.version = ledger'[x.expense].version
  <2>1. PICK kind \in {"snapshot", "tombstone", "share"} :
            feed' = Append(feed, Change(c.op, Target(c), kind, After(c)))
    BY <1>2 DEF CommitMutation
  <2>2. After(c) \in LedgerRow /\ ledger'[Target(c)] = After(c)
    BY <1>2, AfterType, CommitEffect DEF IInv
  <2>3. QED
    BY <1>1, <2>1, <2>2
<1>3. ASSUME NEW c \in Call, WriteShare(c), ~Stale(c)
      PROVE  \E x \in FeedRow :
                 feed' = Append(feed, x) /\ x.version = ledger'[x.expense].version
  <2>1. feed' = Append(feed, Change(c.op, Target(c), "share", Patched(c)))
    BY <1>3 DEF WriteShare
  <2>2. Patched(c) \in LedgerRow /\ ledger'[Target(c)] = Patched(c)
    BY <1>3, PatchedType, WriteShareEffect DEF IInv
  <2>3. QED
    BY <1>1, <2>1, <2>2
<1>4. QED
  BY <1>2, <1>3, AnnounceRow, Writers DEF Create

LEMMA StepClock == ASSUME IInv, QueueInv, ClockInv, Next PROVE ClockInv'
<1>1. ASSUME NEW e \in Expense
      PROVE  clock[e] \in Nat /\ clock'[e] \in Nat /\ clock[e] <= clock'[e]
  BY ClockGrows, StepIInv DEF IInv, TypeOK
<1>2. ASSUME NEW e \in Expense, NEW i \in WriteRows(e)' PROVE feed'[i].version <= clock'[e]
  <2>1. feed \in Seq(FeedRow)
    BY DEF IInv, TypeOK, FeedRow
  <2>2. ASSUME i \in WriteRows(e), feed'[i] = feed[i] PROVE feed'[i].version <= clock'[e]
    BY <1>1, <2>2, RowOfWrite DEF ClockInv
  <2>3. CASE feed' = feed
    BY <1>2, <2>2, <2>3 DEF WriteRows
  <2>4. ASSUME NEW x \in FeedRow, feed' = Append(feed, x),
               x.op = Creation \/ x.version = ledger'[x.expense].version
        PROVE  feed'[i].version <= clock'[e]
    <3>1. \/ i \in WriteRows(e) /\ feed'[i] = feed[i]
          \/ feed'[i] = x /\ x.expense = e /\ x.op # Creation
      BY <1>2, <2>1, <2>4, WriteRowsGrow
    <3>2. ledger'[e].version <= clock'[e]
      BY LedgerTime
    <3>3. CASE i \in WriteRows(e) /\ feed'[i] = feed[i]
      BY <2>2, <3>3
    <3>4. CASE feed'[i] = x /\ x.expense = e /\ x.op # Creation
      <4>1. x.version = ledger'[e].version
        BY <2>4, <3>4
      <4>2. QED
        BY <3>2, <3>4, <4>1
    <3>5. QED
      BY <3>1, <3>3, <3>4
  <2>5. QED
    BY <2>3, <2>4, RowTold
<1>3. ASSUME NEW d \in Call, pc'[d] = "write"
      PROVE  stamp'[d] > 1 /\ stamp'[d] <= clock'[Target(d)]
  <2>1. Target(d) \in Expense /\ stamp[d] \in Nat
    BY BodyType DEF IInv, TypeOK
  <2>2. CASE pc[d] = "write" /\ stamp'[d] = stamp[d]
    BY <1>1, <2>1, <2>2 DEF ClockInv
  <2>3. CASE Stamp(d)
    <3>1. Created(Target(d)) /\ ledger[Target(d)].version \in Nat
          /\ ledger[Target(d)].version <= clock[Target(d)]
      BY <2>1, <2>3, BodyType DEF Stamp, QueueInv, ClockInv, Target, IInv, TypeOK
    <3>2. clock[Target(d)] > 0
      BY <1>1, <2>1, <3>1 DEF Created
    <3>3. stamp'[d] = clock[Target(d)] + 1 /\ clock'[Target(d)] = clock[Target(d)] + 1
      BY <2>1, <2>3 DEF Stamp, Tick, IInv, TypeOK
    <3>4. QED
      BY <1>1, <2>1, <3>2, <3>3
  <2>4. QED
    BY <1>3, <2>2, <2>3, Writing
<1>4. \A e \in Expense : ledger'[e].version <= clock'[e] /\ (Created(e)' \/ clock'[e] = 0)
  BY LedgerTime, ClockGrows
<1>5. QED
  BY <1>2, <1>3, <1>4 DEF ClockInv, Target

LEMMA StepOnce == ASSUME IInv, QueueInv, ClockInv, OnceInv, Next PROVE OnceInv'
<1>1. CASE UNCHANGED <<ledger, receipts, feed>>
  BY <1>1, SameOnce
<1>2. ASSUME NEW c \in Call, pc[c] # "idle"
      PROVE  /\ c.op \in Op /\ Target(c) \in Expense /\ Target(c) = Body[c.op].expense
             /\ Created(Target(c))
  BY <1>2, BodyType DEF QueueInv, Target
<1>3. ASSUME NEW c \in Call, CommitMutation(c) PROVE OnceInv'
  <2>1. PICK kind \in {"snapshot", "tombstone", "share"} :
            feed' = Append(feed, Change(c.op, Target(c), kind, After(c)))
    BY <1>3 DEF CommitMutation
  <2>2. /\ After(c) \in LedgerRow /\ After(c).version > 0
        /\ After(c).version = clock[Target(c)] + 1
    BY AfterType DEF IInv
  <2>3. /\ c.op \in Op \ receipts /\ Created(Target(c)) /\ Target(c) = Body[c.op].expense
        /\ Target(c) \in Expense
    BY <1>2, <1>3 DEF CommitMutation
  <2>4. Change(c.op, Target(c), kind, After(c)) \in FeedRow
    BY <2>2, <2>3, ChangeType
  <2>5. /\ Change(c.op, Target(c), kind, After(c)).op = c.op
        /\ Change(c.op, Target(c), kind, After(c)).expense = Target(c)
        /\ Change(c.op, Target(c), kind, After(c)).version = After(c).version
    BY DEF Change
  <2>6. ASSUME NEW i \in WriteRows(Target(c)) PROVE feed[i].version < After(c).version
    <3>1. clock[Target(c)] \in Nat /\ feed[i].version \in Nat
      BY <2>3, RowOfWrite DEF IInv, TypeOK
    <3>2. feed[i].version <= clock[Target(c)]
      BY <2>3 DEF ClockInv
    <3>3. QED
      BY <2>2, <3>1, <3>2
  <2>7. QED
    BY <1>3, <2>1, <2>2, <2>3, <2>4, <2>5, <2>6, CommitEffect, OneMore
<1>4. ASSUME NEW c \in Call, WriteShare(c), ~Stale(c) PROVE OnceInv'
  <2>1. feed' = Append(feed, Change(c.op, Target(c), "share", Patched(c)))
    BY <1>4 DEF WriteShare
  <2>2. Patched(c) \in LedgerRow /\ Patched(c).version > 0
    BY <1>4, PatchedType DEF WriteShare, IInv, StampInv
  <2>3. /\ c.op \in Op \ receipts /\ Created(Target(c)) /\ Target(c) = Body[c.op].expense
        /\ Target(c) \in Expense
    BY <1>2, <1>4 DEF WriteShare, Stale
  <2>4. Change(c.op, Target(c), "share", Patched(c)) \in FeedRow
    BY <2>2, <2>3, ChangeType
  <2>5. /\ Change(c.op, Target(c), "share", Patched(c)).op = c.op
        /\ Change(c.op, Target(c), "share", Patched(c)).expense = Target(c)
        /\ Change(c.op, Target(c), "share", Patched(c)).version = Patched(c).version
    BY DEF Change
  <2>6. Body[c.op].kind \notin Mutation
    BY <1>4, WriteShareEffect DEF KindOf
  <2>7. QED
    BY <1>4, <2>1, <2>2, <2>3, <2>4, <2>5, <2>6, WriteShareEffect, OneMore
<1>5. QED
  BY <1>1, <1>3, <1>4, NoneMore, Writers

LEMMA SameClock ==
    ASSUME QueueInv, ClockInv, UNCHANGED vars
    PROVE  QueueInv' /\ ClockInv'
<1>1. QueueInv'
  BY DEF vars, QueueInv, Created
<1>2. ClockInv'
  BY DEF vars, ClockInv, WriteRows, Target, Created
<1>3. QED
  BY <1>1, <1>2

\* Every write of an expense is one operation applied once, the feed tells each
\* with the time that was written, the last one that of the ledger's row, and an
\* update or a delete is later than every write told before it.
THEOREM OperationsApplyOnce == Spec => []AppliedOnce
<1>1. Init => QueueInv /\ ClockInv /\ OnceInv
  BY InitOnce
<1>2. IInv /\ QueueInv /\ ClockInv /\ OnceInv /\ [Next]_vars
         => (QueueInv /\ ClockInv /\ OnceInv)'
  <2>1. ASSUME IInv, QueueInv, ClockInv, OnceInv, Next PROVE (QueueInv /\ ClockInv /\ OnceInv)'
    BY <2>1, StepQueue, StepClock, StepOnce
  <2>2. ASSUME QueueInv, ClockInv, OnceInv, UNCHANGED vars
        PROVE  (QueueInv /\ ClockInv /\ OnceInv)'
    BY <2>2, SameClock, SameOnce DEF vars
  <2>3. QED
    BY <2>1, <2>2
<1>3. OnceInv => AppliedOnce
  BY DEF OnceInv, AppliedOnce, Counted, Receipts
<1>4. QED
  BY <1>1, <1>2, <1>3, LedgerInvariance, PTL DEF Spec

-----------------------------------------------------------------------------
(* The feed retells the ledger.  What a recursive definition computes from  *)
(* the feed is proved by induction over the steps that append to it.       *)

\* Rows are told of expenses that exist, and version 1 is the creation.
CreationInv ==
    /\ \A i \in DOMAIN feed : Created(feed[i].expense)
    /\ \A e \in Expense : announce[e] # "none" => Created(e)
    /\ \A e \in Expense : ledger[e].version = 1 => ledger[e] = Row(1, FALSE, Initial[e])

LEMMA RowsOfFeed ==
    ASSUME NEW s \in Seq(FeedRow)
    PROVE  \A i \in DOMAIN s : s[i].expense \in Expense
<1>1. \A i \in DOMAIN s : s[i] \in FeedRow
  OBVIOUS
<1>2. QED
  BY <1>1 DEF FeedRow

LEMMA InitCreation == ASSUME Init PROVE CreationInv
  BY DEF Init, CreationInv, Row

LEMMA StepCreation ==
    ASSUME IInv, QueueInv, ClockInv, CreationInv, Next
    PROVE  CreationInv'
<1>1. \A i \in DOMAIN feed' : feed'[i].expense \in Expense /\ ledger'[feed'[i].expense].version > 0
  <2>1. feed \in Seq(FeedRow) /\ \A i \in DOMAIN feed : ledger'[feed[i].expense].version > 0
    <3>1. feed \in Seq(FeedRow)
      BY DEF IInv, TypeOK, FeedRow
    <3>2. \A i \in DOMAIN feed : feed[i].expense \in Expense
      BY <3>1, RowsOfFeed
    <3>3. QED
      BY <3>1, <3>2, CreatedStays DEF CreationInv, Created
  <2>2. feed' = feed \/ \E x \in FeedRow : feed' = Append(feed, x) /\ Created(x.expense)
    <3>1. ASSUME NEW e \in Expense, Announce(e)
          PROVE  \E x \in FeedRow : feed' = Append(feed, x) /\ Created(x.expense)
      <4>1. Row(1, FALSE, Initial[e]) \in LedgerRow /\ ledger[e] \in LedgerRow
        BY LedgerAssumption, RowType DEF IInv, TypeOK, LedgerRow
      <4>2. PICK row \in LedgerRow : feed' = Append(feed, Change(Creation, e, "snapshot", row))
        BY <3>1, <4>1 DEF Announce
      <4>3. Change(Creation, e, "snapshot", row) \in FeedRow
        BY ChangeType
      <4>4. Change(Creation, e, "snapshot", row).expense = e /\ Created(e)
        BY <3>1 DEF Announce, CreationInv, Change
      <4>5. QED
        BY <4>2, <4>3, <4>4
    <3>2. ASSUME NEW c \in Call, pc[c] # "idle", NEW row \in LedgerRow,
                 NEW kind \in {"snapshot", "tombstone", "share"},
                 feed' = Append(feed, Change(c.op, Target(c), kind, row))
          PROVE  \E x \in FeedRow : feed' = Append(feed, x) /\ Created(x.expense)
      <4>1. Created(Target(c)) /\ c.op \in Op /\ Target(c) \in Expense
        BY <3>2, BodyType DEF QueueInv, Target
      <4>2. Change(c.op, Target(c), kind, row) \in FeedRow
        BY <4>1, ChangeType
      <4>3. Change(c.op, Target(c), kind, row).expense = Target(c)
        BY DEF Change
      <4>4. QED
        BY <3>2, <4>1, <4>2, <4>3
    <3>3. ASSUME NEW c \in Call, CommitMutation(c)
          PROVE  \E x \in FeedRow : feed' = Append(feed, x) /\ Created(x.expense)
      <4>1. pc[c] # "idle" /\ After(c) \in LedgerRow
        BY <3>3, AfterType DEF CommitMutation, IInv
      <4>2. PICK kind \in {"snapshot", "tombstone", "share"} :
                feed' = Append(feed, Change(c.op, Target(c), kind, After(c)))
        BY <3>3 DEF CommitMutation
      <4>3. QED
        BY <3>2, <4>1, <4>2
    <3>4. ASSUME NEW c \in Call, WriteShare(c), ~Stale(c)
          PROVE  \E x \in FeedRow : feed' = Append(feed, x) /\ Created(x.expense)
      <4>1. pc[c] # "idle" /\ Patched(c) \in LedgerRow
        BY <3>4, PatchedType DEF WriteShare, IInv
      <4>2. feed' = Append(feed, Change(c.op, Target(c), "share", Patched(c)))
        BY <3>4 DEF WriteShare
      <4>3. QED
        BY <3>2, <4>1, <4>2
    <3>5. QED
      BY <3>1, <3>3, <3>4, Writers DEF Create
  <2>3. CASE feed' = feed
    BY <2>1, <2>3, RowsOfFeed
  <2>4. ASSUME NEW x \in FeedRow, feed' = Append(feed, x), Created(x.expense)
        PROVE  \A i \in DOMAIN feed' : feed'[i].expense \in Expense /\ ledger'[feed'[i].expense].version > 0
    <3>1. x.expense \in Expense /\ ledger'[x.expense].version > 0
      BY <2>4, CreatedStays DEF FeedRow, Created
    <3>2. /\ DOMAIN feed' = DOMAIN feed \union {Len(feed) + 1}
          /\ feed'[Len(feed) + 1] = x
          /\ \A i \in DOMAIN feed : feed'[i] = feed[i] /\ feed[i] \in FeedRow
      BY <2>1, <2>4, AppendParts
    <3>3. QED
      BY <2>1, <3>1, <3>2 DEF FeedRow
  <2>5. QED
    BY <2>2, <2>3, <2>4
<1>2. ASSUME NEW e \in Expense, announce'[e] # "none" PROVE Created(e)'
  <2>1. announce[e] # "none" \/ Create(e)
    <3>1. UNCHANGED announce
          \/ \E x \in Expense : Create(x) \/ Announce(x) \/ CreatorDies(x)
      BY DEF Next, ExpenseStep, Settle, Enqueue, Send, CheckReceipt, MutationStep, LockRow,
         ReadSettlements, Refuse, CommitMutation, ShareStep, CheckExpense, ReadShare,
         Stamp, WriteShare, Deliver, Crash, dbVars
    <3>2. announce \in [Expense -> {"none", "pending", "lost", "done"}]
      BY DEF IInv, TypeOK
    <3>3. ASSUME NEW x \in Expense, Create(x) PROVE announce[e] # "none" \/ Create(e)
      BY <1>2, <3>2, <3>3 DEF Create
    <3>4. ASSUME NEW x \in Expense, Announce(x) \/ CreatorDies(x) PROVE announce[e] # "none"
      BY <1>2, <3>2, <3>4 DEF Announce, CreatorDies
    <3>5. QED
      BY <1>2, <3>1, <3>3, <3>4
  <2>2. CASE Create(e)
    BY <2>2 DEF Create, Created, Row, IInv, TypeOK
  <2>3. QED
    BY <2>1, <2>2, CreatedStays DEF CreationInv
<1>3. ASSUME NEW e \in Expense, ledger'[e].version = 1
      PROVE  ledger'[e] = Row(1, FALSE, Initial[e])
  <2>1. CASE ledger'[e] = ledger[e]
    BY <1>3, <2>1 DEF CreationInv
  <2>2. ASSUME NEW x \in Expense, Create(x) PROVE ledger'[e] = Row(1, FALSE, Initial[e])
    BY <2>1, <2>2 DEF Create, IInv, TypeOK
  <2>3. ASSUME NEW c \in Call, pc[c] # "idle", Target(c) = e
        PROVE  clock[e] \in Nat /\ clock[e] > 0
    <3>1. Created(e) /\ clock[e] \in Nat /\ ledger[e].version \in Nat
          /\ ledger[e].version <= clock[e]
      BY <2>3, BodyType DEF QueueInv, ClockInv, Target, IInv, TypeOK
    <3>2. QED
      BY <3>1 DEF Created
  <2>4. ASSUME NEW c \in Call, CommitMutation(c), Target(c) = e PROVE FALSE
    <3>1. pc[c] # "idle" /\ ledger'[e] = After(c) /\ After(c).version = clock[e] + 1
      BY <2>4, CommitEffect, AfterType DEF CommitMutation, IInv
    <3>2. QED
      BY <1>3, <2>3, <2>4, <3>1
  <2>5. ASSUME NEW c \in Call, WriteShare(c), ~Stale(c), Target(c) = e PROVE FALSE
    <3>1. ledger'[e] = Patched(c) /\ Patched(c).version = stamp[c]
      BY <2>5, WriteShareEffect, PatchedType DEF IInv
    <3>2. stamp[c] > 1 /\ stamp[c] \in Nat
      BY <2>5 DEF WriteShare, ClockInv, IInv, TypeOK
    <3>3. QED
      BY <1>3, <3>1, <3>2
  <2>6. QED
    BY <2>1, <2>2, <2>4, <2>5, Writers, CommitEffect, WriteShareEffect DEF Announce
<1>4. QED
  BY <1>1, <1>2, <1>3 DEF CreationInv, Created

\* v is what a device has of e after each prefix of the feed.
IsView(e, v) ==
    v = [n \in 0 .. Len(feed) |->
            IF n = 0 THEN Row(0, FALSE, Initial[e])
            ELSE IF feed[n].expense = e THEN Apply(v[n - 1], feed[n])
            ELSE v[n - 1]]

Untold(e) == \A i \in DOMAIN feed : feed[i].expense # e

\* What is right for a device to have of e.
Right(e, view) ==
    /\ Untold(e) => view = Row(0, FALSE, Initial[e])
    /\ CreationFirst(e) /\ ~Patch(receipts, e) => view = ledger[e]

ViewOf(e) ==
    /\ \E v : IsView(e, v)
    /\ \A v : IsView(e, v) => Right(e, v[Len(feed)])

ViewInv == \A e \in Expense : ViewOf(e)

\* The recursive definition is one of these functions.
LEMMA PulledIsView ==
    ASSUME NEW e \in Expense, ViewOf(e)
    PROVE  Right(e, PulledView(e))
<1> DEFINE v == CHOOSE v : IsView(e, v)
<1>1. IsView(e, v)
  BY DEF ViewOf
<1>2. PulledView(e) = v[Len(feed)]
  BY <1>1 DEF PulledView, IsView
<1>3. QED
  BY <1>1, <1>2 DEF ViewOf

LEMMA InitView == ASSUME Init PROVE ViewInv
<1>1. feed = <<>> /\ Len(feed) = 0 /\ DOMAIN feed = {} /\ 0 .. Len(feed) = {0}
  BY DEF Init
<1>2. SUFFICES ASSUME NEW e \in Expense PROVE ViewOf(e)
  BY DEF ViewInv
<1> DEFINE start == Row(0, FALSE, Initial[e])
<1>3. IsView(e, [n \in {0} |-> start])
  BY <1>1 DEF IsView
<1>4. ASSUME NEW v, IsView(e, v) PROVE v[0] = start
  BY <1>1, <1>4 DEF IsView
<1>5. Right(e, start)
  BY <1>1 DEF Right, CreationFirst
<1>6. QED
  BY <1>1, <1>3, <1>4, <1>5 DEF ViewOf

\* One row more: each view of the longer feed goes one step beyond a view of
\* the shorter one, and each view of the shorter one is continued.
LEMMA ViewGrows ==
    ASSUME NEW e \in Expense, feed \in Seq(FeedRow), NEW x \in FeedRow, feed' = Append(feed, x)
    PROVE  /\ \A v : IsView(e, v)' =>
                  LET w == [n \in 0 .. Len(feed) |-> v[n]] IN
                  /\ IsView(e, w)
                  /\ v[Len(feed')] = IF x.expense = e THEN Apply(w[Len(feed)], x)
                                     ELSE w[Len(feed)]
           /\ (\E w : IsView(e, w)) => \E v : IsView(e, v)'
<1> DEFINE m == Len(feed)
<1>1. /\ m \in Nat /\ Len(feed') = m + 1 /\ feed'[m + 1] = x
      /\ \A n \in 1 .. m : feed'[n] = feed[n]
  BY AppendParts
<1>2. ASSUME NEW v, IsView(e, v)'
      PROVE  LET w == [n \in 0 .. m |-> v[n]] IN
             /\ IsView(e, w)
             /\ v[m + 1] = IF x.expense = e THEN Apply(w[m], x) ELSE w[m]
  <2> DEFINE w == [n \in 0 .. m |-> v[n]]
  <2>1. v = [n \in 0 .. m + 1 |->
                IF n = 0 THEN Row(0, FALSE, Initial[e])
                ELSE IF feed'[n].expense = e THEN Apply(v[n - 1], feed'[n])
                ELSE v[n - 1]]
    BY <1>1, <1>2 DEF IsView, Apply, Row
  <2>2. v[m + 1] = IF x.expense = e THEN Apply(v[m], x) ELSE v[m]
    <3>1. m + 1 \in 0 .. m + 1 /\ m + 1 # 0 /\ (m + 1) - 1 = m /\ feed'[m + 1] = x
      BY <1>1
    <3>2. v[m + 1] = IF x.expense = e THEN Apply(v[(m + 1) - 1], x) ELSE v[(m + 1) - 1]
      BY <2>1, <3>1
    <3>3. QED
      BY <3>1, <3>2
  <2>3. w[m] = v[m]
    BY <1>1
  <2>4. ASSUME NEW n \in 0 .. m
        PROVE  w[n] = IF n = 0 THEN Row(0, FALSE, Initial[e])
                      ELSE IF feed[n].expense = e THEN Apply(w[n - 1], feed[n])
                      ELSE w[n - 1]
    <3>1. n \in 0 .. m + 1 /\ (n # 0 => n - 1 \in 0 .. m /\ feed'[n] = feed[n])
      BY <1>1
    <3>2. v[n] = IF n = 0 THEN Row(0, FALSE, Initial[e])
                 ELSE IF feed'[n].expense = e THEN Apply(v[n - 1], feed'[n])
                 ELSE v[n - 1]
      BY <2>1, <3>1
    <3>3. w[n] = v[n] /\ (n # 0 => w[n - 1] = v[n - 1])
      BY <3>1
    <3>4. QED
      BY <3>1, <3>2, <3>3
  <2>5. IsView(e, w)
    BY <2>4 DEF IsView
  <2>6. QED
    BY <2>2, <2>3, <2>5
<1>3. ASSUME NEW w, IsView(e, w)
      PROVE  \E v : IsView(e, v)'
  <2> DEFINE last == IF x.expense = e THEN Apply(w[m], x) ELSE w[m]
  <2> PICK v : v = [n \in 0 .. m + 1 |-> IF n = m + 1 THEN last ELSE w[n]]
    OBVIOUS
  <2>1. ASSUME NEW n \in 0 .. m + 1
        PROVE  v[n] = IF n = 0 THEN Row(0, FALSE, Initial[e])
                      ELSE IF feed'[n].expense = e THEN Apply(v[n - 1], feed'[n])
                      ELSE v[n - 1]
    <3>1. CASE n = m + 1
      <4>1. n # 0 /\ n - 1 = m /\ m \in 0 .. m + 1 /\ m # m + 1
        BY <1>1, <3>1
      <4>2. v[n] = last /\ v[n - 1] = w[m] /\ feed'[n] = x
        BY <1>1, <3>1, <4>1
      <4>3. QED
        BY <4>1, <4>2
    <3>2. CASE n # m + 1
      <4>1. n \in 0 .. m /\ (n # 0 => n - 1 \in 0 .. m + 1 /\ n - 1 # m + 1 /\ feed'[n] = feed[n])
        BY <1>1, <3>2
      <4>2. w[n] = IF n = 0 THEN Row(0, FALSE, Initial[e])
                   ELSE IF feed[n].expense = e THEN Apply(w[n - 1], feed[n])
                   ELSE w[n - 1]
        BY <1>3, <4>1 DEF IsView
      <4>3. v[n] = w[n] /\ (n # 0 => v[n - 1] = w[n - 1])
        BY <3>2, <4>1
      <4>4. QED
        BY <4>1, <4>2, <4>3
    <3>3. QED
      BY <3>1, <3>2
  <2>2. v = [n \in 0 .. m + 1 |->
                IF n = 0 THEN Row(0, FALSE, Initial[e])
                ELSE IF feed'[n].expense = e THEN Apply(v[n - 1], feed'[n])
                ELSE v[n - 1]]
    BY <2>1
  <2>3. IsView(e, v)'
    BY <1>1, <2>2 DEF IsView, Apply, Row
  <2>4. QED
    BY <2>3
<1>4. QED
  BY <1>1, <1>2, <1>3

LEMMA ApplyCases ==
    ASSUME NEW view \in LedgerRow, NEW x \in FeedRow
    PROVE  /\ x.kind = "snapshot" /\ view.version <= x.version =>
                  Apply(view, x) = Row(x.version, FALSE, x.details)
           /\ x.kind = "snapshot" /\ view.version > x.version => Apply(view, x) = view
           /\ x.kind = "tombstone" /\ view.version > 0 =>
                  Apply(view, x) = Row(x.version, TRUE, view.details)
<1>1. view.version \in Nat /\ x.version \in Nat
  BY DEF LedgerRow, FeedRow
<1>2. ASSUME x.kind = "snapshot", view.version <= x.version
      PROVE  Apply(view, x) = Row(x.version, FALSE, x.details)
  <2>1. ~(view.version > x.version) /\ x.kind # "tombstone"
    BY <1>1, <1>2
  <2>2. QED
    BY <1>2, <2>1, Zenon DEF Apply
<1>3. ASSUME x.kind = "snapshot", view.version > x.version
      PROVE  Apply(view, x) = view
  <2>1. ~(view.version <= x.version) /\ x.kind # "tombstone"
    BY <1>1, <1>3
  <2>2. QED
    BY <1>3, <2>1, Zenon DEF Apply
<1>4. ASSUME x.kind = "tombstone", view.version > 0
      PROVE  Apply(view, x) = Row(x.version, TRUE, view.details)
  <2>1. x.kind # "snapshot"
    BY <1>4
  <2>2. QED
    BY <1>4, <2>1, Zenon DEF Apply
<1>5. QED
  BY <1>2, <1>3, <1>4

\* What a new row changes in what has been told of e.
LEMMA ToldGrows ==
    ASSUME NEW e \in Expense, feed \in Seq(FeedRow), NEW x \in FeedRow, feed' = Append(feed, x)
    PROVE  /\ x.expense # e => (Untold(e)' <=> Untold(e)) /\ (CreationFirst(e)' <=> CreationFirst(e))
           /\ x.expense = e => ~Untold(e)' /\ (CreationFirst(e)' => CreationFirst(e) \/ Untold(e))
           /\ x.op # Creation => (CreationFirst(e)' => CreationFirst(e))
<1> DEFINE n == Len(feed) + 1
<1>1. /\ n \in Nat /\ n \notin DOMAIN feed
      /\ DOMAIN feed' = DOMAIN feed \union {n} /\ feed'[n] = x
      /\ \A i \in DOMAIN feed : i \in Nat /\ i < n /\ feed'[i] = feed[i]
  BY AppendParts
<1> HIDE DEF n
<1>2. ASSUME x.expense # e
      PROVE  (Untold(e)' <=> Untold(e)) /\ (CreationFirst(e)' <=> CreationFirst(e))
  <2>1. Untold(e)' <=> Untold(e)
    BY <1>1, <1>2 DEF Untold
  <2>2. CreationFirst(e) => CreationFirst(e)'
    BY <1>1, <1>2 DEF CreationFirst
  <2>3. CreationFirst(e)' => CreationFirst(e)
    BY <1>1, <1>2 DEF CreationFirst
  <2>4. QED
    BY <2>1, <2>2, <2>3
<1>3. ASSUME NEW i \in DOMAIN feed, CreationFirst(e)', feed[i].expense = e
      PROVE  CreationFirst(e)
  <2>1. PICK k \in DOMAIN feed' : /\ feed'[k].expense = e /\ feed'[k].op = Creation
                                  /\ \A j \in DOMAIN feed' : feed'[j].expense = e => k <= j
    BY <1>3 DEF CreationFirst
  <2>2. k <= i /\ k \in DOMAIN feed
    BY <1>1, <1>3, <2>1
  <2>3. QED
    BY <1>1, <2>1, <2>2 DEF CreationFirst
<1>4. ASSUME x.expense = e
      PROVE  ~Untold(e)' /\ (CreationFirst(e)' => CreationFirst(e) \/ Untold(e))
  BY <1>1, <1>3, <1>4 DEF Untold
<1>5. ASSUME x.op # Creation, CreationFirst(e)' PROVE CreationFirst(e)
  BY <1>1, <1>5 DEF CreationFirst
<1>6. QED
  BY <1>2, <1>4, <1>5

LEMMA OneRow ==
    ASSUME ViewInv, NEW e \in Expense, feed \in Seq(FeedRow), NEW x \in FeedRow,
           feed' = Append(feed, x),
           \A view : Right(e, view) =>
               Right(e, IF x.expense = e THEN Apply(view, x) ELSE view)'
    PROVE  ViewOf(e)'
<1>1. ViewOf(e)
  BY DEF ViewInv
<1>2. \E v : IsView(e, v)'
  BY <1>1, ViewGrows DEF ViewOf
<1>3. ASSUME NEW v, IsView(e, v)' PROVE Right(e, v[Len(feed)])'
  <2> DEFINE m == Len(feed)
  <2>1. PICK w : /\ IsView(e, w)
                 /\ v[Len(feed')] = IF x.expense = e THEN Apply(w[m], x) ELSE w[m]
    BY <1>3, ViewGrows
  <2>2. PICK was : was = w[m]
    OBVIOUS
  <2>3. Right(e, was)
    BY <1>1, <2>1, <2>2 DEF ViewOf
  <2>4. PICK now : now = IF x.expense = e THEN Apply(was, x) ELSE was
    OBVIOUS
  <2>5. Right(e, now)'
    BY <2>3, <2>4
  <2>6. v[Len(feed')] = now
    BY <2>1, <2>2, <2>4
  <2>7. QED
    BY <2>5, <2>6 DEF Right
<1>4. QED
  BY <1>2, <1>3 DEF ViewOf

\* A row about another expense.
LEMMA OtherView ==
    ASSUME ViewInv, NEW e \in Expense, feed \in Seq(FeedRow), NEW x \in FeedRow,
           feed' = Append(feed, x), x.expense # e, ledger'[e] = ledger[e],
           receipts \subseteq receipts'
    PROVE  ViewOf(e)'
<1>1. (Untold(e)' <=> Untold(e)) /\ (CreationFirst(e)' <=> CreationFirst(e))
  BY ToldGrows
<1>2. Patch(receipts, e) => Patch(receipts, e)'
  BY DEF Patch
<1>3. ASSUME NEW view, Right(e, view) PROVE Right(e, view)'
  BY <1>1, <1>2, <1>3 DEF Right
<1>4. QED
  BY <1>3, OneRow

LEMMA RowParts ==
    ASSUME NEW row \in LedgerRow
    PROVE  row = Row(row.version, row.deleted, row.details)
  BY DEF LedgerRow, Row

LEMMA AnnounceView ==
    ASSUME IInv, OnceInv, CreationInv, ViewInv, NEW e \in Expense, Announce(e)
    PROVE  ViewInv'
<1>1. /\ feed \in Seq(FeedRow) /\ UNCHANGED <<ledger, receipts>> /\ ledger[e] \in LedgerRow
      /\ Initial[e] \in Details
  BY LedgerAssumption DEF Announce, IInv, TypeOK, FeedRow, LedgerRow
<1>2. Created(e) /\ ledger[e].version \in Nat /\ ledger[e].version > 0
  BY <1>1 DEF Announce, CreationInv, Created, LedgerRow
<1>3. PICK x \in FeedRow :
          /\ feed' = Append(feed, x) /\ x.expense = e /\ x.kind = "snapshot"
          /\ \/ x.version = 1 /\ x.details = Initial[e]
             \/ /\ x.version = ledger[e].version /\ x.details = ledger[e].details
                /\ ledger[e].deleted = FALSE
  <2>1. ASSUME NEW row \in LedgerRow, feed' = Append(feed, Change(Creation, e, "snapshot", row))
        PROVE  \E x \in FeedRow :
                  /\ feed' = Append(feed, x) /\ x.expense = e /\ x.kind = "snapshot"
                  /\ x.version = row.version /\ x.details = row.details
    <3>1. Change(Creation, e, "snapshot", row) \in FeedRow
      BY ChangeType
    <3>2. QED
      BY <2>1, <3>1 DEF Change
  <2>2. CASE feed' = Append(feed, Change(Creation, e, "snapshot", Row(1, FALSE, Initial[e])))
    <3>1. Row(1, FALSE, Initial[e]) \in LedgerRow
      BY <1>1, RowType
    <3>2. QED
      BY <2>1, <2>2, <3>1 DEF Row
  <2>3. CASE Live(e) /\ feed' = Append(feed, Change(Creation, e, "snapshot", ledger[e]))
    <3>1. ledger[e].deleted = FALSE
      BY <1>1, <2>3 DEF Live, LedgerRow
    <3>2. QED
      BY <1>1, <2>1, <2>3, <3>1
  <2>4. QED
    BY <2>2, <2>3 DEF Announce
<1>4. ASSUME Untold(e) PROVE ledger[e] = Row(1, FALSE, Initial[e])
  <2>1. WriteRows(e) = {}
    BY <1>4 DEF WriteRows, Untold
  <2>2. ledger[e].version = 1
    BY <1>2, <2>1 DEF OnceInv, Counted
  <2>3. QED
    BY <2>2 DEF CreationInv
<1>5. ASSUME x.version > ledger[e].version \/ x.version = ledger[e].version
      PROVE  Row(x.version, FALSE, x.details) = ledger[e]
  <2>1. CASE x.version = 1 /\ x.details = Initial[e]
    <3>1. ledger[e].version = 1
      BY <1>2, <1>5, <2>1
    <3>2. QED
      BY <2>1, <3>1 DEF CreationInv
  <2>2. CASE x.version = ledger[e].version /\ x.details = ledger[e].details
             /\ ledger[e].deleted = FALSE
    BY <1>1, <2>2, RowParts
  <2>3. QED
    BY <1>3, <2>1, <2>2
<1>6. ASSUME NEW view, Right(e, view), CreationFirst(e)', ~Patch(receipts, e)
      PROVE  Apply(view, x) = ledger[e]
  <2>1. CASE Untold(e)
    <3>1. view = Row(0, FALSE, Initial[e])
      BY <1>6, <2>1 DEF Right
    <3>2. view \in LedgerRow
      BY <1>1, <3>1, RowType
    <3>3. x.version \in Nat /\ ledger[e].version = 1
      BY <1>4, <2>1 DEF FeedRow, Row
    <3>4. view.version <= x.version
      BY <3>1, <3>3 DEF Row
    <3>5. Apply(view, x) = Row(x.version, FALSE, x.details)
      BY <1>3, <3>2, <3>4, ApplyCases
    <3>6. x.version = ledger[e].version
      BY <1>3, <3>3
    <3>7. QED
      BY <1>5, <3>5, <3>6
  <2>2. CASE CreationFirst(e)
    <3>1. view = ledger[e] /\ x.version \in Nat
      BY <1>6, <2>2 DEF Right, FeedRow
    <3>2. CASE view.version <= x.version
      <4>1. Apply(view, x) = Row(x.version, FALSE, x.details)
        BY <1>1, <1>3, <3>1, <3>2, ApplyCases
      <4>2. x.version > ledger[e].version \/ x.version = ledger[e].version
        BY <1>2, <3>1, <3>2
      <4>3. QED
        BY <1>5, <4>1, <4>2
    <3>3. CASE view.version > x.version
      BY <1>1, <1>3, <3>1, <3>3, ApplyCases
    <3>4. QED
      BY <1>1, <3>1, <3>2, <3>3 DEF LedgerRow
  <2>3. QED
    BY <1>1, <1>3, <1>6, <2>1, <2>2, ToldGrows
<1>7. ASSUME NEW view, Right(e, view) PROVE Right(e, Apply(view, x))'
  <2>1. PICK now : now = Apply(view, x)
    OBVIOUS
  <2>2. ~Untold(e)'
    BY <1>1, <1>3, ToldGrows
  <2>3. CreationFirst(e)' /\ ~Patch(receipts, e)' => now = ledger'[e]
    BY <1>1, <1>6, <1>7, <2>1 DEF Patch
  <2>4. Right(e, now)'
    BY <2>2, <2>3 DEF Right
  <2>5. QED
    BY <2>1, <2>4
<1>8. ViewOf(e)'
  BY <1>1, <1>3, <1>7, OneRow
<1>9. ASSUME NEW y \in Expense, y # e PROVE ViewOf(y)'
  BY <1>1, <1>3, <1>9, OtherView
<1>10. QED
  BY <1>8, <1>9 DEF ViewInv

\* An update or a delete: a device that has the ledger's row gets the new one.
LEMMA CommitView ==
    ASSUME IInv, QueueInv, ClockInv, ViewInv, NEW c \in Call, CommitMutation(c)
    PROVE  ViewInv'
<1>0. PICK e \in Expense : e = Target(c)
  BY BodyType
<1>1. /\ feed \in Seq(FeedRow) /\ e \in Expense /\ c.op \in Op /\ ledger[e] \in LedgerRow
      /\ After(c) \in LedgerRow
  BY <1>0, BodyType, AfterType DEF IInv, TypeOK, FeedRow, LedgerRow
<1>2. /\ Created(e) /\ ledger[e].version \in Nat /\ ledger[e].version > 0
      /\ clock[e] \in Nat /\ ledger[e].version <= clock[e]
  BY <1>0, <1>1 DEF QueueInv, ClockInv, CommitMutation, Target, Created, LedgerRow, IInv, TypeOK
<1>3. PICK x \in FeedRow :
          /\ feed' = Append(feed, x) /\ x.expense = e /\ x.op = c.op
          /\ x.version = After(c).version /\ x.details = After(c).details
          /\ x.kind = IF KindOf(c) = "delete" THEN "tombstone" ELSE "snapshot"
  <2> DEFINE kind == IF KindOf(c) = "delete" THEN "tombstone" ELSE "snapshot"
             y == Change(c.op, e, kind, After(c))
  <2>1. feed' = Append(feed, y)
    BY <1>0 DEF CommitMutation
  <2>2. y \in FeedRow
    BY <1>1, ChangeType
  <2>3. y.expense = e /\ y.op = c.op /\ y.version = After(c).version
        /\ y.details = After(c).details /\ y.kind = kind
    BY DEF Change
  <2>4. QED
    BY <2>1, <2>2, <2>3
<1>4. /\ ledger'[e] = After(c) /\ receipts' = receipts \union {c.op}
      /\ \A y \in Expense : y # e => ledger'[y] = ledger[y]
  BY <1>0, CommitEffect
<1>5. Apply(ledger[e], x) = After(c)
  <2>1. CASE KindOf(c) = "delete"
    <3>1. After(c) = Row(clock[e] + 1, TRUE, ledger[e].details)
      BY <1>0, <2>1 DEF After
    <3>2. Apply(ledger[e], x) = Row(x.version, TRUE, ledger[e].details)
      BY <1>1, <1>2, <1>3, <2>1, ApplyCases
    <3>3. x.version = clock[e] + 1
      BY <1>3, <3>1 DEF Row
    <3>4. QED
      BY <3>1, <3>2, <3>3
  <2>2. CASE KindOf(c) # "delete"
    <3>1. After(c) = Row(clock[e] + 1, FALSE, Asked(c))
      BY <1>0, <2>2 DEF After
    <3>2. x.version = clock[e] + 1 /\ x.details = Asked(c)
      BY <1>3, <3>1 DEF Row
    <3>3. x.kind = "snapshot" /\ ledger[e].version <= x.version
      BY <1>2, <1>3, <2>2, <3>2
    <3>4. Apply(ledger[e], x) = Row(x.version, FALSE, x.details)
      BY <1>1, <3>3, ApplyCases
    <3>5. QED
      BY <3>1, <3>2, <3>4
  <2>3. QED
    BY <2>1, <2>2
<1>6. ASSUME NEW view, Right(e, view) PROVE Right(e, Apply(view, x))'
  <2>1. PICK now : now = Apply(view, x)
    OBVIOUS
  <2>2. ~Untold(e)' /\ (CreationFirst(e)' => CreationFirst(e))
    <3>1. x.op # Creation
      BY <1>1, <1>3, LedgerAssumption
    <3>2. QED
      BY <1>1, <1>3, <3>1, ToldGrows
  <2>3. ~Patch(receipts, e)' => ~Patch(receipts, e)
    BY <1>4 DEF Patch
  <2>4. CreationFirst(e)' /\ ~Patch(receipts, e)' => now = ledger'[e]
    BY <1>4, <1>5, <1>6, <2>1, <2>2, <2>3 DEF Right
  <2>5. Right(e, now)'
    BY <2>2, <2>4 DEF Right
  <2>6. QED
    BY <2>1, <2>5
<1>7. ViewOf(e)'
  BY <1>1, <1>3, <1>6, OneRow
<1>8. ASSUME NEW y \in Expense, y # e PROVE ViewOf(y)'
  BY <1>1, <1>3, <1>4, <1>8, OtherView
<1>9. QED
  BY <1>7, <1>8 DEF ViewInv

\* A share operation: from here on nothing is promised of its expense.
LEMMA ShareView ==
    ASSUME IInv, ViewInv, NEW c \in Call, WriteShare(c), ~Stale(c)
    PROVE  ViewInv'
<1>1. PICK e \in Expense : e = Target(c)
  BY BodyType
<1>2. feed \in Seq(FeedRow) /\ c.op \in Op
  BY BodyType DEF IInv, TypeOK, FeedRow
<1>3. PICK x \in FeedRow : feed' = Append(feed, x) /\ x.expense = e
  <2>1. feed' = Append(feed, Change(c.op, e, "share", Patched(c)))
    BY <1>1 DEF WriteShare
  <2>2. Change(c.op, e, "share", Patched(c)) \in FeedRow
    BY <1>2, PatchedType, ChangeType DEF IInv
  <2>3. QED
    BY <2>1, <2>2 DEF Change
<1>4. /\ Patch(receipts, e)' /\ receipts \subseteq receipts'
      /\ \A y \in Expense : y # e => ledger'[y] = ledger[y]
  <2>1. KindOf(c) \notin Mutation /\ c.op \in receipts'
        /\ receipts' = receipts \union {c.op}
        /\ \A y \in Expense : y # e => ledger'[y] = ledger[y]
    BY <1>1, WriteShareEffect
  <2>2. QED
    BY <1>1, <2>1 DEF Patch, KindOf, Target
<1>5. ASSUME NEW view PROVE Right(e, Apply(view, x))'
  <2>1. PICK now : now = Apply(view, x)
    OBVIOUS
  <2>2. ~Untold(e)'
    BY <1>2, <1>3, ToldGrows
  <2>3. Right(e, now)'
    BY <1>4, <2>2 DEF Right
  <2>4. QED
    BY <2>1, <2>3
<1>6. ViewOf(e)'
  BY <1>2, <1>3, <1>5, OneRow
<1>7. ASSUME NEW y \in Expense, y # e PROVE ViewOf(y)'
  BY <1>2, <1>3, <1>4, <1>7, OtherView
<1>8. QED
  BY <1>6, <1>7 DEF ViewInv

\* The feed is as it was, and a row that changed has not been told of.
LEMMA FeedStays ==
    ASSUME ViewInv, UNCHANGED <<feed, receipts>>,
           \A y \in Expense : ledger'[y] = ledger[y] \/ ~CreationFirst(y)
    PROVE  ViewInv'
<1>1. ASSUME NEW y \in Expense PROVE ViewOf(y)'
  <2>1. ASSUME NEW v, IsView(y, v)' PROVE IsView(y, v)
    BY <2>1 DEF IsView
  <2>2. ASSUME NEW v, IsView(y, v) PROVE IsView(y, v)'
    BY <2>2 DEF IsView
  <2>3. ASSUME NEW view, Right(y, view) PROVE Right(y, view)'
    BY <2>3 DEF Right, Untold, CreationFirst, Patch
  <2>4. ASSUME NEW v, IsView(y, v)' PROVE Right(y, v[Len(feed)])'
    <3>1. PICK view : view = v[Len(feed)]
      OBVIOUS
    <3>2. Right(y, view)
      BY <2>1, <2>4, <3>1 DEF ViewInv, ViewOf
    <3>3. Right(y, view)'
      BY <2>3, <3>2
    <3>4. QED
      BY <3>1, <3>3 DEF Right
  <2>5. QED
    BY <2>2, <2>4 DEF ViewInv, ViewOf
<1>2. QED
  BY <1>1 DEF ViewInv

\* A new expense: nothing has been told of it.
LEMMA CreateView ==
    ASSUME IInv, CreationInv, ViewInv, NEW e \in Expense, Create(e)
    PROVE  ViewInv'
<1>1. /\ UNCHANGED <<feed, receipts>> /\ ~Created(e)
      /\ \A y \in Expense : y # e => ledger'[y] = ledger[y]
  BY DEF Create, IInv, TypeOK
<1>2. ~CreationFirst(e)
  BY <1>1 DEF CreationFirst, CreationInv
<1>3. QED
  BY <1>1, <1>2, FeedStays

LEMMA SameView == ASSUME ViewInv, UNCHANGED <<ledger, receipts, feed>> PROVE ViewInv'
  BY FeedStays

\* A device that pulls the feed of an expense announced before it was changed
\* has the ledger's version of it, whatever updates, deletes, retries and
\* crashes happened.
THEOREM FeedIsFaithful == Spec => []FeedReproducesLedger
<1>1. Init => QueueInv /\ ClockInv /\ OnceInv /\ CreationInv /\ ViewInv
  BY InitOnce, InitCreation, InitView
<1>2. IInv /\ QueueInv /\ ClockInv /\ OnceInv /\ CreationInv /\ ViewInv /\ [Next]_vars
         => (QueueInv /\ ClockInv /\ OnceInv /\ CreationInv /\ ViewInv)'
  <2>1. ASSUME IInv, QueueInv, ClockInv, OnceInv, CreationInv, ViewInv, Next
        PROVE  (QueueInv /\ ClockInv /\ OnceInv /\ CreationInv /\ ViewInv)'
    <3>1. ViewInv'
      BY <2>1, AnnounceView, CommitView, ShareView, CreateView, SameView, Writers
    <3>2. QED
      BY <2>1, <3>1, StepQueue, StepClock, StepOnce, StepCreation
  <2>2. ASSUME QueueInv, ClockInv, OnceInv, CreationInv, ViewInv, UNCHANGED vars
        PROVE  (QueueInv /\ ClockInv /\ OnceInv /\ CreationInv /\ ViewInv)'
    <3>1. CreationInv'
      BY <2>2 DEF vars, CreationInv, Created
    <3>2. QED
      BY <2>2, <3>1, SameClock, SameOnce, SameView DEF vars
  <2>3. QED
    BY <2>1, <2>2
<1>3. ViewInv => FeedReproducesLedger
  BY PulledIsView DEF ViewInv, FeedReproducesLedger, Right
<1>4. QED
  BY <1>1, <1>2, <1>3, LedgerInvariance, PTL DEF Spec
=============================================================================
