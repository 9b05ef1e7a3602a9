---------------------------- MODULE ReceiptsProofs ----------------------------
(* Proofs about Receipts for any events, keys, requests and workloads.      *)
EXTENDS Receipts, TLAPS

AnswerSet == {"created", "accepted", "conflict", "refused"}

-----------------------------------------------------------------------------
(* Types of what the actions build.                                        *)

LEMMA MessageType ==
    ASSUME TypeOK, NEW m \in workload.mail
    PROVE  /\ m \in Message /\ m.key \in Key /\ m.event \in Event
           /\ m.parsed \in BOOLEAN /\ m.event \in Record
  BY ReceiptsAssumption DEF TypeOK, Envelope, Record

LEMMA NewType ==
    /\ New \in Transaction /\ New.step = "new" /\ ~New.holds
    /\ Done \in Transaction /\ Done.step = "done" /\ ~Done.holds
  BY DEF New, Done, Transaction

LEMMA GoEffect ==
    ASSUME TypeOK, NEW r \in Request, NEW t \in Transaction, Go(r, t)
    PROVE  /\ tx' \in [Request -> Transaction]
           /\ tx'[r] = t
           /\ \A q \in Request : q # r => tx'[q] = tx[q]
  BY DEF TypeOK, Go

LEMMA NoRowType == NoRow \in Row /\ ~NoRow.linked /\ NoRow.state = "none"
  BY DEF NoRow, Row

LEMMA ScanOrEvent ==
    /\ Event \subseteq Record /\ Scan \subseteq Record /\ Record \subseteq Nat
    /\ \A e \in Event : e \notin Scan
  BY ReceiptsAssumption DEF Record

-----------------------------------------------------------------------------
(* Steps that write no row: one transaction moves, n8n may hear of it.     *)

LEMMA Reading ==
    ASSUME IInv, NEW r \in Request, NEW t \in Transaction, Go(r, t),
           UNCHANGED <<rows, device, workload>>, UNCHANGED <<made, decisions, raced>>,
           clock' \in 0 .. MaxClock,
           told' \subseteq Message \X AnswerSet,
           \A p \in told' : p[2] = "created" => made[p[1].event] = 1,
           failed' \subseteq Message, RetryIsAnswered',
           Fits(t),
           t.holds => /\ active /\ ~Here(t.message.event)
                      /\ \A q \in Request \ {r} :
                            tx[q].holds => tx[q].message.event # t.message.event,
           t.step = "itemize" =>
               /\ ~Here(t.record)
               /\ \A q \in Request \ {r} :
                     tx[q].step = "itemize" => tx[q].record # t.record,
           active /\ t.step = "decide" /\ ~t.late => IsDraft(t.record)
    PROVE  IInv'
<1>1. /\ tx' \in [Request -> Transaction]
      /\ tx'[r] = t
      /\ \A q \in Request : q # r => tx'[q] = tx[q]
  BY GoEffect DEF IInv
<1>2. UNCHANGED <<active, receipts, events, cursor, view, behind>>
  BY DEF rows, device
<1>3. TypeOK'
  BY <1>1, <1>2 DEF IInv, TypeOK, AnswerSet
<1>4. TxInv'
  BY <1>1 DEF IInv, TxInv, Fits
<1>5. HoldInv'
  BY <1>1, <1>2 DEF IInv, HoldInv, Here
<1>6. ItemizeInv'
  BY <1>1, <1>2 DEF IInv, ItemizeInv, Here
<1>7. LateInv'
  BY <1>1, <1>2 DEF IInv, LateInv, IsDraft
<1>8. ClosedInv' /\ EventInv' /\ ScanInv' /\ GroupReceiptsStayOut'
  BY <1>2 DEF IInv, ClosedInv, EventInv, ScanInv, GroupReceiptsStayOut, Here
<1>9. EventTakenOnce' /\ DecisionIsFinal' /\ OnlyOvertakenIsSkipped'
  BY <1>2 DEF IInv, EventTakenOnce, DecisionIsFinal, OnlyOvertakenIsSkipped, Passed, After
<1>10. QED
  BY <1>3, <1>4, <1>5, <1>6, <1>7, <1>8, <1>9 DEF IInv

LEMMA RetrySame ==
    ASSUME RetryIsAnswered, UNCHANGED <<failed, events, workload>>
    PROVE  RetryIsAnswered'
  BY DEF RetryIsAnswered

\* A request that ends without writing.
LEMMA Ending ==
    ASSUME IInv, NEW r \in Request, Go(r, Done), Quiet,
           told' \subseteq Message \X AnswerSet,
           \A p \in told' : p[2] = "created" => made[p[1].event] = 1
    PROVE  IInv'
<1>1. clock' \in 0 .. MaxClock /\ failed' \subseteq Message
  BY DEF IInv, TypeOK, Quiet, ghosts
<1>2. RetryIsAnswered'
  BY RetrySame DEF IInv, Quiet, ghosts, rows
<1>3. QED
  BY <1>1, <1>2, NewType, Reading DEF Quiet, ghosts, Fits

LEMMA StepFail == ASSUME IInv, NEW r \in Request, Fail(r) PROVE IInv'
<1>1. told' \subseteq Message \X AnswerSet /\ \A p \in told' : p[2] = "created" => made[p[1].event] = 1
  BY DEF Fail, IInv, TypeOK, AnswerSet, EventTakenOnce
<1>2. QED
  BY <1>1, Ending DEF Fail

LEMMA RespondEffect ==
    ASSUME IInv, NEW m \in Message, NEW a \in AnswerSet, Respond(m, a),
           a = "created" => made[m.event] = 1
    PROVE  /\ told' \subseteq Message \X AnswerSet
           /\ \A p \in told' : p[2] = "created" => made[p[1].event] = 1
  BY DEF Respond, IInv, TypeOK, EventTakenOnce, AnswerSet

\* A 500 for a duplicate: the row in the way has come with another event.
LEMMA StepDuplicate ==
    ASSUME IInv, NEW r \in Request, FailDuplicate(r), tx[r].message \in workload.mail,
           \/ Here(tx[r].message.event)
           \/ KeyTaken(tx[r].message.key)
    PROVE  IInv'
<1> DEFINE m == tx[r].message
<1>1. /\ failed' = failed \union {m} /\ Go(r, Done)
      /\ UNCHANGED <<rows, device, workload>> /\ UNCHANGED <<clock, told, made, decisions, raced>>
  BY DEF FailDuplicate
<1>2. m \in Message /\ m.event \in Event
  BY MessageType DEF IInv
<1>3. \/ \E n \in events : n.key = m.key
      \/ \E n \in workload.mail : n.event = m.event /\ n.key # m.key
  <2>1. CASE KeyTaken(m.key)
    BY <2>1 DEF KeyTaken
  <2>2. CASE Here(m.event)
    <3>1. PICK n \in events : n.event = m.event
      BY <1>2, <2>2 DEF IInv, EventInv
    <3>2. n \in workload.mail
      BY <3>1 DEF IInv, EventInv
    <3>3. QED
      BY <3>1, <3>2
  <2>3. QED
    BY <2>1, <2>2
<1>4. RetryIsAnswered'
  BY <1>1, <1>3 DEF IInv, RetryIsAnswered, rows
<1>5. /\ clock' \in 0 .. MaxClock /\ failed' \subseteq Message
      /\ told' \subseteq Message \X AnswerSet
      /\ \A p \in told' : p[2] = "created" => made[p[1].event] = 1
  BY <1>1, <1>2 DEF IInv, TypeOK, AnswerSet, EventTakenOnce
<1>6. QED
  BY <1>1, <1>4, <1>5, NewType, Reading DEF Fits

\* The start of a transaction.
LEMMA Beginning ==
    ASSUME IInv, NEW r \in Request, NEW t \in Transaction, Begin(r, t), ~t.holds,
           t.step \notin {"user", "receipt", "note"},
           t.step = "lookup" => t.message \in workload.mail,
           t.step = "decide" => t.verdict \in {"approved", "rejected"} /\ t.record \in Record
                                /\ IsDraft(t.record),
           t.step = "split" => t.record \in Record,
           t.step = "itemize" => /\ t.record \in Scan /\ ~Here(t.record)
                                 /\ \A q \in Request : tx[q].record # t.record
    PROVE  IInv'
<1>1. PICK now \in (clock .. clock + 1) \intersect (0 .. MaxClock) :
          clock' = now /\ Go(r, [t EXCEPT !.start = now])
  BY DEF Begin
<1> DEFINE u == [t EXCEPT !.start = now]
<1>2. now \in Nat
  BY <1>1, ReceiptsAssumption DEF IInv, TypeOK
<1>3. /\ u \in Transaction
      /\ u.step = t.step /\ u.message = t.message /\ u.record = t.record
      /\ u.verdict = t.verdict /\ u.holds = t.holds /\ u.late = t.late
  BY <1>2 DEF Transaction
<1>4. UNCHANGED <<rows, device, workload>> /\ UNCHANGED <<failed, told, made, decisions, raced>>
  BY DEF Begin, ghosts
<1>5. RetryIsAnswered'
  BY <1>4, RetrySame DEF IInv, rows
<1>6. /\ failed' \subseteq Message
      /\ told' \subseteq Message \X AnswerSet
      /\ \A p \in told' : p[2] = "created" => made[p[1].event] = 1
  BY <1>4 DEF IInv, TypeOK, AnswerSet, EventTakenOnce
<1>7. Fits(u)
  BY <1>3 DEF Fits
<1> HIDE DEF u
<1>8. ~u.holds
  BY <1>3
<1>9. Go(r, u)
  BY <1>1 DEF u
<1>10. QED
  BY <1>1, <1>3, <1>4, <1>5, <1>6, <1>7, <1>8, <1>9, Reading

LEMMA StepDeliver == ASSUME IInv, NEW r \in Request, Deliver(r) PROVE IInv'
<1>1. PICK m \in workload.mail : Begin(r, [New EXCEPT !.step = "lookup", !.message = m])
  BY DEF Deliver
<1>2. m \in Message
  BY MessageType DEF IInv
<1>3. /\ [New EXCEPT !.step = "lookup", !.message = m] \in Transaction
      /\ [New EXCEPT !.step = "lookup", !.message = m].step = "lookup"
      /\ [New EXCEPT !.step = "lookup", !.message = m].message = m
      /\ ~[New EXCEPT !.step = "lookup", !.message = m].holds
  BY <1>2 DEF New, Transaction
<1>4. QED
  BY <1>1, <1>3, Beginning

LEMMA StepDecide ==
    ASSUME IInv, NEW r \in Request, NEW op, NEW verdict \in {"approved", "rejected"},
           Decide(r, op, verdict)
    PROVE  IInv'
<1>1. PICK rec \in Record :
          /\ IsDraft(rec)
          /\ Begin(r, [New EXCEPT !.step = "decide", !.record = rec, !.verdict = verdict])
  BY DEF Decide
<1> DEFINE t == [New EXCEPT !.step = "decide", !.record = rec, !.verdict = verdict]
<1>2. /\ t \in Transaction /\ t.step = "decide" /\ t.record = rec /\ t.verdict = verdict
      /\ ~t.holds
  BY DEF New, Transaction
<1>3. Begin(r, t)
  BY <1>1
<1> HIDE DEF t
<1>4. QED
  BY <1>1, <1>2, <1>3, Beginning

LEMMA StepSplit == ASSUME IInv, NEW r \in Request, Split(r) PROVE IInv'
<1>1. PICK rec \in Record : Begin(r, [New EXCEPT !.step = "split", !.record = rec])
  BY DEF Split
<1> DEFINE t == [New EXCEPT !.step = "split", !.record = rec]
<1>2. t \in Transaction /\ t.step = "split" /\ t.record = rec /\ ~t.holds
  BY DEF New, Transaction
<1>3. Begin(r, t)
  BY <1>1
<1> HIDE DEF t
<1>4. QED
  BY <1>2, <1>3, Beginning

LEMMA StepItemize == ASSUME IInv, NEW r \in Request, Itemize(r) PROVE IInv'
<1>1. PICK rec \in Scan : /\ ~Here(rec) /\ \A q \in Request : tx[q].record # rec
                          /\ Begin(r, [New EXCEPT !.step = "itemize", !.record = rec])
  BY DEF Itemize
<1> DEFINE t == [New EXCEPT !.step = "itemize", !.record = rec]
<1>2. t \in Transaction /\ t.step = "itemize" /\ t.record = rec /\ ~t.holds
  BY ScanOrEvent DEF New, Transaction
<1>3. Begin(r, t)
  BY <1>1
<1> HIDE DEF t
<1>4. QED
  BY <1>1, <1>2, <1>3, Beginning

\* The webhook goes on to its next statement.
LEMMA Continuing ==
    ASSUME IInv, NEW r \in Request, NEW t \in Transaction, Go(r, t), Quiet, UNCHANGED told,
           t.step \notin {"decide", "split", "itemize"}, Fits(t),
           t.holds => /\ active /\ ~Here(t.message.event)
                      /\ \A q \in Request \ {r} :
                            tx[q].holds => tx[q].message.event # t.message.event
    PROVE  IInv'
<1>1. /\ clock' \in 0 .. MaxClock /\ failed' \subseteq Message
      /\ told' \subseteq Message \X AnswerSet
      /\ \A p \in told' : p[2] = "created" => made[p[1].event] = 1
  BY DEF IInv, TypeOK, Quiet, ghosts, AnswerSet, EventTakenOnce
<1>2. RetryIsAnswered'
  BY RetrySame DEF IInv, Quiet, ghosts, rows
<1>3. QED
  BY <1>1, <1>2, Reading DEF Quiet, ghosts

LEMMA ToType ==
    ASSUME TypeOK, NEW r \in Request,
           NEW s \in {"user", "receipt", "note"}, NEW h \in BOOLEAN
    PROVE  /\ [tx[r] EXCEPT !.step = s, !.holds = h] \in Transaction
           /\ [tx[r] EXCEPT !.step = s, !.holds = h].step = s
           /\ [tx[r] EXCEPT !.step = s, !.holds = h].holds = h
           /\ [tx[r] EXCEPT !.step = s, !.holds = h].message = tx[r].message
           /\ [tx[r] EXCEPT !.step = s] \in Transaction
           /\ [tx[r] EXCEPT !.step = s].step = s
           /\ [tx[r] EXCEPT !.step = s].holds = tx[r].holds
           /\ [tx[r] EXCEPT !.step = s].message = tx[r].message
<1>1. tx[r] \in Transaction
  BY DEF TypeOK
<1>2. QED
  BY <1>1 DEF Transaction

LEMMA StepLookUp == ASSUME IInv, NEW r \in Request, LookUp(r) PROVE IInv'
<1> DEFINE m == tx[r].message
           Known == {n \in events : n.key = m.key}
<1>1. /\ m \in workload.mail /\ m \in Message /\ m.parsed \in BOOLEAN /\ m.event \in Event
      /\ ~tx[r].holds
  BY MessageType DEF LookUp, IInv, TxInv, Fits
<1>2. CASE Known = {}
  <2>1. /\ To(r, IF m.parsed THEN "user" ELSE "note") /\ UNCHANGED told /\ Quiet
    BY <1>2 DEF LookUp
  <2>2. CASE m.parsed
    <3>1. Go(r, [tx[r] EXCEPT !.step = "user"])
      BY <2>1, <2>2 DEF To
    <3>2. Fits([tx[r] EXCEPT !.step = "user"])
      BY <1>1, <2>2, ToType DEF IInv, Fits
    <3>3. QED
      BY <1>1, <2>1, <3>1, <3>2, ToType, Continuing DEF IInv
  <2>3. CASE ~m.parsed
    <3>1. Go(r, [tx[r] EXCEPT !.step = "note"])
      BY <2>1, <2>3 DEF To
    <3>2. Fits([tx[r] EXCEPT !.step = "note"])
      BY <1>1, <2>3, ToType DEF IInv, Fits
    <3>3. QED
      BY <1>1, <2>1, <3>1, <3>2, ToType, Continuing DEF IInv
  <2>4. QED
    BY <2>2, <2>3
<1>3. CASE Known # {}
  <2>1. /\ Go(r, Done) /\ Quiet
        /\ Respond(m, IF m \in Known THEN Success(m) ELSE "conflict")
    BY <1>3 DEF LookUp
  <2>2. m \in Known /\ m.parsed => made[m.event] = 1
    BY DEF IInv, EventInv
  <2>3. CASE m \in Known
    <3>1. Respond(m, Success(m))
      BY <2>1, <2>3
    <3>2. Success(m) \in AnswerSet /\ (Success(m) = "created" => made[m.event] = 1)
      BY <2>2, <2>3 DEF Success, AnswerSet
    <3>3. QED
      BY <1>1, <2>1, <3>1, <3>2, RespondEffect, Ending
  <2>4. CASE m \notin Known
    <3>1. Respond(m, "conflict") /\ "conflict" \in AnswerSet
      BY <2>1, <2>4 DEF AnswerSet
    <3>2. QED
      BY <1>1, <2>1, <3>1, RespondEffect, Ending
  <2>5. QED
    BY <2>3, <2>4
<1>4. QED
  BY <1>2, <1>3

LEMMA StepFindUser == ASSUME IInv, NEW r \in Request, FindUser(r) PROVE IInv'
<1>1. tx[r].message \in workload.mail /\ tx[r].message \in Message /\ tx[r].message.parsed
      /\ ~tx[r].holds
  BY MessageType DEF FindUser, IInv, TxInv, Fits
<1>2. CASE active
  <2> DEFINE t == [tx[r] EXCEPT !.step = "receipt"]
  <2>1. Go(r, t) /\ UNCHANGED told /\ Quiet
    BY <1>2 DEF FindUser, To
  <2>2. t \in Transaction /\ t.step = "receipt" /\ t.holds = tx[r].holds /\ t.message = tx[r].message
    BY ToType DEF IInv
  <2> HIDE DEF t
  <2>3. Fits(t)
    BY <1>1, <2>2 DEF Fits
  <2>4. QED
    BY <1>1, <2>1, <2>2, <2>3, Continuing
<1>3. CASE ~active
  <2>1. Go(r, Done) /\ Respond(tx[r].message, "refused") /\ Quiet /\ "refused" \in AnswerSet
    BY <1>3 DEF FindUser, AnswerSet
  <2>2. QED
    BY <1>1, <2>1, RespondEffect, Ending
<1>4. QED
  BY <1>2, <1>3

LEMMA StepInsertReceipt == ASSUME IInv, NEW r \in Request, InsertReceipt(r) PROVE IInv'
<1>1. tx[r].message \in workload.mail /\ tx[r].message.parsed
  BY DEF InsertReceipt, IInv, TxInv, Fits
<1>2. CASE Fail(r)
  BY <1>2, StepFail
<1>3. CASE FailDuplicate(r) /\ IsDuplicate(tx[r].message.event)
  BY <1>1, <1>3, StepDuplicate DEF IsDuplicate
<1>4. CASE /\ active /\ ~IsDuplicate(tx[r].message.event)
           /\ Go(r, [tx[r] EXCEPT !.step = "note", !.holds = TRUE]) /\ Quiet /\ UNCHANGED told
  <2> DEFINE t == [tx[r] EXCEPT !.step = "note", !.holds = TRUE]
  <2>1. Go(r, t)
    BY <1>4
  <2>2. t \in Transaction /\ t.step = "note" /\ t.holds /\ t.message = tx[r].message
    BY ToType DEF IInv
  <2>3. \A q \in Request \ {r} : tx[q].holds => tx[q].message.event # tx[r].message.event
    BY DEF InsertReceipt, Held
  <2> HIDE DEF t
  <2>4. Fits(t)
    BY <1>1, <2>2 DEF Fits
  <2>5. QED
    BY <1>4, <2>1, <2>2, <2>3, <2>4, Continuing DEF IsDuplicate
<1>5. QED
  BY <1>2, <1>3, <1>4 DEF InsertReceipt

-----------------------------------------------------------------------------
(* Steps that write rows.                                                  *)

\* What holds of the transactions after r has ended.
LEMMA Ended ==
    ASSUME IInv, NEW r \in Request, Go(r, Done), UNCHANGED workload
    PROVE  /\ tx' \in [Request -> Transaction] /\ TxInv'
           /\ tx'[r].step = "done" /\ ~tx'[r].holds
           /\ \A q \in Request : q # r => tx'[q] = tx[q]
  BY NewType, GoEffect DEF IInv, TxInv, Fits

\* The row of one receipt changes, and with it what is held against it.
LEMMA OneRow ==
    ASSUME TypeOK, NEW rec \in Record, NEW row \in Row,
           receipts' = [receipts EXCEPT ![rec] = row]
    PROVE  /\ receipts' \in [Record -> Row]
           /\ receipts'[rec] = row
           /\ \A x \in Record : x # rec => receipts'[x] = receipts[x]
  BY DEF TypeOK

LEMMA StepNoteEvent == ASSUME IInv, NEW r \in Request, NoteEvent(r) PROVE IInv'
<1> DEFINE m == tx[r].message
           e == m.event
<1>1. /\ m \in workload.mail /\ m \in Message /\ m.parsed \in BOOLEAN /\ e \in Event
      /\ e \in Record /\ e \notin Scan
      /\ tx[r].holds => m.parsed
      /\ m.parsed => tx[r].holds
  BY MessageType, ScanOrEvent DEF NoteEvent, IInv, TxInv, Fits
<1>2. CASE KeyTaken(m.key)
  <2>1. FailDuplicate(r)
    BY <1>2 DEF NoteEvent
  <2>2. QED
    BY <1>1, <1>2, <2>1, StepDuplicate
<1>3. CASE ~KeyTaken(m.key)
  <2>1. /\ events' = events \union {m}
        /\ Go(r, Done)
        /\ Respond(m, Success(m))
        /\ UNCHANGED <<active, clock, failed, decisions, raced, cursor, view, behind, workload>>
    BY <1>3 DEF NoteEvent, device
  <2>2. /\ tx' \in [Request -> Transaction] /\ TxInv'
        /\ tx'[r].step = "done" /\ ~tx'[r].holds
        /\ \A q \in Request : q # r => tx'[q] = tx[q]
    BY <2>1, Ended
  <2>3. CASE tx[r].holds
    <3> DEFINE row == Draft(tx[r])
    <3>1. receipts' = [receipts EXCEPT ![e] = row] /\ made' = [made EXCEPT ![e] = @ + 1]
      BY <1>3, <2>3 DEF NoteEvent
    <3>2. row \in Row /\ row.state = "draft" /\ ~row.linked
      BY DEF Draft, Row, IInv, TypeOK, Transaction
    <3> HIDE DEF row
    <3>3. /\ receipts' \in [Record -> Row]
          /\ receipts'[e] = row
          /\ \A x \in Record : x # e => receipts'[x] = receipts[x]
      BY <1>1, <3>1, <3>2, OneRow DEF IInv
    <3>4. active /\ ~Here(e) /\ made[e] = 0 /\ m.parsed
      BY <1>1, <2>3 DEF IInv, HoldInv, EventInv
    <3>5. /\ made' \in [Event -> Nat] /\ made'[e] = 1
          /\ \A x \in Event : x # e => made'[x] = made[x]
      BY <1>1, <3>1, <3>4 DEF IInv, TypeOK
    <3>6. /\ told' \subseteq Message \X AnswerSet
          /\ \A p \in told' : p[2] = "created" => made'[p[1].event] = 1
      <4>1. told' \subseteq told \union {<<m, "created">>}
        BY <2>1, <3>4 DEF Respond, Success
      <4>2. told \subseteq Message \X AnswerSet
        BY DEF IInv, TypeOK, AnswerSet
      <4>3. \A p \in told : p[2] = "created" => made[p[1].event] = 1
        BY DEF IInv, EventTakenOnce
      <4>4. \A n \in Message : n.event \in Event
        BY ReceiptsAssumption DEF Envelope
      <4>5. QED
        BY <1>1, <3>4, <3>5, <4>1, <4>2, <4>3, <4>4 DEF AnswerSet
    <3>7. TypeOK'
      BY <1>1, <2>1, <2>2, <3>3, <3>5, <3>6 DEF IInv, TypeOK, AnswerSet
    <3>8. HoldInv'
      <4>1. SUFFICES ASSUME NEW q \in Request, tx'[q].holds
                     PROVE  /\ active'
                            /\ ~Here(tx[q].message.event)'
                            /\ \A p \in Request \ {q} :
                                  tx'[p].holds => tx'[p].message.event # tx'[q].message.event
        BY DEF HoldInv
      <4>2. q # r /\ tx'[q] = tx[q] /\ tx[q].holds
        BY <2>2, <4>1
      <4>3. tx[q].message.event # e /\ ~Here(tx[q].message.event)
        BY <2>3, <4>2 DEF IInv, HoldInv
      <4>4. tx[q].message.event \in Record
        BY <4>2, MessageType DEF IInv, TxInv, Fits
      <4>5. \A p \in Request \ {q} : tx'[p].holds => tx[p].holds /\ tx'[p] = tx[p]
        BY <2>2
      <4>6. QED
        BY <2>1, <3>3, <3>4, <4>2, <4>3, <4>4, <4>5 DEF IInv, HoldInv, Here
    <3>9. ItemizeInv'
      <4>1. \A q \in Request : tx'[q].step = "itemize" =>
                tx'[q] = tx[q] /\ tx[q].record \in Scan /\ ~Here(tx[q].record)
        BY <2>2 DEF IInv, ItemizeInv, TxInv, Fits
      <4>2. \A x \in Scan : Here(x)' <=> Here(x)
        BY <1>1, <3>3, ScanOrEvent DEF Here
      <4>3. \A q \in Request : tx'[q].step = "itemize" =>
                \A p \in Request \ {q} :
                    tx'[p].step = "itemize" => tx'[p].record # tx'[q].record
        BY <4>1 DEF IInv, ItemizeInv
      <4>4. QED
        BY <4>1, <4>2, <4>3 DEF ItemizeInv, Here
    <3>10. LateInv'
      BY <2>1, <2>2, <3>2, <3>3 DEF IInv, LateInv, IsDraft, TxInv, Fits
    <3>11. ClosedInv' /\ ScanInv'
      BY <1>1, <2>1, <3>3, <3>4, ScanOrEvent DEF IInv, ClosedInv, ScanInv, Here
    <3>12. EventInv'
      <4>1. events' \subseteq workload'.mail
        BY <1>1, <2>1 DEF IInv, EventInv
      <4>2. \A x \in Event : Here(x)' => \E n \in events' : n.event = x
        BY <1>1, <2>1, <3>3, ScanOrEvent DEF IInv, EventInv, Here
      <4>3. \A x \in Event : active' /\ made'[x] # 0 => Here(x)'
        BY <1>1, <2>1, <3>2, <3>3, <3>5, ScanOrEvent DEF IInv, EventInv, Here
      <4>4. \A n \in events : n.event \in Event
        BY MessageType DEF IInv, EventInv
      <4>5. \A n \in events' : n.parsed => made'[n.event] = 1
        BY <1>1, <2>1, <3>5, <4>4 DEF IInv, EventInv
      <4>6. QED
        BY <4>1, <4>2, <4>3, <4>5 DEF EventInv
    <3>13. EventTakenOnce'
      BY <1>1, <1>3, <2>1, <3>5, <3>6 DEF IInv, EventTakenOnce, KeyTaken
    <3>14. RetryIsAnswered'
      BY <2>1 DEF IInv, RetryIsAnswered
    <3>15. DecisionIsFinal'
      BY <1>1, <2>1, <3>3, <3>4 DEF IInv, DecisionIsFinal, Here, TypeOK
    <3>16. GroupReceiptsStayOut'
      BY <2>1 DEF IInv, GroupReceiptsStayOut
    <3>17. OnlyOvertakenIsSkipped'
      BY <1>1, <2>1, <3>2, <3>3 DEF IInv, OnlyOvertakenIsSkipped, Passed, Personal, After, At
    <3>18. QED
      BY <2>2, <3>7, <3>8, <3>9, <3>10, <3>11, <3>12, <3>13, <3>14, <3>15, <3>16, <3>17 DEF IInv
  <2>4. CASE ~tx[r].holds
    <3>1. UNCHANGED <<receipts, made>> /\ ~m.parsed
      BY <1>1, <1>3, <2>4 DEF NoteEvent
    <3>2. /\ told' \subseteq Message \X AnswerSet
          /\ \A p \in told' : p[2] = "created" => made[p[1].event] = 1
      BY <1>1, <2>1, <3>1, RespondEffect DEF Success, AnswerSet
    <3>3. TypeOK'
      BY <1>1, <2>1, <2>2, <3>1, <3>2 DEF IInv, TypeOK, AnswerSet
    <3>4. HoldInv' /\ ItemizeInv' /\ LateInv'
      BY <2>1, <2>2, <3>1 DEF IInv, HoldInv, ItemizeInv, LateInv, Here, IsDraft
    <3>5. ClosedInv' /\ ScanInv' /\ GroupReceiptsStayOut' /\ DecisionIsFinal'
      BY <2>1, <3>1 DEF IInv, ClosedInv, ScanInv, GroupReceiptsStayOut, DecisionIsFinal, Here
    <3>6. EventInv'
      BY <1>1, <2>1, <3>1 DEF IInv, EventInv, Here
    <3>7. EventTakenOnce'
      BY <1>1, <1>3, <2>1, <3>1, <3>2 DEF IInv, EventTakenOnce, KeyTaken
    <3>8. RetryIsAnswered' /\ OnlyOvertakenIsSkipped'
      BY <2>1, <3>1 DEF IInv, RetryIsAnswered, OnlyOvertakenIsSkipped, Passed, After
    <3>9. QED
      BY <2>2, <3>3, <3>4, <3>5, <3>6, <3>7, <3>8 DEF IInv
  <2>5. QED
    BY <2>3, <2>4
<1>4. QED
  BY <1>2, <1>3

\* A receipt comes to be one of an expense.
LEMMA Linking ==
    ASSUME IInv, active, NEW r \in Request, Go(r, Done),
           NEW rec \in Record, NEW row \in Row, row.linked, row.state # "none",
           Here(rec) \/ rec \in Scan,
           Here(rec) => row.state = receipts[rec].state,
           \A q \in Request \ {r} : tx[q].step = "itemize" => tx[q].record # rec,
           receipts' = [receipts EXCEPT ![rec] = row],
           behind' = behind \/ behind' = behind \ {rec},
           UNCHANGED <<active, events, clock, told, ghosts, cursor, view, workload>>
    PROVE  IInv'
<1>1. UNCHANGED <<active, events, clock, told, failed, made, decisions, raced, cursor, view,
                  workload>>
  BY DEF ghosts
<1>2. /\ tx' \in [Request -> Transaction] /\ TxInv'
      /\ tx'[r].step = "done" /\ ~tx'[r].holds
      /\ \A q \in Request : q # r => tx'[q] = tx[q]
  BY <1>1, Ended
<1>3. /\ receipts' \in [Record -> Row]
      /\ receipts'[rec] = row
      /\ \A x \in Record : x # rec => receipts'[x] = receipts[x]
  BY OneRow DEF IInv
<1>4. /\ \A x \in Record : Here(x)' <=> Here(x) \/ x = rec
      /\ \A x \in Event : Here(x)' <=> Here(x)
  BY <1>3, ScanOrEvent DEF Here
<1>5. TypeOK'
  BY <1>1, <1>2, <1>3 DEF IInv, TypeOK
<1>6. HoldInv'
  <2>1. \A q \in Request : tx'[q].holds =>
            tx'[q] = tx[q] /\ tx[q].holds /\ tx[q].message.event \in Event
    BY <1>2, MessageType DEF IInv, TxInv, Fits
  <2>2. \A q \in Request : tx'[q].holds => receipts'[tx'[q].message.event].state = "none"
    <3>1. \A q \in Request : tx[q].holds => ~Here(tx[q].message.event)
      BY DEF IInv, HoldInv
    <3>2. \A x \in Event : ~Here(x) => receipts'[x].state = "none"
      BY <1>4 DEF Here
    <3>3. QED
      BY <2>1, <3>1, <3>2
  <2>3. \A q \in Request : tx'[q].holds =>
            \A p \in Request \ {q} :
                tx'[p].holds => tx'[p].message.event # tx'[q].message.event
    BY <2>1 DEF IInv, HoldInv
  <2>4. QED
    BY <1>1, <2>2, <2>3 DEF HoldInv, Here
<1>7. ItemizeInv'
  <2>1. \A q \in Request : tx'[q].step = "itemize" =>
            tx'[q] = tx[q] /\ tx[q].record \in Record /\ tx[q].record # rec
            /\ ~Here(tx[q].record)
    BY <1>2, ScanOrEvent DEF IInv, ItemizeInv, TxInv, Fits
  <2>2. \A q \in Request : tx'[q].step = "itemize" => receipts'[tx'[q].record].state = "none"
    BY <1>3, <2>1 DEF Here
  <2>3. \A q \in Request : tx'[q].step = "itemize" =>
            \A p \in Request \ {q} :
                tx'[p].step = "itemize" => tx'[p].record # tx'[q].record
    BY <2>1 DEF IInv, ItemizeInv
  <2>4. QED
    BY <2>2, <2>3 DEF ItemizeInv, Here
<1>8. LateInv'
  <2>1. \A x \in Record : IsDraft(x) => receipts'[x].state = "draft"
    BY <1>3 DEF IsDraft, Here
  <2>2. \A q \in Request : tx'[q].step = "decide" =>
            tx'[q] = tx[q] /\ tx[q].record \in Record
    BY <1>2 DEF IInv, TxInv, Fits
  <2>3. QED
    BY <1>1, <2>1, <2>2 DEF IInv, LateInv, IsDraft
<1>9. ClosedInv' /\ ScanInv'
  BY <1>1, <1>3, <1>4, ScanOrEvent DEF IInv, ClosedInv, ScanInv, Here
<1>10. EventInv'
  BY <1>1, <1>4 DEF IInv, EventInv, Here
<1>11. EventTakenOnce' /\ RetryIsAnswered' /\ GroupReceiptsStayOut'
  BY <1>1 DEF IInv, EventTakenOnce, RetryIsAnswered, GroupReceiptsStayOut
<1>12. DecisionIsFinal'
  <2>1. ASSUME NEW d \in decisions, d[1] \notin raced
        PROVE  receipts'[d[1]].state = d[2]
    <3>1. d[1] \in Record /\ d[2] \in {"approved", "rejected"}
      BY DEF IInv, TypeOK
    <3>2. receipts[d[1]].state = d[2]
      BY <2>1 DEF IInv, DecisionIsFinal
    <3>3. CASE d[1] = rec
      BY <1>3, <3>1, <3>2, <3>3 DEF Here
    <3>4. QED
      BY <1>3, <3>1, <3>2, <3>3
  <2>2. QED
    BY <1>1, <2>1 DEF DecisionIsFinal
<1>13. OnlyOvertakenIsSkipped'
  <2>1. SUFFICES ASSUME NEW x \in Record, x \notin behind', Passed(x, receipts[x])'
                 PROVE  view'[x] = receipts'[x]
    BY DEF OnlyOvertakenIsSkipped, Passed, Personal, After, At
  <2>2. x # rec
    BY <1>3, <2>1 DEF Passed, Personal
  <2>3. Passed(x, receipts[x]) /\ x \notin behind
    BY <1>1, <1>3, <2>1, <2>2 DEF Passed, Personal, After, At
  <2>4. QED
    BY <1>1, <1>3, <2>2, <2>3 DEF IInv, OnlyOvertakenIsSkipped
<1>14. QED
  BY <1>2, <1>5, <1>6, <1>7, <1>8, <1>9, <1>10, <1>11, <1>12, <1>13 DEF IInv

\* Only an open account has receipts.
LEMMA HereIsActive ==
    ASSUME IInv, NEW rec \in Record, Here(rec)
    PROVE  active
  BY DEF IInv, ClosedInv, Here, NoRow

LEMMA StepCommitSplit == ASSUME IInv, NEW r \in Request, CommitSplit(r) PROVE IInv'
<1> DEFINE rec == tx[r].record
           row == [receipts[rec] EXCEPT !.linked = TRUE]
<1>1. rec \in Record
  BY DEF CommitSplit, IInv, TxInv, Fits
<1>2. CASE Here(rec)
  <2>1. /\ receipts' = [receipts EXCEPT ![rec].linked = TRUE] /\ Go(r, Done)
        /\ UNCHANGED <<active, events, clock, told, ghosts, cursor, view, workload>>
        /\ behind' = behind \ {rec}
    BY <1>2 DEF CommitSplit, Link
  <2>2. receipts[rec] \in Row
    BY <1>1 DEF IInv, TypeOK
  <2>3. row \in Row /\ row.linked /\ row.state = receipts[rec].state
    BY <2>2 DEF Row
  <2>4. receipts' = [receipts EXCEPT ![rec] = row]
    BY <2>1
  <2>5. active
    BY <1>1, <1>2, HereIsActive
  <2>6. \A q \in Request \ {r} : tx[q].step = "itemize" => tx[q].record # rec
    BY <1>2 DEF IInv, ItemizeInv
  <2>7. row.state # "none"
    BY <1>2, <2>3 DEF Here
  <2> HIDE DEF rec, row
  <2>8. /\ Here(rec) \/ rec \in Scan
        /\ Here(rec) => row.state = receipts[rec].state
        /\ behind' = behind \/ behind' = behind \ {rec}
    BY <1>2, <2>1, <2>3
  <2>9. Go(r, Done) /\ UNCHANGED <<active, events, clock, told, ghosts, cursor, view, workload>>
    BY <2>1
  <2>10. QED
    BY <1>1, <2>3, <2>4, <2>5, <2>6, <2>7, <2>8, <2>9, Linking
<1>3. CASE ~Here(rec)
  BY <1>3, StepFail DEF CommitSplit
<1>4. QED
  BY <1>2, <1>3

LEMMA StepCommitItemized == ASSUME IInv, NEW r \in Request, CommitItemized(r) PROVE IInv'
<1>1. CASE ~active
  BY <1>1, StepFail DEF CommitItemized
<1>2. CASE active
  <2> DEFINE rec == tx[r].record
             row == Scanned(tx[r], TRUE)
  <2>1. /\ receipts' = [receipts EXCEPT ![rec] = row] /\ Go(r, Done)
        /\ UNCHANGED <<active, events, clock, told, ghosts, cursor, view, workload>>
        /\ behind' = behind
    BY <1>2 DEF CommitItemized, device
  <2>2. row \in Row /\ row.linked /\ row.state = "approved"
    BY DEF Scanned, Row, IInv, TypeOK, Transaction
  <2>3. rec \in Scan /\ rec \in Record /\ ~Here(rec)
        /\ \A q \in Request \ {r} : tx[q].step = "itemize" => tx[q].record # rec
    BY ScanOrEvent DEF CommitItemized, IInv, ItemizeInv, TxInv, Fits
  <2> HIDE DEF rec, row
  <2>4. QED
    BY <1>2, <2>1, <2>2, <2>3, Linking
<1>3. QED
  BY <1>1, <1>2

\* The receipt is decided; whoever had seen the same draft is late.
LEMMA StepCommitDecision == ASSUME IInv, NEW r \in Request, CommitDecision(r) PROVE IInv'
<1> DEFINE t == tx[r]
           rec == t.record
           row == [receipts[rec] EXCEPT !.state = t.verdict, !.at = t.start]
<1>1. /\ t \in Transaction /\ t.step = "decide" /\ rec \in Record
      /\ t.verdict \in {"approved", "rejected"} /\ t.start \in Nat /\ receipts[rec] \in Row
  BY DEF CommitDecision, IInv, TypeOK, TxInv, Fits, Transaction
<1>2. CASE ~Here(rec)
  BY <1>2, StepFail DEF CommitDecision
<1>3. CASE Here(rec)
  <2>1. /\ receipts' = [receipts EXCEPT ![rec] = row]
        /\ decisions' = decisions \union {<<rec, t.verdict>>}
        /\ raced' = IF t.late THEN raced \union {rec} ELSE raced
        /\ behind' = IF Passed(rec, row) THEN behind \union {rec} ELSE behind \ {rec}
        /\ tx' = [q \in Request |->
              IF q = r THEN Done
              ELSE [tx[q] EXCEPT !.late = @ \/ (tx[q].step = "decide" /\ tx[q].record = rec)]]
        /\ UNCHANGED <<active, events, clock, told, failed, made, cursor, view, workload>>
    BY <1>3 DEF CommitDecision
  <2>2. row \in Row /\ row.state = t.verdict /\ row.linked = receipts[rec].linked
    BY <1>1 DEF Row
  <2> HIDE DEF row
  <2>3. /\ receipts' \in [Record -> Row]
        /\ receipts'[rec] = row
        /\ \A x \in Record : x # rec => receipts'[x] = receipts[x]
    BY <1>1, <2>1, <2>2, OneRow DEF IInv
  <2>4. active
    BY <1>1, <1>3, HereIsActive
  <2>5. tx'[r] = Done /\ tx'[r].step = "done" /\ ~tx'[r].holds /\ Done \in Transaction
    BY <2>1, NewType
  <2>6. ASSUME NEW q \in Request, q # r
        PROVE  /\ tx'[q] \in Transaction
               /\ tx'[q].step = tx[q].step /\ tx'[q].message = tx[q].message
               /\ tx'[q].record = tx[q].record /\ tx'[q].verdict = tx[q].verdict
               /\ tx'[q].holds = tx[q].holds
               /\ ~tx'[q].late => ~tx[q].late /\ ~(tx[q].step = "decide" /\ tx[q].record = rec)
    <3>1. tx[q] \in Transaction
      BY DEF IInv, TypeOK
    <3>2. tx'[q] = [tx[q] EXCEPT !.late = tx[q].late \/ (tx[q].step = "decide" /\ tx[q].record = rec)]
      BY <2>1, <2>6
    <3>3. QED
      BY <3>1, <3>2 DEF Transaction
  <2>7. tx' \in [Request -> Transaction]
    <3>1. DOMAIN tx' = Request /\ tx' = [q \in Request |-> tx'[q]]
      BY <2>1
    <3>2. \A q \in Request : tx'[q] \in Transaction
      BY <2>5, <2>6
    <3>3. QED
      BY <3>1, <3>2
  <2> HIDE DEF t, rec
  <2>8. TypeOK'
    BY <1>1, <2>1, <2>3, <2>7 DEF IInv, TypeOK
  <2>9. TxInv'
    BY <2>1, <2>5, <2>6 DEF IInv, TxInv, Fits
  <2>10. \A x \in Record : (receipts'[x].state = "none") <=> ~Here(x)
    BY <1>1, <1>3, <2>2, <2>3 DEF Here
  <2>11. HoldInv'
    <3>1. \A q \in Request : tx'[q].holds =>
              /\ tx[q].holds /\ tx'[q].message = tx[q].message
              /\ tx[q].message.event \in Record
      BY <2>5, <2>6, MessageType DEF IInv, TxInv, Fits
    <3>2. QED
      BY <2>1, <2>10, <3>1 DEF IInv, HoldInv, Here
  <2>12. ItemizeInv'
    <3>1. \A q \in Request : tx'[q].step = "itemize" =>
              /\ tx[q].step = "itemize" /\ tx'[q].record = tx[q].record
              /\ tx[q].record \in Record
      BY <2>5, <2>6, ScanOrEvent DEF IInv, TxInv, Fits
    <3>2. QED
      BY <2>10, <3>1 DEF IInv, ItemizeInv, Here
  <2>13. LateInv'
    <3>1. \A q \in Request : tx'[q].step = "decide" /\ ~tx'[q].late =>
              /\ tx[q].step = "decide" /\ ~tx[q].late /\ tx'[q].record = tx[q].record
              /\ tx[q].record \in Record /\ tx[q].record # rec
      BY <2>5, <2>6 DEF IInv, TxInv, Fits
    <3>2. QED
      BY <2>1, <2>3, <3>1 DEF IInv, LateInv, IsDraft
  <2>14. ClosedInv'
    BY <2>1, <2>4 DEF ClosedInv
  <2>15. EventInv'
    BY <2>1, <2>10, ScanOrEvent DEF IInv, EventInv, Here
  <2>16. ScanInv'
    BY <1>3, <2>2, <2>3, ScanOrEvent DEF IInv, ScanInv, Here
  <2>17. EventTakenOnce' /\ RetryIsAnswered' /\ GroupReceiptsStayOut'
    BY <2>1 DEF IInv, EventTakenOnce, RetryIsAnswered, GroupReceiptsStayOut
  <2>18. DecisionIsFinal'
    <3>1. ASSUME NEW d \in decisions', d[1] \notin raced'
          PROVE  receipts'[d[1]].state = d[2]
      <4>1. d \in Record \X {"approved", "rejected"}
        BY <2>8 DEF TypeOK
      <4>2. CASE d = <<rec, t.verdict>>
        BY <2>2, <2>3, <4>2
      <4>3. CASE d \in decisions
        <5>1. d[1] \notin raced
          BY <2>1, <3>1
        <5>2. receipts[d[1]].state = d[2]
          BY <2>4, <4>3, <5>1 DEF IInv, DecisionIsFinal
        <5>3. d[1] # rec
          <6>1. SUFFICES ASSUME d[1] = rec PROVE FALSE
            OBVIOUS
          <6>2. ~t.late
            BY <2>1, <3>1, <6>1
          <6>3. IsDraft(rec)
            BY <1>1, <2>4, <6>2 DEF IInv, LateInv, t, rec
          <6>4. QED
            BY <4>1, <5>2, <6>1, <6>3 DEF IsDraft
        <5>4. QED
          BY <2>3, <4>1, <5>2, <5>3
      <4>4. QED
        BY <2>1, <4>2, <4>3
    <3>2. QED
      BY <2>1, <2>4, <3>1 DEF DecisionIsFinal
  <2>19. OnlyOvertakenIsSkipped'
    <3>1. SUFFICES ASSUME NEW x \in Record, x \notin behind', Passed(x, receipts[x])'
                   PROVE  view'[x] = receipts'[x]
      BY DEF OnlyOvertakenIsSkipped, Passed, Personal, After, At
    <3>2. x # rec
      BY <2>1, <2>3, <3>1 DEF Passed, Personal, After, At
    <3>3. Passed(x, receipts[x]) /\ x \notin behind
      BY <2>1, <2>3, <3>1, <3>2 DEF Passed, Personal, After, At
    <3>4. QED
      BY <2>1, <2>3, <3>2, <3>3 DEF IInv, OnlyOvertakenIsSkipped
  <2>20. QED
    BY <2>8, <2>9, <2>11, <2>12, <2>13, <2>14, <2>15, <2>16, <2>17, <2>18, <2>19 DEF IInv
<1>4. QED
  BY <1>2, <1>3

\* With the account its receipts go, and the device forgets them.
LEMMA StepClose == ASSUME IInv, Close PROVE IInv'
<1>1. /\ ~active' /\ receipts' = NoRows /\ view' = NoRows /\ behind' = {}
      /\ UNCHANGED <<events, clock, tx, told, failed, made, decisions, raced, cursor, workload>>
      /\ active' = FALSE
      /\ \A q \in Request : ~tx[q].holds
  BY DEF Close, ghosts
<1>2. /\ receipts' \in [Record -> Row] /\ view' \in [Record -> Row]
      /\ \A x \in Record : receipts'[x] = NoRow /\ view'[x] = NoRow
  BY <1>1, NoRowType DEF NoRows
<1>3. TypeOK'
  BY <1>1, <1>2 DEF IInv, TypeOK
<1>4. TxInv' /\ HoldInv' /\ LateInv'
  BY <1>1 DEF IInv, TxInv, Fits, HoldInv, LateInv
<1>5. ItemizeInv'
  <2>1. \A q \in Request : tx[q].step = "itemize" => tx[q].record \in Record
    BY ScanOrEvent DEF IInv, TxInv, Fits
  <2>2. QED
    BY <1>1, <1>2, <2>1, NoRowType DEF IInv, ItemizeInv, Here
<1>6. ClosedInv' /\ EventInv' /\ ScanInv' /\ GroupReceiptsStayOut'
  BY <1>1, <1>2, NoRowType, ScanOrEvent
     DEF IInv, ClosedInv, EventInv, ScanInv, GroupReceiptsStayOut, Here
<1>7. EventTakenOnce' /\ RetryIsAnswered'
  BY <1>1 DEF IInv, EventTakenOnce, RetryIsAnswered
<1>8. DecisionIsFinal'
  <2>1. \A d \in decisions : d[1] \in Record
    BY DEF IInv, TypeOK
  <2>2. QED
    BY <1>1, <1>2, <2>1, NoRowType DEF DecisionIsFinal
<1>9. OnlyOvertakenIsSkipped'
  BY <1>1, <1>2, NoRowType DEF OnlyOvertakenIsSkipped, Passed, Personal
<1>10. QED
  BY <1>3, <1>4, <1>5, <1>6, <1>7, <1>8, <1>9 DEF IInv

\* A page has every change up to its last row.
LEMMA StepPull == ASSUME IInv, Pull PROVE IInv'
<1>1. PICK last \in Changes :
          /\ cursor' = At(last, receipts[last])
          /\ view' = [rec \in Record |-> IF rec \in Page(last) THEN receipts[rec] ELSE view[rec]]
  BY DEF Pull
<1>2. UNCHANGED <<active, receipts, events, clock, tx, told, failed, made, decisions, raced,
                  behind, workload>>
  BY DEF Pull, rows, ghosts
<1>3. last \in Record /\ last \in Nat /\ receipts[last] \in Row /\ Page(last) \subseteq Changes
  BY ScanOrEvent DEF Changes, Page, IInv, TypeOK
<1>4. cursor' \in [at: Int, id: Int]
  BY <1>1, <1>3 DEF At, Row
<1>5. TypeOK'
  BY <1>1, <1>2, <1>4 DEF IInv, TypeOK
<1>6. GroupReceiptsStayOut'
  <2>1. \A rec \in Scan : rec \notin Changes
    BY ScanOrEvent DEF Changes, Personal, IInv, ScanInv, Here
  <2>2. QED
    BY <1>1, <1>3, <2>1, ScanOrEvent DEF IInv, GroupReceiptsStayOut
<1>7. OnlyOvertakenIsSkipped'
  <2>1. SUFFICES ASSUME NEW x \in Record, x \notin behind,
                        Personal(receipts[x]), ~After(At(x, receipts[x]), cursor')
                 PROVE  view'[x] = receipts[x]
    BY <1>2 DEF OnlyOvertakenIsSkipped, Passed, Personal, After, At
  <2>2. CASE x \in Page(last)
    BY <1>1, <2>2
  <2>3. CASE x \notin Page(last)
    <3>1. x \notin Changes
      BY <1>1, <2>1, <2>3 DEF Page, Before, After
    <3>2. Passed(x, receipts[x])
      BY <2>1, <3>1 DEF Changes, Passed
    <3>3. QED
      BY <1>1, <2>1, <2>3, <3>2 DEF IInv, OnlyOvertakenIsSkipped
  <2>4. QED
    BY <2>2, <2>3
<1>8. /\ TxInv' /\ HoldInv' /\ ItemizeInv' /\ LateInv' /\ ClosedInv' /\ EventInv' /\ ScanInv'
      /\ EventTakenOnce' /\ RetryIsAnswered' /\ DecisionIsFinal'
  BY <1>2 DEF IInv, TxInv, Fits, HoldInv, ItemizeInv, LateInv, ClosedInv, EventInv, ScanInv,
              EventTakenOnce, RetryIsAnswered, DecisionIsFinal, Here, IsDraft
<1>9. QED
  BY <1>5, <1>6, <1>7, <1>8 DEF IInv

-----------------------------------------------------------------------------

LEMMA InitIInv == ASSUME Init PROVE IInv
<1>1. TypeOK
  <2>1. tx \in [Request -> Transaction]
    BY NewType DEF Init
  <2>2. receipts \in [Record -> Row] /\ view \in [Record -> Row]
    BY NoRowType DEF Init, NoRows
  <2>3. workload \in [mail: SUBSET Message, ops: SUBSET Operation]
    BY ReceiptsAssumption DEF Init
  <2>4. cursor \in [at: Int, id: Int]
    BY DEF Init, Start
  <2>5. QED
    BY <2>1, <2>2, <2>3, <2>4, ReceiptsAssumption DEF Init, TypeOK
<1>2. TxInv /\ HoldInv /\ ItemizeInv /\ LateInv
  BY NewType DEF Init, TxInv, Fits, HoldInv, ItemizeInv, LateInv
<1>3. \A x \in Record : receipts[x] = NoRow /\ view[x] = NoRow
  BY DEF Init, NoRows
<1>4. ClosedInv /\ EventInv /\ ScanInv /\ GroupReceiptsStayOut /\ OnlyOvertakenIsSkipped
  BY <1>3, NoRowType, ScanOrEvent DEF Init, ClosedInv, EventInv, ScanInv,
     GroupReceiptsStayOut, OnlyOvertakenIsSkipped, Passed, Personal, Here
<1>5. EventTakenOnce /\ RetryIsAnswered /\ DecisionIsFinal
  BY DEF Init, EventTakenOnce, RetryIsAnswered, DecisionIsFinal
<1>6. QED
  BY <1>1, <1>2, <1>4, <1>5 DEF IInv

LEMMA StepIInv == ASSUME IInv, [Next]_vars PROVE IInv'
<1>1. ASSUME NEW r \in Request, Serve(r) PROVE IInv'
  <2>1. CASE Deliver(r) \/ LookUp(r) \/ FindUser(r) \/ InsertReceipt(r) \/ NoteEvent(r)
    BY <2>1, StepDeliver, StepLookUp, StepFindUser, StepInsertReceipt, StepNoteEvent
  <2>2. CASE Approve(r) \/ Reject(r) \/ CommitDecision(r)
    BY <2>2, StepDecide, StepCommitDecision DEF Approve, Reject
  <2>3. CASE Split(r) \/ CommitSplit(r) \/ Itemize(r) \/ CommitItemized(r)
    BY <2>3, StepSplit, StepCommitSplit, StepItemize, StepCommitItemized
  <2>4. CASE Crash(r)
    BY <2>4, StepFail DEF Crash
  <2>5. QED
    BY <1>1, <2>1, <2>2, <2>3, <2>4 DEF Serve
<1>2. CASE UNCHANGED vars
  BY <1>2 DEF vars, rows, ghosts, device, IInv, TypeOK, TxInv, Fits, HoldInv, ItemizeInv,
     LateInv, ClosedInv, EventInv, ScanInv, EventTakenOnce, RetryIsAnswered, DecisionIsFinal,
     GroupReceiptsStayOut, OnlyOvertakenIsSkipped, Here, IsDraft, Passed, After
<1>3. QED
  BY <1>1, <1>2, StepClose, StepPull DEF Next

\* What transactions under way hold and have seen agrees with the rows.
THEOREM ReceiptInvariance == Spec => []IInv
<1>1. Init => IInv
  BY InitIInv
<1>2. IInv /\ [Next]_vars => IInv'
  BY StepIInv
<1>3. QED
  BY <1>1, <1>2, PTL DEF Spec

\* Every variable keeps its type.
THEOREM ReceiptTypes == Spec => []TypeOK
<1>1. IInv => TypeOK
  BY DEF IInv
<1>2. QED
  BY <1>1, ReceiptInvariance, PTL

\* An event becomes one receipt under however many keys and deliveries, and n8n
\* is told that it did only when it did.
THEOREM EventsAreTakenOnce == Spec => []EventTakenOnce
<1>1. IInv => EventTakenOnce
  BY DEF IInv
<1>2. QED
  BY <1>1, ReceiptInvariance, PTL

\* Once a delivery was refused as a duplicate its key is taken, so that the next
\* one is answered; but for an event under two keys.
THEOREM RetriesAreAnswered == Spec => []RetryIsAnswered
<1>1. IInv => RetryIsAnswered
  BY DEF IInv
<1>2. QED
  BY <1>1, ReceiptInvariance, PTL

\* An approval or a rejection that was answered stands, unless two requests had
\* both seen the draft.
THEOREM DecisionsAreFinal == Spec => []DecisionIsFinal
<1>1. IInv => DecisionIsFinal
  BY DEF IInv
<1>2. QED
  BY <1>1, ReceiptInvariance, PTL

\* However the pages of a pull fall, the device has every personal receipt its
\* cursor has passed, but for what was approved behind the cursor.
THEOREM PullsMissNothing == Spec => []OnlyOvertakenIsSkipped
<1>1. IInv => OnlyOvertakenIsSkipped
  BY DEF IInv
<1>2. QED
  BY <1>1, ReceiptInvariance, PTL

\* A receipt of a group's expense never reaches the personal feed.
THEOREM GroupReceiptsAreNotPulled == Spec => []GroupReceiptsStayOut
<1>1. IInv => GroupReceiptsStayOut
  BY DEF IInv
<1>2. QED
  BY <1>1, ReceiptInvariance, PTL
=============================================================================
