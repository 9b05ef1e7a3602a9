----------------------- MODULE IdempotentCreateProofs -----------------------
(***************************************************************************)
(* Proofs about IdempotentCreate for any number of keys, bodies, calls and *)
(* faults.                                                                 *)
(***************************************************************************)
EXTENDS IdempotentCreate, TLAPS

LEMMA CallFields ==
    ASSUME NEW c \in Call
    PROVE  /\ c.key \in Key
           /\ c.payload \in Payload
           /\ IntentOf(c) \in Intent
           /\ IntentOf(c).key = c.key
           /\ IntentOf(c).payload = c.payload
  BY CreateAssumption DEF Intent, IntentOf

LEMMA IntentFields ==
    ASSUME NEW i \in Intent
    PROVE  i.key \in Key /\ i.payload \in Payload
  BY DEF Intent

-----------------------------------------------------------------------------
(* What the building blocks of the actions do to the types.                *)

LEMMA GotoType ==
    ASSUME pc \in [Call -> Label], NEW c \in Call, NEW l \in Label, Goto(c, l)
    PROVE  /\ pc' \in [Call -> Label]
           /\ pc'[c] = l
           /\ \A d \in Call : d # c => pc'[d] = pc[d]
  BY DEF Goto

LEMMA RespondType ==
    ASSUME pc \in [Call -> Label], reply \in [Call -> Reply],
           NEW c \in Call, NEW r \in Reply, Respond(c, r)
    PROVE  /\ pc' \in [Call -> Label]
           /\ reply' \in [Call -> Reply]
           /\ pc'[c] = "answered" /\ reply'[c] = r
           /\ \A d \in Call : d # c => pc'[d] = pc[d] /\ reply'[d] = reply[d]
<1>1. "answered" \in Label
  BY DEF Label
<1>2. Goto(c, "answered") /\ reply' = [reply EXCEPT ![c] = r]
  BY DEF Respond
<1>3. QED
  BY <1>1, <1>2, GotoType

LEMMA ForgetType ==
    ASSUME pc \in [Call -> Label], reply \in [Call -> Reply],
           replayed \subseteq Call, NEW c \in Call, Forget(c)
    PROVE  /\ pc' \in [Call -> Label]
           /\ reply' \in [Call -> Reply]
           /\ replayed' \subseteq Call
           /\ pc'[c] = "idle"
           /\ \A d \in Call : d # c => pc'[d] = pc[d] /\ reply'[d] = reply[d]
<1>1. "idle" \in Label /\ "none" \in Reply
  BY DEF Label, Reply
<1>2. /\ Goto(c, "idle")
      /\ reply' = [reply EXCEPT ![c] = "none"]
      /\ replayed' = replayed \ {c}
  BY DEF Forget
<1>3. QED
  BY <1>1, <1>2, GotoType

LEMMA ReleaseType ==
    ASSUME reservedBy \in [Key -> Call \union {Nobody}],
           groupLock \in Call \union {Nobody},
           NEW c \in Call, ReleaseLocks(c)
    PROVE  /\ reservedBy' \in [Key -> Call \union {Nobody}]
           /\ groupLock' \in Call \union {Nobody}
           /\ groupLock' = IF groupLock = c THEN Nobody ELSE groupLock
           /\ \A k \in Key : reservedBy'[k] = IF reservedBy[k] = c THEN Nobody
                                              ELSE reservedBy[k]
  BY DEF ReleaseLocks

LEMMA InitType == Init => TypeOK
<1> SUFFICES ASSUME Init PROVE TypeOK
  OBVIOUS
<1> USE DEF Init
<1>1. pc \in [Call -> Label] /\ reply \in [Call -> Reply]
  BY DEF Label, Reply
<1>2. resources \in [Key -> Seq(Payload)]
  OBVIOUS
<1>3. told \in [Intent -> SUBSET Answer]
  OBVIOUS
<1>4. /\ replayed \subseteq Call
      /\ record \in [Key -> Payload \union {Absent}]
      /\ reservedBy \in [Key -> Call \union {Nobody}]
      /\ deleted \subseteq Key
      /\ groupLock \in Call \union {Nobody}
      /\ archived \in BOOLEAN
      /\ away \subseteq User /\ departed \subseteq User
      /\ feed \subseteq Key
      /\ faults \in Nat
  OBVIOUS
<1>5. QED
  BY <1>1, <1>2, <1>3, <1>4 DEF TypeOK

LEMMA LabelsAndReplies ==
    /\ \A l \in {"idle", "member", "lookup", "reserve", "lock", "create",
                 "replay", "invalidate", "append", "insert", "answered"} : l \in Label
    /\ \A r \in {"none", "accepted", "duplicate", "conflict", "rejected",
                 "forbidden", "cache_pending", "unavailable", "error"} : r \in Reply
    /\ \A c \in Call : Success(c) \in {"accepted", "duplicate"}
  BY DEF Label, Reply, Success

LEMMA StepType == ASSUME TypeOK, [Next]_vars PROVE TypeOK'
<1> USE LabelsAndReplies DEF TypeOK, dbVars, members
<1>1. ASSUME NEW c \in Call, Send(c) PROVE TypeOK'
  BY <1>1, GotoType DEF Send
<1>2. ASSUME NEW c \in Call, Work(c) PROVE TypeOK'
  <2>1. CASE Lookup(c)
    <3>1. PICK l \in {"reserve", "replay"} : Goto(c, l)
      BY <2>1 DEF Lookup
    <3>2. QED
      BY <2>1, <3>1, GotoType DEF Lookup
  <2>2. CASE Reserve(c)
    <3>1. c.key \in Key
      BY CallFields
    <3>2. CASE record[c.key] = Absent
      <4>1. Goto(c, "lock") /\ reservedBy' = [reservedBy EXCEPT ![c.key] = c]
        BY <2>2, <3>2 DEF Reserve
      <4>2. pc' \in [Call -> Label]
        BY <4>1, GotoType
      <4>3. reservedBy' \in [Key -> Call \union {Nobody}]
        BY <3>1, <4>1
      <4>4. QED
        BY <2>2, <4>2, <4>3 DEF Reserve
    <3>3. CASE record[c.key] # Absent
      BY <2>2, <3>3, GotoType DEF Reserve
    <3>4. QED
      BY <3>2, <3>3
  <2>3. CASE LockGroup(c)
    BY <2>3, GotoType DEF LockGroup
  <2>4. CASE CommitCreate(c)
    <3>1. c.key \in Key /\ c.payload \in Payload
      BY CallFields
    <3>2. pc' \in [Call -> Label]
      BY <2>4, GotoType DEF CommitCreate
    <3>3. /\ reservedBy' \in [Key -> Call \union {Nobody}]
          /\ groupLock' \in Call \union {Nobody}
      BY <2>4, ReleaseType DEF CommitCreate
    <3>4. /\ record' \in [Key -> Payload \union {Absent}]
          /\ resources' \in [Key -> Seq(Payload)]
      BY <2>4, <3>1 DEF CommitCreate
    <3>5. QED
      BY <2>4, <3>2, <3>3, <3>4 DEF CommitCreate
  <2>5. CASE RejectCreate(c)
    <3>1. pc' \in [Call -> Label] /\ reply' \in [Call -> Reply]
      BY <2>5, RespondType DEF RejectCreate
    <3>2. /\ reservedBy' \in [Key -> Call \union {Nobody}]
          /\ groupLock' \in Call \union {Nobody}
      BY <2>5, ReleaseType DEF RejectCreate
    <3>3. QED
      BY <2>5, <3>1, <3>2 DEF RejectCreate
  <2>6. CASE Replay(c)
    <3>1. /\ pc' \in [Call -> Label]
          /\ reply' \in [Call -> Reply]
          /\ replayed' \subseteq Call
      BY <2>6, GotoType, RespondType DEF Replay
    <3>2. QED
      BY <2>6, <3>1 DEF Replay
  <2>7. CASE Invalidate(c)
    BY <2>7, GotoType DEF Invalidate
  <2>8. CASE CheckFeed(c)
    <3>1. pc' \in [Call -> Label] /\ reply' \in [Call -> Reply]
      BY <2>8, GotoType, RespondType DEF CheckFeed
    <3>2. QED
      BY <2>8, <3>1 DEF CheckFeed
  <2>9. CASE InsertChange(c)
    <3>1. pc' \in [Call -> Label] /\ reply' \in [Call -> Reply]
      BY <2>9, RespondType DEF InsertChange
    <3>2. feed' \subseteq Key
      BY <2>9, CallFields DEF InsertChange
    <3>3. QED
      BY <2>9, <3>1, <3>2 DEF InsertChange
  <2>10. CASE CheckMembership(c)
    <3>1. pc' \in [Call -> Label] /\ reply' \in [Call -> Reply]
      BY <2>10, GotoType, RespondType DEF CheckMembership
    <3>2. QED
      BY <2>10, <3>1 DEF CheckMembership
  <2>11. QED
    BY <1>2, <2>1, <2>2, <2>3, <2>4, <2>5, <2>6, <2>7, <2>8, <2>9, <2>10 DEF Work
<1>3. ASSUME NEW c \in Call, InvalidateFails(c) PROVE TypeOK'
  <2>1. pc' \in [Call -> Label] /\ reply' \in [Call -> Reply]
    BY <1>3, GotoType, RespondType DEF InvalidateFails
  <2>2. faults' \in Nat
    BY <1>3 DEF InvalidateFails
  <2>3. QED
    BY <1>3, <2>1, <2>2 DEF InvalidateFails
<1>4. ASSUME NEW c \in Call, Deliver(c) PROVE TypeOK'
  <2>1. /\ pc' \in [Call -> Label]
        /\ reply' \in [Call -> Reply]
        /\ replayed' \subseteq Call
    BY <1>4, ForgetType DEF Deliver
  <2>2. FinalAnswers(reply[c]) \subseteq Answer
    BY DEF FinalAnswers, Answer
  <2>3. told' \in [Intent -> SUBSET Answer]
    BY <1>4, <2>2, CallFields DEF Deliver
  <2>4. QED
    BY <1>4, <2>1, <2>3 DEF Deliver
<1>5. ASSUME NEW c \in Call, Crash(c) PROVE TypeOK'
  <2>1. /\ pc' \in [Call -> Label]
        /\ reply' \in [Call -> Reply]
        /\ replayed' \subseteq Call
    BY <1>5, ForgetType DEF Crash
  <2>2. /\ reservedBy' \in [Key -> Call \union {Nobody}]
        /\ groupLock' \in Call \union {Nobody}
    BY <1>5, ReleaseType DEF Crash
  <2>3. faults' \in Nat
    BY <1>5 DEF Crash
  <2>4. QED
    BY <1>5, <2>1, <2>2, <2>3 DEF Crash
<1>6. CASE Others
  <2>1. CASE Archive
    BY <2>1 DEF Archive
  <2>2. ASSUME NEW k \in Key, DeleteExpense(k) PROVE TypeOK'
    BY <2>2 DEF DeleteExpense
  <2>3. ASSUME NEW u \in User, Leave(u) \/ Rejoin(u) PROVE TypeOK'
    BY <2>3 DEF Leave, Rejoin
  <2>4. QED
    BY <1>6, <2>1, <2>2, <2>3 DEF Others
<1>8. CASE UNCHANGED vars
  BY <1>8 DEF vars
<1>9. QED
  BY <1>1, <1>2, <1>3, <1>4, <1>5, <1>6, <1>8 DEF Next

\* Every reachable state has the declared types, whatever the constants.
THEOREM TypeCorrect == Spec => []TypeOK
<1>1. Init => TypeOK
  BY InitType
<1>2. TypeOK /\ [Next]_vars => TypeOK'
  BY StepType
<1>3. QED
  BY <1>1, <1>2, PTL DEF Spec

-----------------------------------------------------------------------------
(* The inductive invariant.                                                *)

LEMMA InitIInv == Init => IInv
<1> SUFFICES ASSUME Init PROVE IInv
  OBVIOUS
<1>1. TypeOK
  BY InitType
<1>2. RecordMatchesResource /\ FeedOnlyCommitted
  BY DEF Init, RecordMatchesResource, FeedOnlyCommitted
<1>3. ReservationInv /\ GroupLockInv
  BY NobodyAssumption, CallFields DEF Init, ReservationInv, GroupLockInv
<1>4. PositionInv /\ AnswerInv
  BY DEF Init, PositionInv, AnswerInv
<1>5. MembershipInv
  BY DEF Init, MembershipInv
<1>6. QED
  BY <1>1, <1>2, <1>3, <1>4, <1>5 DEF IInv

\* Only the commit of a call touches the ledger, and it finds its key free.
LEMMA LedgerFrame ==
    ASSUME [Next]_vars
    PROVE  UNCHANGED <<record, resources>> \/ \E c \in Call : CommitCreate(c)
<1>1. ASSUME NEW c \in Call, Work(c), ~CommitCreate(c)
      PROVE  UNCHANGED <<record, resources>>
  BY <1>1 DEF Work, CheckMembership, Lookup, Reserve, LockGroup, RejectCreate,
              Replay, Invalidate, CheckFeed, InsertChange, dbVars
<1>2. ASSUME NEW c \in Call,
             Send(c) \/ InvalidateFails(c) \/ Deliver(c) \/ Crash(c)
      PROVE  UNCHANGED <<record, resources>>
  BY <1>2 DEF Send, InvalidateFails, Deliver, Crash, dbVars
<1>3. ASSUME Others \/ UNCHANGED vars
      PROVE  UNCHANGED <<record, resources>>
  BY <1>3 DEF Others, Archive, DeleteExpense, Leave, Rejoin, members, vars
<1>4. QED
  BY <1>1, <1>2, <1>3 DEF Next

LEMMA CommitFindsKeyFree ==
    ASSUME TypeOK, ReservationInv, NEW c \in Call, CommitCreate(c)
    PROVE  record[c.key] = Absent
<1>1. pc[c] = "create"
  BY DEF CommitCreate
<1>2. reservedBy[c.key] = c /\ c # Nobody
  BY <1>1, NobodyAssumption DEF ReservationInv
<1>3. QED
  BY <1>2, CallFields DEF ReservationInv

LEMMA CommitEffect ==
    ASSUME TypeOK, NEW c \in Call, CommitCreate(c), NEW k \in Key
    PROVE  /\ record'[k] = IF k = c.key THEN c.payload ELSE record[k]
           /\ resources'[k] = IF k = c.key THEN Append(resources[k], c.payload)
                                           ELSE resources[k]
  BY CallFields DEF CommitCreate, TypeOK

\* The committed state only grows.
LEMMA LedgerGrows ==
    ASSUME TypeOK, ReservationInv, [Next]_vars, NEW k \in Key,
           record[k] # Absent
    PROVE  record'[k] = record[k] /\ resources'[k] = resources[k]
  BY LedgerFrame, CommitFindsKeyFree, CommitEffect

LEMMA FeedGrows ==
    ASSUME [Next]_vars
    PROVE  /\ feed \subseteq feed'
           /\ archived => archived'
           /\ \A k \in feed' \ feed :
                  \E c \in Call : pc[c] = "insert" /\ k = c.key
<1>1. ASSUME NEW c \in Call, InsertChange(c)
      PROVE  /\ UNCHANGED archived
             /\ UNCHANGED feed \/ (feed' = feed \union {c.key} /\ pc[c] = "insert")
  BY <1>1 DEF InsertChange
<1>2. ASSUME NEW c \in Call, Work(c), ~InsertChange(c)
      PROVE  UNCHANGED <<feed, archived>>
  BY <1>2 DEF Work, CheckMembership, Lookup, Reserve, LockGroup, CommitCreate,
              RejectCreate, Replay, Invalidate, CheckFeed, dbVars
<1>3. ASSUME NEW c \in Call,
             Send(c) \/ InvalidateFails(c) \/ Deliver(c) \/ Crash(c)
      PROVE  UNCHANGED <<feed, archived>>
  BY <1>3 DEF Send, InvalidateFails, Deliver, Crash, dbVars
<1>4. ASSUME Others \/ UNCHANGED vars
      PROVE  UNCHANGED feed /\ (archived => archived')
  BY <1>4 DEF Others, Archive, DeleteExpense, Leave, Rejoin, members, vars
<1>5. QED
  BY <1>1, <1>2, <1>3, <1>4 DEF Next

\* Who has left stays in the history, and only there do members go away.
LEMMA DepartedGrows ==
    ASSUME [Next]_vars
    PROVE  departed \subseteq departed' /\ (MembershipInv => MembershipInv')
<1> USE DEF MembershipInv
<1>1. ASSUME NEW c \in Call, Work(c) PROVE UNCHANGED members
  BY <1>1 DEF Work, CheckMembership, Lookup, Reserve, LockGroup, CommitCreate,
              RejectCreate, Replay, Invalidate, CheckFeed, InsertChange, dbVars,
              members
<1>2. ASSUME NEW c \in Call,
             Send(c) \/ InvalidateFails(c) \/ Deliver(c) \/ Crash(c)
      PROVE  UNCHANGED members
  BY <1>2 DEF Send, InvalidateFails, Deliver, Crash, dbVars, members
<1>3. CASE Others
  <2>1. ASSUME NEW u \in User, Leave(u)
        PROVE  departed \subseteq departed' /\ (MembershipInv => MembershipInv')
    BY <2>1 DEF Leave
  <2>2. ASSUME NEW u \in User, Rejoin(u)
        PROVE  departed \subseteq departed' /\ (MembershipInv => MembershipInv')
    BY <2>2 DEF Rejoin
  <2>3. ASSUME Archive \/ \E k \in Key : DeleteExpense(k)
        PROVE  UNCHANGED members
    BY <2>3 DEF Archive, DeleteExpense, members
  <2>4. QED
    BY <1>3, <2>1, <2>2, <2>3 DEF Others, members
<1>4. CASE UNCHANGED vars
  BY <1>4 DEF vars
<1>5. QED
  BY <1>1, <1>2, <1>3, <1>4 DEF Next, members

LEMMA StepRecord ==
    ASSUME IInv, [Next]_vars
    PROVE  RecordMatchesResource'
<1> USE DEF IInv
<1>1. CASE UNCHANGED <<record, resources>>
  BY <1>1 DEF RecordMatchesResource
<1>2. ASSUME NEW c \in Call, CommitCreate(c)
      PROVE  RecordMatchesResource'
  <2>1. SUFFICES ASSUME NEW k \in Key
                 PROVE  IF record'[k] = Absent THEN resources'[k] = <<>>
                        ELSE resources'[k] = <<record'[k]>>
    BY DEF RecordMatchesResource
  <2>2. CASE k = c.key
    <3>1. resources[k] = <<>>
      BY <1>2, <2>2, CommitFindsKeyFree DEF RecordMatchesResource
    <3>2. record'[k] = c.payload /\ resources'[k] = Append(<<>>, c.payload)
      BY <1>2, <2>2, <3>1, CommitEffect
    <3>3. c.payload # Absent
      BY CallFields, CreateAssumption
    <3>4. QED
      BY <3>2, <3>3
  <2>3. CASE k # c.key
    BY <1>2, <2>3, CommitEffect DEF RecordMatchesResource
  <2>4. QED
    BY <2>2, <2>3
<1>3. QED
  BY <1>1, <1>2, LedgerFrame

LEMMA StepFeed ==
    ASSUME IInv, [Next]_vars
    PROVE  FeedOnlyCommitted'
<1>1. SUFFICES ASSUME NEW k \in feed' PROVE resources'[k] # <<>>
  BY DEF FeedOnlyCommitted
<1>2. k \in Key
  BY StepType DEF IInv, TypeOK
<1>3. record[k] # Absent
  <2>1. CASE k \in feed
    BY <1>2, <2>1 DEF IInv, FeedOnlyCommitted, RecordMatchesResource
  <2>2. CASE k \notin feed
    <3>1. PICK c \in Call : pc[c] = "insert" /\ k = c.key
      BY <2>2, FeedGrows
    <3>2. record[k] = c.payload
      BY <3>1 DEF IInv, PositionInv
    <3>3. QED
      BY <3>2, CallFields, CreateAssumption
  <2>3. QED
    BY <2>1, <2>2
<1>4. resources'[k] = <<record[k]>>
  BY <1>2, <1>3, LedgerGrows DEF IInv, RecordMatchesResource
<1>5. QED
  BY <1>4

\* How the actions move between the statements that hold locks.
LEMMA MoveKeepsLocks ==
    ASSUME TypeOK, ReservationInv, GroupLockInv, NEW c \in Call,
           pc[c] \notin {"lock", "create"}, pc'[c] \notin {"lock", "create"},
           \A d \in Call : d # c => pc'[d] = pc[d],
           UNCHANGED <<reservedBy, groupLock, record>>
    PROVE  ReservationInv' /\ GroupLockInv'
<1>1. \A d \in Call : /\ pc'[d] = "create" <=> pc[d] = "create"
                      /\ pc'[d] \in {"lock", "create"} <=> pc[d] \in {"lock", "create"}
  OBVIOUS
<1>2. GroupLockInv'
  BY <1>1 DEF GroupLockInv
<1>3. ReservationInv'
  BY <1>1 DEF ReservationInv
<1>4. QED
  BY <1>2, <1>3

LEMMA ReleaseKeepsLocks ==
    ASSUME TypeOK, ReservationInv, GroupLockInv, NEW c \in Call,
           ReleaseLocks(c), pc'[c] \notin {"lock", "create"},
           \A d \in Call : d # c => pc'[d] = pc[d],
           \A k \in Key : reservedBy[k] \notin {c, Nobody} => record'[k] = record[k]
    PROVE  ReservationInv' /\ GroupLockInv'
<1>1. /\ groupLock' = IF groupLock = c THEN Nobody ELSE groupLock
      /\ \A k \in Key : reservedBy'[k] = IF reservedBy[k] = c THEN Nobody
                                         ELSE reservedBy[k]
  BY ReleaseType DEF TypeOK
<1>2. Nobody \notin Call
  BY NobodyAssumption
<1>3. GroupLockInv'
  BY <1>1, <1>2 DEF GroupLockInv
<1>4. ASSUME NEW d \in Call
      PROVE  pc'[d] \in {"lock", "create"} <=> reservedBy'[d.key] = d
  <2>1. d.key \in Key
    BY CallFields
  <2>2. CASE d = c
    BY <1>1, <1>2, <2>1, <2>2
  <2>3. CASE d # c
    BY <1>1, <1>2, <2>1, <2>3 DEF ReservationInv
  <2>4. QED
    BY <2>2, <2>3
<1>5. ASSUME NEW k \in Key, reservedBy'[k] # Nobody
      PROVE  reservedBy'[k].key = k /\ record'[k] = Absent
  BY <1>1, <1>5 DEF ReservationInv
<1>6. QED
  BY <1>3, <1>4, <1>5 DEF ReservationInv

LEMMA ReserveKeepsLocks ==
    ASSUME TypeOK, ReservationInv, GroupLockInv, NEW c \in Call, Reserve(c)
    PROVE  ReservationInv' /\ GroupLockInv'
<1> USE LabelsAndReplies DEF TypeOK, dbVars, members
<1>1. pc[c] = "reserve" /\ UNCHANGED <<groupLock, record>>
  BY DEF Reserve
<1>2. CASE Goto(c, "replay") /\ UNCHANGED reservedBy
  <2>1. /\ pc'[c] = "replay"
        /\ \A d \in Call : d # c => pc'[d] = pc[d]
    BY <1>2, GotoType
  <2>2. QED
    BY <1>1, <1>2, <2>1, MoveKeepsLocks
<1>3. CASE /\ record[c.key] = Absent
           /\ reservedBy' = [reservedBy EXCEPT ![c.key] = c]
           /\ Goto(c, "lock")
  <2>1. /\ pc'[c] = "lock"
        /\ \A d \in Call : d # c => pc'[d] = pc[d]
    BY <1>3, GotoType
  <2>2. \A k \in Key : reservedBy'[k] = IF k = c.key THEN c ELSE reservedBy[k]
    BY <1>3
  <2>3. reservedBy[c.key] = Nobody /\ Nobody \notin Call
    BY NobodyAssumption DEF Reserve
  <2>4. ASSUME NEW d \in Call
        PROVE  pc'[d] \in {"lock", "create"} <=> reservedBy'[d.key] = d
    <3>1. d.key \in Key
      BY CallFields
    <3>2. CASE d = c
      BY <2>1, <2>2, <3>1, <3>2
    <3>3. CASE d # c
      BY <2>1, <2>2, <2>3, <3>1, <3>3 DEF ReservationInv
    <3>4. QED
      BY <3>2, <3>3
  <2>5. ASSUME NEW k \in Key, reservedBy'[k] # Nobody
        PROVE  reservedBy'[k].key = k /\ record'[k] = Absent
    BY <1>1, <1>3, <2>2, <2>5 DEF ReservationInv
  <2>6. GroupLockInv'
    BY <1>1, <2>1 DEF GroupLockInv
  <2>7. QED
    BY <2>4, <2>5, <2>6 DEF ReservationInv
<1>4. QED
  BY <1>2, <1>3 DEF Reserve

LEMMA LockGroupKeepsLocks ==
    ASSUME TypeOK, ReservationInv, GroupLockInv, NEW c \in Call, LockGroup(c)
    PROVE  ReservationInv' /\ GroupLockInv'
<1>1. /\ pc[c] = "lock" /\ groupLock = Nobody /\ groupLock' = c
      /\ UNCHANGED <<reservedBy, record>>
  BY DEF LockGroup, dbVars
<1>2. /\ pc'[c] = "create"
      /\ \A d \in Call : d # c => pc'[d] = pc[d]
  BY LabelsAndReplies, GotoType DEF LockGroup, TypeOK
<1>3. GroupLockInv'
  BY <1>1, <1>2, NobodyAssumption DEF GroupLockInv
<1>4. \A d \in Call : pc'[d] \in {"lock", "create"} <=> pc[d] \in {"lock", "create"}
  BY <1>1, <1>2
<1>5. ReservationInv'
  BY <1>1, <1>4 DEF ReservationInv
<1>6. QED
  BY <1>3, <1>5

LEMMA QuietStep ==
    ASSUME TypeOK, NEW c \in Call,
           \/ Send(c) \/ CheckMembership(c) \/ Lookup(c) \/ Replay(c)
           \/ Invalidate(c) \/ InvalidateFails(c) \/ CheckFeed(c)
           \/ InsertChange(c) \/ Deliver(c)
    PROVE  /\ pc[c] \notin {"lock", "create"} /\ pc'[c] \notin {"lock", "create"}
           /\ \A d \in Call : d # c => pc'[d] = pc[d]
           /\ UNCHANGED <<reservedBy, groupLock, record>>
<1> USE LabelsAndReplies DEF TypeOK, dbVars, members
<1>1. CASE Send(c)
  BY <1>1, GotoType DEF Send
<1>2. CASE Lookup(c)
  <2>1. PICK l \in {"reserve", "replay"} : Goto(c, l)
    BY <1>2 DEF Lookup
  <2>2. QED
    BY <1>2, <2>1, GotoType DEF Lookup
<1>3. CASE Replay(c)
  <2>1. /\ pc'[c] \in {"answered", "invalidate", "append"}
        /\ \A d \in Call : d # c => pc'[d] = pc[d]
    BY <1>3, GotoType, RespondType DEF Replay
  <2>2. QED
    BY <1>3, <2>1 DEF Replay
<1>4. CASE Invalidate(c)
  BY <1>4, GotoType DEF Invalidate
<1>5. CASE InvalidateFails(c)
  <2>1. /\ pc'[c] \in {"answered", "append"}
        /\ \A d \in Call : d # c => pc'[d] = pc[d]
    BY <1>5, GotoType, RespondType DEF InvalidateFails
  <2>2. QED
    BY <1>5, <2>1 DEF InvalidateFails
<1>6. CASE CheckFeed(c)
  <2>1. /\ pc'[c] \in {"answered", "insert"}
        /\ \A d \in Call : d # c => pc'[d] = pc[d]
    BY <1>6, GotoType, RespondType DEF CheckFeed
  <2>2. QED
    BY <1>6, <2>1 DEF CheckFeed
<1>7. CASE InsertChange(c)
  <2>1. /\ pc'[c] = "answered"
        /\ \A d \in Call : d # c => pc'[d] = pc[d]
    BY <1>7, RespondType DEF InsertChange
  <2>2. QED
    BY <1>7, <2>1 DEF InsertChange
<1>8. CASE Deliver(c)
  BY <1>8, ForgetType DEF Deliver
<1>9. CASE CheckMembership(c)
  <2>1. /\ pc'[c] \in {"answered", "lookup"}
        /\ \A d \in Call : d # c => pc'[d] = pc[d]
    BY <1>9, GotoType, RespondType DEF CheckMembership
  <2>2. QED
    BY <1>9, <2>1 DEF CheckMembership
<1>10. QED
  BY <1>1, <1>2, <1>3, <1>4, <1>5, <1>6, <1>7, <1>8, <1>9

\* The end of a transaction: commit, refusal or crash.
LEMMA EndingStep ==
    ASSUME TypeOK, NEW c \in Call, CommitCreate(c) \/ RejectCreate(c) \/ Crash(c)
    PROVE  /\ ReleaseLocks(c)
           /\ pc'[c] \in {"invalidate", "answered", "idle"}
           /\ \A d \in Call : d # c => pc'[d] = pc[d]
<1> USE LabelsAndReplies DEF TypeOK
<1>1. CASE CommitCreate(c)
  BY <1>1, GotoType DEF CommitCreate
<1>2. CASE RejectCreate(c)
  BY <1>2, RespondType DEF RejectCreate
<1>3. CASE Crash(c)
  BY <1>3, ForgetType DEF Crash
<1>4. QED
  BY <1>1, <1>2, <1>3

LEMMA StepLocks ==
    ASSUME IInv, [Next]_vars
    PROVE  ReservationInv' /\ GroupLockInv'
<1> USE DEF IInv
<1>1. ASSUME NEW c \in Call,
             \/ Send(c) \/ CheckMembership(c) \/ Lookup(c) \/ Replay(c)
             \/ Invalidate(c) \/ InvalidateFails(c) \/ CheckFeed(c)
             \/ InsertChange(c) \/ Deliver(c)
      PROVE  ReservationInv' /\ GroupLockInv'
  BY <1>1, QuietStep, MoveKeepsLocks
<1>2. ASSUME NEW c \in Call, Reserve(c) \/ LockGroup(c)
      PROVE  ReservationInv' /\ GroupLockInv'
  BY <1>2, ReserveKeepsLocks, LockGroupKeepsLocks
<1>3. ASSUME NEW c \in Call, CommitCreate(c)
      PROVE  ReservationInv' /\ GroupLockInv'
  <2>1. \A k \in Key : reservedBy[k] \notin {c, Nobody} => record'[k] = record[k]
    <3>1. reservedBy[c.key] = c
      BY <1>3 DEF CommitCreate, ReservationInv
    <3>2. QED
      BY <1>3, <3>1, CommitEffect
  <2>2. QED
    BY <1>3, <2>1, EndingStep, ReleaseKeepsLocks
<1>4. ASSUME NEW c \in Call, RejectCreate(c) \/ Crash(c)
      PROVE  ReservationInv' /\ GroupLockInv'
  <2>1. UNCHANGED record
    BY <1>4 DEF RejectCreate, Crash, dbVars
  <2>2. QED
    BY <1>4, <2>1, EndingStep, ReleaseKeepsLocks
<1>5. ASSUME Others \/ UNCHANGED vars
      PROVE  ReservationInv' /\ GroupLockInv'
  <2>1. UNCHANGED <<pc, reservedBy, groupLock, record>>
    BY <1>5 DEF Others, Archive, DeleteExpense, Leave, Rejoin, members, vars
  <2>2. QED
    BY <2>1 DEF ReservationInv, GroupLockInv
<1>6. QED
  BY <1>1, <1>2, <1>3, <1>4, <1>5 DEF Next, Work

\* Where the acting call stands after its step.
LEMMA ActorPosition ==
    ASSUME IInv, NEW c \in Call,
           Send(c) \/ Work(c) \/ InvalidateFails(c) \/ Deliver(c) \/ Crash(c)
    PROVE  /\ pc'[c] = "replay" => record'[c.key] # Absent
           /\ pc'[c] \in {"invalidate", "append", "insert"} =>
                  record'[c.key] = c.payload
<1> USE LabelsAndReplies DEF IInv, TypeOK, dbVars, members
<1>0. c.key \in Key
  BY CallFields
<1>1. CASE Send(c)
  BY <1>1, GotoType DEF Send
<1>2. CASE Lookup(c)
  <2>1. PICK l \in {"reserve", "replay"} :
             Goto(c, l) /\ (l = "replay" => record[c.key] # Absent)
    BY <1>2 DEF Lookup
  <2>2. QED
    BY <1>2, <2>1, GotoType DEF Lookup
<1>3. CASE Reserve(c)
  <2>1. PICK l \in {"lock", "replay"} :
             Goto(c, l) /\ (l = "replay" => record[c.key] # Absent)
    BY <1>3 DEF Reserve
  <2>2. QED
    BY <1>3, <2>1, GotoType DEF Reserve
<1>4. CASE LockGroup(c)
  BY <1>4, GotoType DEF LockGroup
<1>5. CASE CommitCreate(c)
  <2>1. pc'[c] = "invalidate"
    BY <1>5, GotoType DEF CommitCreate
  <2>2. QED
    BY <1>0, <1>5, <2>1, CommitEffect
<1>6. CASE RejectCreate(c)
  BY <1>6, RespondType DEF RejectCreate
<1>7. CASE Replay(c)
  <2>1. \/ pc'[c] = "answered"
        \/ pc'[c] \in {"invalidate", "append"} /\ record[c.key] = c.payload
    BY <1>7, GotoType, RespondType DEF Replay
  <2>2. QED
    BY <1>7, <2>1 DEF Replay
<1>8. CASE Invalidate(c)
  <2>1. pc[c] = "invalidate" /\ pc'[c] = "append" /\ UNCHANGED record
    BY <1>8, GotoType DEF Invalidate
  <2>2. QED
    BY <2>1 DEF PositionInv
<1>9. CASE InvalidateFails(c)
  <2>1. /\ pc[c] = "invalidate" /\ pc'[c] \in {"answered", "append"}
        /\ UNCHANGED record
    BY <1>9, GotoType, RespondType DEF InvalidateFails
  <2>2. QED
    BY <2>1 DEF PositionInv
<1>10. CASE CheckFeed(c)
  <2>1. /\ pc[c] = "append" /\ pc'[c] \in {"answered", "insert"}
        /\ UNCHANGED record
    BY <1>10, GotoType, RespondType DEF CheckFeed
  <2>2. QED
    BY <2>1 DEF PositionInv
<1>11. CASE InsertChange(c)
  BY <1>11, RespondType DEF InsertChange
<1>12. CASE Deliver(c)
  BY <1>12, ForgetType DEF Deliver
<1>13. CASE Crash(c)
  BY <1>13, ForgetType DEF Crash
<1>14. CASE CheckMembership(c)
  <2>1. pc'[c] \in {"answered", "lookup"}
    BY <1>14, GotoType, RespondType DEF CheckMembership
  <2>2. QED
    BY <2>1
<1>15. QED
  BY <1>1, <1>2, <1>3, <1>4, <1>5, <1>6, <1>7, <1>8, <1>9, <1>10, <1>11, <1>12,
     <1>13, <1>14 DEF Work

\* A step moves one call at most.
LEMMA OneCallMoves ==
    ASSUME TypeOK, [Next]_vars, NEW d \in Call
    PROVE  \/ pc'[d] = pc[d] /\ reply'[d] = reply[d]
           \/ Send(d) \/ Work(d) \/ InvalidateFails(d) \/ Deliver(d) \/ Crash(d)
<1> USE LabelsAndReplies DEF TypeOK
<1>1. ASSUME NEW c \in Call, Work(c), c # d
      PROVE  pc'[d] = pc[d] /\ reply'[d] = reply[d]
  <2>1. CASE Lookup(c)
    <3>1. PICK l \in Label : Goto(c, l)
      BY <2>1 DEF Lookup
    <3>2. QED
      BY <1>1, <2>1, <3>1, GotoType DEF Lookup
  <2>2. CASE Reserve(c)
    <3>1. PICK l \in Label : Goto(c, l)
      BY <2>2 DEF Reserve
    <3>2. QED
      BY <1>1, <2>2, <3>1, GotoType DEF Reserve
  <2>3. CASE LockGroup(c)
    BY <1>1, <2>3, GotoType DEF LockGroup
  <2>4. CASE CommitCreate(c)
    BY <1>1, <2>4, GotoType DEF CommitCreate
  <2>5. CASE RejectCreate(c)
    BY <1>1, <2>5, RespondType DEF RejectCreate
  <2>6. CASE Replay(c)
    BY <1>1, <2>6, GotoType, RespondType DEF Replay
  <2>7. CASE Invalidate(c)
    BY <1>1, <2>7, GotoType DEF Invalidate
  <2>8. CASE CheckFeed(c)
    BY <1>1, <2>8, GotoType, RespondType DEF CheckFeed
  <2>9. CASE InsertChange(c)
    BY <1>1, <2>9, RespondType DEF InsertChange
  <2>10. CASE CheckMembership(c)
    BY <1>1, <2>10, GotoType, RespondType DEF CheckMembership
  <2>11. QED
    BY <1>1, <2>1, <2>2, <2>3, <2>4, <2>5, <2>6, <2>7, <2>8, <2>9, <2>10 DEF Work
<1>2. ASSUME NEW c \in Call, c # d,
             Send(c) \/ InvalidateFails(c) \/ Deliver(c) \/ Crash(c)
      PROVE  pc'[d] = pc[d] /\ reply'[d] = reply[d]
  <2>1. CASE Send(c)
    BY <1>2, <2>1, GotoType DEF Send
  <2>2. CASE InvalidateFails(c)
    BY <1>2, <2>2, GotoType, RespondType DEF InvalidateFails
  <2>3. CASE Deliver(c)
    BY <1>2, <2>3, ForgetType DEF Deliver
  <2>4. CASE Crash(c)
    BY <1>2, <2>4, ForgetType DEF Crash
  <2>5. QED
    BY <1>2, <2>1, <2>2, <2>3, <2>4
<1>3. ASSUME Others \/ UNCHANGED vars
      PROVE  pc'[d] = pc[d] /\ reply'[d] = reply[d]
  BY <1>3 DEF Others, Archive, DeleteExpense, Leave, Rejoin, members, vars
<1>4. QED
  BY <1>1, <1>2, <1>3 DEF Next

LEMMA StepPosition ==
    ASSUME IInv, [Next]_vars
    PROVE  PositionInv'
<1>1. SUFFICES ASSUME NEW d \in Call
               PROVE  /\ pc'[d] = "replay" => record'[d.key] # Absent
                      /\ pc'[d] \in {"invalidate", "append", "insert"} =>
                             record'[d.key] = d.payload
  BY DEF PositionInv
<1>2. d.key \in Key /\ d.payload # Absent
  BY CallFields, CreateAssumption
<1>3. CASE pc'[d] = pc[d]
  BY <1>2, <1>3, LedgerGrows DEF IInv, PositionInv
<1>4. CASE Send(d) \/ Work(d) \/ InvalidateFails(d) \/ Deliver(d) \/ Crash(d)
  BY <1>4, ActorPosition
<1>5. QED
  BY <1>3, <1>4, OneCallMoves DEF IInv

\* What is true of an intent when it is answered stays true.
LEMMA TrueOfStable ==
    ASSUME IInv, [Next]_vars, NEW k \in Key, NEW p \in Payload,
           NEW a \in Answer, TrueOf(k, p, a)
    PROVE  TrueOf(k, p, a)'
<1> USE DEF IInv
<1>1. p # Absent
  BY CreateAssumption
<1>2. CASE a = "applied"
  BY <1>1, <1>2, LedgerGrows, FeedGrows DEF TrueOf
<1>3. CASE a = "conflict"
  BY <1>1, <1>3, LedgerGrows DEF TrueOf
<1>4. CASE a = "rejected" /\ Names[p] \intersect departed # {}
  BY <1>4, DepartedGrows DEF TrueOf
<1>5. CASE a = "rejected" /\ Names[p] \intersect departed = {}
  <2>1. record[k] # p /\ (archived \/ p \in Invalid)
    BY <1>5 DEF TrueOf
  <2>2. record'[k] # p
    <3>1. ASSUME NEW c \in Call, CommitCreate(c) PROVE record'[k] # p
      <4>1. ~archived /\ c.payload \notin Invalid
        BY <3>1 DEF CommitCreate, Admits
      <4>2. QED
        BY <2>1, <3>1, <4>1, CommitEffect
    <3>2. QED
      BY <2>1, <3>1, LedgerFrame
  <2>3. archived' \/ p \in Invalid
    BY <2>1, FeedGrows
  <2>4. QED
    BY <1>5, <2>2, <2>3 DEF TrueOf
<1>6. CASE a = "forbidden"
  BY <1>6, DepartedGrows DEF TrueOf
<1>7. QED
  BY <1>2, <1>3, <1>4, <1>5, <1>6 DEF Answer

LEMMA FinalAnswerCases ==
    /\ \A r \in {"accepted", "duplicate"} : FinalAnswers(r) = {"applied"}
    /\ FinalAnswers("conflict") = {"conflict"}
    /\ FinalAnswers("rejected") = {"rejected"}
    /\ FinalAnswers("forbidden") = {"forbidden"}
    /\ \A r \in {"none", "cache_pending", "unavailable", "error"} :
           FinalAnswers(r) = {}
    /\ \A r : FinalAnswers(r) \subseteq Answer
  BY DEF FinalAnswers, Answer

\* A call answers what is true at that moment.
LEMMA AnswerIsTrue ==
    ASSUME IInv, NEW c \in Call,
           Send(c) \/ Work(c) \/ InvalidateFails(c) \/ Deliver(c) \/ Crash(c),
           pc'[c] = "answered", NEW a \in FinalAnswers(reply'[c])
    PROVE  TrueOf(c.key, c.payload, a)'
<1> USE LabelsAndReplies DEF IInv, TypeOK, dbVars, members
<1>0. c.key \in Key /\ c.payload \in Payload /\ c.payload # Absent
  BY CallFields, CreateAssumption
<1>1. CASE RejectCreate(c)
  <2>1. a = "rejected"
    BY <1>1, RespondType, FinalAnswerCases DEF RejectCreate
  <2>2. record[c.key] = Absent
    BY <1>0, <1>1, NobodyAssumption DEF RejectCreate, ReservationInv
  <2>3. archived \/ c.payload \in Invalid \/ Names[c.payload] \intersect departed # {}
    BY <1>1 DEF RejectCreate, Admits, MembershipInv
  <2>4. UNCHANGED <<record, archived, departed>>
    BY <1>1 DEF RejectCreate
  <2>5. QED
    BY <1>0, <2>1, <2>2, <2>3, <2>4 DEF TrueOf
<1>2. CASE Replay(c)
  <2>1. CASE Respond(c, "conflict") /\ record[c.key] # c.payload
    <3>1. a = "conflict"
      BY <2>1, RespondType, FinalAnswerCases
    <3>2. record[c.key] # Absent /\ UNCHANGED record
      BY <1>2 DEF Replay, PositionInv
    <3>3. QED
      BY <2>1, <3>1, <3>2 DEF TrueOf
  <2>2. CASE Respond(c, "unavailable")
    BY <2>2, RespondType, FinalAnswerCases
  <2>3. CASE \E l \in {"invalidate", "append"} : Goto(c, l)
    BY <2>3, GotoType
  <2>4. QED
    BY <1>2, <2>1, <2>2, <2>3 DEF Replay
<1>3. CASE InvalidateFails(c)
  <2>1. CASE Respond(c, "cache_pending")
    BY <2>1, RespondType, FinalAnswerCases
  <2>2. CASE Goto(c, "append")
    BY <2>2, GotoType
  <2>3. QED
    BY <1>3, <2>1, <2>2 DEF InvalidateFails
<1>4. CASE CheckFeed(c)
  <2>1. record[c.key] = c.payload /\ UNCHANGED <<record, feed>>
    BY <1>4 DEF CheckFeed, PositionInv
  <2>2. CASE Respond(c, Success(c)) /\ c.key \notin Queued \ feed
    <3>1. a = "applied"
      BY <2>2, RespondType, FinalAnswerCases
    <3>2. QED
      BY <2>1, <2>2, <3>1 DEF TrueOf
  <2>3. CASE Goto(c, "insert")
    BY <2>3, GotoType
  <2>4. QED
    BY <1>4, <2>2, <2>3 DEF CheckFeed
<1>5. CASE InsertChange(c)
  <2>1. record[c.key] = c.payload /\ UNCHANGED record
    BY <1>5 DEF InsertChange, PositionInv
  <2>2. CASE Respond(c, "error")
    BY <2>2, RespondType, FinalAnswerCases
  <2>3. CASE Respond(c, Success(c)) /\ feed' = feed \union {c.key}
    <3>1. a = "applied"
      BY <2>3, RespondType, FinalAnswerCases
    <3>2. QED
      BY <2>1, <2>3, <3>1 DEF TrueOf
  <2>4. QED
    BY <1>5, <2>2, <2>3 DEF InsertChange
<1>6. CASE \/ Send(c) \/ Lookup(c) \/ Reserve(c) \/ LockGroup(c) \/ Invalidate(c)
           \/ CommitCreate(c) \/ Deliver(c) \/ Crash(c)
  <2>1. CASE Send(c) \/ Lookup(c) \/ Reserve(c) \/ LockGroup(c)
    <3>1. \E l \in Label \ {"answered"} : Goto(c, l)
      BY <2>1 DEF Send, Lookup, Reserve, LockGroup, Label
    <3>2. QED
      BY <3>1, GotoType
  <2>2. CASE Invalidate(c) \/ CommitCreate(c)
    <3>1. \E l \in Label \ {"answered"} : Goto(c, l)
      BY <2>2 DEF Invalidate, CommitCreate, Label
    <3>2. QED
      BY <3>1, GotoType
  <2>3. CASE Deliver(c) \/ Crash(c)
    <3>1. Forget(c)
      BY <2>3 DEF Deliver, Crash
    <3>2. QED
      BY <3>1, ForgetType
  <2>4. QED
    BY <1>6, <2>1, <2>2, <2>3
<1>7. CASE CheckMembership(c)
  <2>1. CASE Respond(c, "forbidden") /\ Sender[c.key] \in away
    <3>1. a = "forbidden"
      BY <2>1, RespondType, FinalAnswerCases
    <3>2. Sender[c.key] \in departed /\ UNCHANGED departed
      BY <1>7, <2>1 DEF CheckMembership, MembershipInv
    <3>3. QED
      BY <3>1, <3>2 DEF TrueOf
  <2>2. CASE Goto(c, "lookup")
    BY <2>2, GotoType
  <2>3. QED
    BY <1>7, <2>1, <2>2 DEF CheckMembership
<1>8. QED
  BY <1>1, <1>2, <1>3, <1>4, <1>5, <1>6, <1>7 DEF Work

\* Callers are told only the answers calls have produced.
LEMMA ToldSource ==
    ASSUME TypeOK, [Next]_vars, NEW i \in Intent, NEW a \in told'[i]
    PROVE  \/ a \in told[i]
           \/ \E c \in Call : /\ IntentOf(c) = i
                              /\ pc[c] = "answered"
                              /\ a \in FinalAnswers(reply[c])
<1>1. ASSUME NEW c \in Call, Deliver(c)
      PROVE  \/ a \in told[i]
             \/ /\ IntentOf(c) = i
                /\ pc[c] = "answered"
                /\ a \in FinalAnswers(reply[c])
  BY <1>1 DEF Deliver, TypeOK
<1>2. ASSUME NEW c \in Call, Send(c) \/ Work(c) \/ InvalidateFails(c) \/ Crash(c)
      PROVE  UNCHANGED told
  BY <1>2 DEF Send, Work, CheckMembership, Lookup, Reserve, LockGroup, CommitCreate,
              RejectCreate, Replay, Invalidate, CheckFeed, InsertChange,
              InvalidateFails, Crash
<1>3. ASSUME Others \/ UNCHANGED vars
      PROVE  UNCHANGED told
  BY <1>3 DEF Others, Archive, DeleteExpense, Leave, Rejoin, members, vars
<1>4. QED
  BY <1>1, <1>2, <1>3 DEF Next

LEMMA StepAnswer ==
    ASSUME IInv, [Next]_vars
    PROVE  AnswerInv'
<1> USE FinalAnswerCases DEF IInv
<1>1. ASSUME NEW c \in Call, pc'[c] = "answered", NEW a \in FinalAnswers(reply'[c])
      PROVE  TrueOf(c.key, c.payload, a)'
  <2>1. CASE pc'[c] = pc[c] /\ reply'[c] = reply[c]
    <3>1. TrueOf(c.key, c.payload, a)
      BY <1>1, <2>1 DEF AnswerInv
    <3>2. QED
      BY <1>1, <2>1, <3>1, TrueOfStable, CallFields
  <2>2. CASE Send(c) \/ Work(c) \/ InvalidateFails(c) \/ Deliver(c) \/ Crash(c)
    BY <1>1, <2>2, AnswerIsTrue
  <2>3. QED
    BY <2>1, <2>2, OneCallMoves
<1>2. ASSUME NEW i \in Intent, NEW a \in told'[i]
      PROVE  TrueOf(i.key, i.payload, a)'
  <2>1. a \in Answer /\ TrueOf(i.key, i.payload, a)
    <3>1. CASE a \in told[i]
      BY <3>1 DEF AnswerInv, TypeOK
    <3>2. ASSUME NEW c \in Call, IntentOf(c) = i, pc[c] = "answered",
                 a \in FinalAnswers(reply[c])
          PROVE  a \in Answer /\ TrueOf(i.key, i.payload, a)
      BY <3>2, CallFields DEF AnswerInv
    <3>3. QED
      BY <1>2, <3>1, <3>2, ToldSource
  <2>2. QED
    BY <1>2, <2>1, TrueOfStable, IntentFields
<1>3. QED
  BY <1>1, <1>2 DEF AnswerInv

LEMMA StepIInv == ASSUME IInv, [Next]_vars PROVE IInv'
<1>1. TypeOK'
  BY StepType DEF IInv
<1>2. RecordMatchesResource' /\ FeedOnlyCommitted'
  BY StepRecord, StepFeed
<1>3. ReservationInv' /\ GroupLockInv'
  BY StepLocks
<1>4. PositionInv' /\ MembershipInv' /\ AnswerInv'
  BY StepPosition, StepAnswer, DepartedGrows DEF IInv
<1>5. QED
  BY <1>1, <1>2, <1>3, <1>4 DEF IInv

\* The inductive invariant holds in every reachable state.
THEOREM Invariance == Spec => []IInv
<1>1. Init => IInv
  BY InitIInv
<1>2. IInv /\ [Next]_vars => IInv'
  BY StepIInv
<1>3. QED
  BY <1>1, <1>2, PTL DEF Spec

-----------------------------------------------------------------------------
(* The properties.                                                         *)

\* However many calls of a key race, crash and retry, one resource at most is
\* committed under it.
THEOREM AtMostOnce == Spec => []AtMostOneEffect
<1>1. IInv => AtMostOneEffect
  <2>1. SUFFICES ASSUME IInv, NEW k \in Key PROVE Len(resources[k]) <= 1
    BY DEF AtMostOneEffect
  <2>2. resources[k] = <<>> \/ resources[k] = <<record[k]>>
    BY <2>1 DEF IInv, RecordMatchesResource
  <2>3. Len(<<>>) = 0 /\ \A p : Len(<<p>>) = 1
    OBVIOUS
  <2>4. Len(resources[k]) = 0 \/ Len(resources[k]) = 1
    BY <2>2, <2>3
  <2>5. \A n : n = 0 \/ n = 1 => n <= 1
    OBVIOUS
  <2>6. QED
    BY <2>4, <2>5, Zenon
<1>2. QED
  BY <1>1, Invariance, PTL

\* A success that a caller has heard of is in the ledger with the caller's
\* body, and in the change feed when the offline queue sent it.
THEOREM Durability == Spec => []AppliedIsDurable
<1>1. IInv => AppliedIsDurable
  <2>1. SUFFICES ASSUME IInv, NEW i \in Intent, "applied" \in told[i]
                 PROVE  /\ resources[i.key] = <<i.payload>>
                        /\ i.key \in Queued => i.key \in feed
    BY DEF AppliedIsDurable
  <2>2. TrueOf(i.key, i.payload, "applied")
    BY <2>1 DEF IInv, AnswerInv
  <2>3. /\ record[i.key] = i.payload
        /\ i.key \in Queued => i.key \in feed
    BY <2>2 DEF TrueOf
  <2>4. QED
    BY <2>1, <2>3, IntentFields, CreateAssumption DEF IInv, RecordMatchesResource
<1>2. QED
  BY <1>1, Invariance, PTL

\* A caller of an applied intent who is told otherwise is told that a
\* membership ended, and one of the users the intent concerns has left.
THEOREM ConsistentAnswers == Spec => []NoMixedAnswers
<1>1. IInv => NoMixedAnswers
  <2>1. SUFFICES ASSUME IInv, NEW i \in Intent, "applied" \in told[i],
                        NEW a \in told[i], a # "applied"
                 PROVE  \/ a = "forbidden" /\ Sender[i.key] \in departed
                        \/ a = "rejected" /\ Names[i.payload] \intersect departed # {}
    BY DEF NoMixedAnswers
  <2>2. a \in {"conflict", "rejected", "forbidden"}
    BY <2>1 DEF IInv, TypeOK, Answer
  <2>3. TrueOf(i.key, i.payload, "applied") /\ TrueOf(i.key, i.payload, a)
    BY <2>1 DEF IInv, AnswerInv
  <2>4. record[i.key] = i.payload
    BY <2>3 DEF TrueOf
  <2>5. CASE a = "conflict"
    BY <2>3, <2>4, <2>5 DEF TrueOf
  <2>6. CASE a = "rejected"
    BY <2>3, <2>4, <2>6 DEF TrueOf
  <2>7. CASE a = "forbidden"
    BY <2>3, <2>7 DEF TrueOf
  <2>8. QED
    BY <2>2, <2>5, <2>6, <2>7
<1>2. QED
  BY <1>1, Invariance, PTL

\* The ledger is written by one call at a time, under its reservation.
THEOREM Serialised == Spec => []LedgerIsSerialised
<1>1. IInv => LedgerIsSerialised
  BY DEF IInv, LedgerIsSerialised, ReservationInv, GroupLockInv
<1>2. QED
  BY <1>1, Invariance, PTL

\* What is committed is never replaced or withdrawn.
THEOREM Permanence == Spec => CommittedIsPermanent
<1>1. ASSUME IInv, [Next]_vars
      PROVE  \A k \in Key : record[k] # Absent => /\ record'[k] = record[k]
                                                  /\ resources'[k] = resources[k]
  BY <1>1, LedgerGrows DEF IInv
<1>2. QED
  BY <1>1, Invariance, PTL DEF Spec, CommittedIsPermanent

-----------------------------------------------------------------------------
(* IdempotentCreate implements CreateOnce.                                 *)

LEMMA CommitApplies ==
    ASSUME IInv, NEW c \in Call, CommitCreate(c)
    PROVE  Abstract!Apply(IntentOf(c))
<1>1. c.key \in Key /\ IntentOf(c).key = c.key /\ IntentOf(c).payload = c.payload
  BY CallFields
<1>2. resources[c.key] = <<>>
  BY <1>1, CommitFindsKeyFree DEF IInv, RecordMatchesResource
<1>3. /\ ~archived /\ c.payload \notin Invalid
      /\ UNCHANGED <<archived, departed, told>>
  BY DEF CommitCreate, Admits, members
<1>4. resources' = [resources EXCEPT ![c.key] = <<c.payload>>]
  <2>1. resources' = [resources EXCEPT ![c.key] = Append(<<>>, c.payload)]
    BY <1>2 DEF CommitCreate
  <2>2. Append(<<>>, c.payload) = <<c.payload>>
    OBVIOUS
  <2>3. QED
    BY <2>1, <2>2
<1>5. QED
  BY <1>1, <1>2, <1>3, <1>4 DEF Abstract!Apply

LEMMA DeliverTells ==
    ASSUME IInv, NEW c \in Call, Deliver(c)
    PROVE  \/ \E a \in Answer :
                 Abstract!Tell(IntentOf(c), a)
           \/ UNCHANGED <<resources, archived, departed, told>>
<1> DEFINE i == IntentOf(c)
<1>1. i \in Intent /\ i.key = c.key /\ i.payload = c.payload /\ c.key \in Key
  BY CallFields
<1>2. /\ told' = [told EXCEPT ![i] = told[i] \union FinalAnswers(reply[c])]
      /\ UNCHANGED <<resources, archived, departed>>
      /\ pc[c] = "answered"
  BY DEF Deliver, dbVars
<1>3. told \in [Intent -> SUBSET Answer]
  BY DEF IInv, TypeOK
<1>4. CASE FinalAnswers(reply[c]) = {}
  BY <1>1, <1>2, <1>3, <1>4
<1>5. ASSUME NEW a \in Answer,
             FinalAnswers(reply[c]) = {a}
      PROVE  Abstract!Tell(i, a)
  <2>1. TrueOf(c.key, c.payload, a)
    BY <1>2, <1>5 DEF IInv, AnswerInv
  <2>2. Abstract!Justified(i, a)
    <3>1. c.payload # Absent
      BY CallFields, CreateAssumption
    <3>2. IF record[c.key] = Absent THEN resources[c.key] = <<>>
          ELSE resources[c.key] = <<record[c.key]>>
      BY <1>1 DEF IInv, RecordMatchesResource
    <3>3. \A x, y : <<x>> # <<>> /\ (<<x>> = <<y>> => x = y)
      OBVIOUS
    <3>4. CASE a = "applied"
      BY <1>1, <2>1, <3>1, <3>2, <3>4 DEF TrueOf, Abstract!Justified
    <3>5. CASE a = "conflict"
      <4>1. record[c.key] # Absent /\ record[c.key] # c.payload
        BY <2>1, <3>5 DEF TrueOf
      <4>2. resources[c.key] \notin {<<>>, <<c.payload>>}
        BY <3>2, <3>3, <4>1, Zenon
      <4>3. QED
        BY <1>1, <3>5, <4>2 DEF Abstract!Justified
    <3>6. CASE a = "rejected" /\ Names[c.payload] \intersect departed # {}
      BY <1>1, <3>6 DEF Abstract!Justified
    <3>7. CASE a = "forbidden"
      BY <1>1, <2>1, <3>7 DEF TrueOf, Abstract!Justified
    <3>8. CASE a = "rejected" /\ Names[c.payload] \intersect departed = {}
      <4>1. record[c.key] # c.payload /\ (archived \/ c.payload \in Invalid)
        BY <2>1, <3>8 DEF TrueOf
      <4>2. resources[c.key] # <<c.payload>>
        BY <3>2, <3>3, <4>1, Zenon
      <4>3. QED
        BY <1>1, <3>8, <4>1, <4>2 DEF Abstract!Justified
    <3>9. QED
      BY <3>4, <3>5, <3>6, <3>7, <3>8 DEF Answer
  <2>3. QED
    BY <1>2, <1>5, <2>2 DEF Abstract!Tell
<1>6. reply[c] \in Reply
  BY DEF IInv, TypeOK
<1>7. \/ FinalAnswers(reply[c]) = {}
      \/ \E a \in Answer : FinalAnswers(reply[c]) = {a}
  BY <1>6, FinalAnswerCases DEF Reply, Answer
<1>8. QED
  BY <1>4, <1>5, <1>7

LEMMA StepRefines ==
    ASSUME IInv, [Next]_vars
    PROVE  [Abstract!AbsNext]_(Abstract!absVars)
<1> USE DEF Abstract!absVars
<1>1. ASSUME NEW c \in Call, CommitCreate(c)
      PROVE  Abstract!AbsNext
  <2>1. IntentOf(c) \in Abstract!Intent
    BY CallFields DEF Intent, Abstract!Intent
  <2>2. QED
    BY <1>1, <2>1, CommitApplies DEF Abstract!AbsNext
<1>2. ASSUME NEW c \in Call, Deliver(c)
      PROVE  [Abstract!AbsNext]_(Abstract!absVars)
  <2>1. IntentOf(c) \in Abstract!Intent
    BY CallFields DEF Intent, Abstract!Intent
  <2>2. QED
    BY <1>2, <2>1, DeliverTells DEF Answer, Abstract!AbsNext, Abstract!Answer
<1>3. CASE Archive
  BY <1>3 DEF Archive, members, Abstract!AbsNext, Abstract!Close
<1>4. ASSUME NEW c \in Call, Work(c), ~CommitCreate(c)
      PROVE  UNCHANGED <<resources, archived, departed, told>>
  BY <1>4 DEF Work, CheckMembership, Lookup, Reserve, LockGroup, RejectCreate,
              Replay, Invalidate, CheckFeed, InsertChange, members, dbVars
<1>5. ASSUME NEW c \in Call, Send(c) \/ InvalidateFails(c) \/ Crash(c)
      PROVE  UNCHANGED <<resources, archived, departed, told>>
  BY <1>5 DEF Send, InvalidateFails, Crash, members, dbVars
<1>6. ASSUME (\E k \in Key : DeleteExpense(k)) \/ UNCHANGED vars
      PROVE  UNCHANGED <<resources, archived, departed, told>>
  BY <1>6 DEF DeleteExpense, members, vars
<1>7. ASSUME NEW u \in User, Leave(u)
      PROVE  Abstract!AbsNext
  BY <1>7 DEF Leave, Abstract!AbsNext, Abstract!Depart
<1>8. ASSUME NEW u \in User, Rejoin(u)
      PROVE  UNCHANGED <<resources, archived, departed, told>>
  BY <1>8 DEF Rejoin
<1>9. QED
  BY <1>1, <1>2, <1>3, <1>4, <1>5, <1>6, <1>7, <1>8 DEF Next, Others

\* The endpoints implement the promise of CreateOnce: to a caller who retries,
\* the transactions, reservations, locks and crashes are invisible.
THEOREM Refinement == Spec => ImplementsCreateOnce
<1>1. Init => Abstract!AbsInit
  BY DEF Init, Abstract!AbsInit, Intent, Abstract!Intent
<1>2. IInv /\ [Next]_vars => [Abstract!AbsNext]_(Abstract!absVars)
  BY StepRefines
<1>3. QED
  BY <1>1, <1>2, Invariance, PTL DEF Spec, ImplementsCreateOnce, Abstract!AbsSpec
=============================================================================
