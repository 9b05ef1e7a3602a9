--------------------------- MODULE AccountsProofs ---------------------------
(***************************************************************************)
(* Proofs about Accounts: the inductive invariant and the four properties  *)
(* it implies, for any requests, users, sessions, links and workloads.     *)
(***************************************************************************)
EXTENDS Accounts, TLAPS

\* What a commit leaves of rows: none disappears, users keep what was verified
\* and no session becomes live again.
Follow ==
    /\ \A n \in Session : sessions[n].state # "free" =>
          /\ sessions'[n].state # "free"
          /\ sessions'[n].user = sessions[n].user
          /\ sessions'[n].family = sessions[n].family
          /\ sessions'[n].raced = sessions[n].raced
          /\ sessions'[n].state = "live" => sessions[n].state = "live"
    /\ \A t \in Token : tokens[t].state # "free" => tokens'[t].state # "free"
    /\ \A u \in User : users[u].status # "free" /\ users[u].verified =>
          users'[u].status # "free" /\ users'[u].verified

\* What a commit leaves to another transaction.
Undisturbed(q) ==
    /\ \A n \in Session : n \in tx[q].held /\ sessions[n].state # "free" =>
          sessions'[n].state = sessions[n].state
    /\ \A t \in Token : t \in tx[q].held /\ tokens[t].state # "free" =>
          tokens'[t].state = tokens[t].state
    /\ tx[q].made # None => sessions'[tx[q].made].state = "free"
    /\ Revokes(tx[q]) => \A n \in Session :
          sessions[n].state = "free" /\ sessions'[n].state = "live" => sessions'[n].raced
    /\ tx[q].raced \/ tx[q] = Idle \/ \A u \in User : users'[u].era <= users[u].era

LEMMA IdleType ==
    /\ Idle \in Transaction /\ Idle.op = "idle" /\ Idle.step = "idle" /\ Idle.held = {}
    /\ Idle.made = None /\ Idle.cut = {} /\ Idle.scan = {} /\ ~Revokes(Idle)
BY DEF Idle, Transaction, Operation, Revokes, Revoker

LEMMA IdleOk == ASSUME TypeOK PROVE TxOk(Idle)
<1>1. PathOk(Idle)
  BY IdleType DEF PathOk, Loading, Revoker
<1>2. SessionOk(Idle) /\ LinkOk(Idle)
  BY IdleType DEF SessionOk, LinkOk
<1>3. LoginOk(Idle)
  BY IdleType DEF LoginOk
<1>4. RevocationOk(Idle)
  BY IdleType DEF RevocationOk
<1>5. QED
  BY <1>1, <1>2, <1>3, <1>4 DEF TxOk

\* Who is not disturbed still knows what it knew.
LEMMA Frame ==
    ASSUME IInv, NEW q \in Request, TypeOK', tx'[q] = tx[q], Follow, Undisturbed(q)
    PROVE  TxOk(tx[q])'
<1>1. tx[q] \in Transaction /\ TxOk(tx[q])
  BY DEF IInv, TypeOK, TxInv
<1>2. PathOk(tx[q])'
  BY <1>1 DEF TxOk, PathOk
<1>3. SessionOk(tx[q])'
  BY <1>1 DEF TxOk, SessionOk, Follow, Undisturbed
<1>4. LinkOk(tx[q])'
  BY <1>1 DEF TxOk, LinkOk, Follow, Undisturbed
<1>5. LoginOk(tx[q])'
  <2>1. tx[q].op \in {"login", "oauth"} /\ tx[q].step \in {"join", "commit"} =>
            tx[q].user \in User /\ tx[q] # Idle
    BY <1>1, IdleType DEF TxOk, PathOk, Loading
  <2>2. tx[q].step = "join" => tx[q].user \in User
    BY <1>1 DEF TxOk, PathOk, Loading
  <2>3. tx[q].op \in {"login", "oauth"} /\ tx[q].step \in {"join", "commit"} =>
            tx[q].era >= users'[tx[q].user].era \/ tx[q].raced
    <3>1. \A u \in User : users[u].era \in Nat /\ users'[u].era \in Nat
      BY DEF IInv, TypeOK, UserRow
    <3>2. tx[q].era \in Nat
      BY <1>1 DEF Transaction
    <3>3. QED
      BY <1>1, <2>1, <3>1, <3>2 DEF TxOk, LoginOk, Undisturbed
  <2>4. QED
    BY <1>1, <2>2, <2>3 DEF TxOk, LoginOk, Follow
<1>6. RevocationOk(tx[q])'
  <2>1. \A n \in Session : sessions[n].state # "free" /\ tx[q].op \in Revoker =>
            (Concerns(tx[q], n)' <=> Concerns(tx[q], n))
    BY <1>1 DEF Concerns, Follow, TxOk, SessionOk, Revoker
  <2>2. \A n \in tx[q].cut \union tx[q].scan :
            n \in Session => sessions[n].state # "free" /\ Concerns(tx[q], n)
    BY <1>1 DEF TxOk, RevocationOk
  <2>3. Revokes(tx[q]) => tx[q].op \in Revoker
    BY DEF Revokes, Revoker
  <2>4. \A n \in tx[q].cut \union tx[q].scan :
            n \in Session => sessions'[n].state # "free" /\ Concerns(tx[q], n)'
    BY <2>2, <1>1 DEF Concerns, Follow, TxOk, SessionOk
  <2>5. Revokes(tx[q]) => \A n \in Session :
            sessions'[n].state = "live" /\ Concerns(tx[q], n)' =>
                n \in tx[q].scan \union tx[q].cut \/ sessions'[n].raced
    <3>1. SUFFICES ASSUME Revokes(tx[q]), NEW n \in Session, sessions'[n].state = "live",
                          Concerns(tx[q], n)'
                   PROVE  n \in tx[q].scan \union tx[q].cut \/ sessions'[n].raced
      OBVIOUS
    <3>2. CASE sessions[n].state = "free"
      BY <3>1, <3>2 DEF Undisturbed
    <3>3. CASE sessions[n].state # "free"
      BY <3>1, <3>3, <2>1, <2>3, <1>1 DEF Follow, TxOk, RevocationOk
    <3>4. QED
      BY <3>2, <3>3
  <2>6. QED
    BY <1>1, <2>4, <2>5 DEF TxOk, RevocationOk, Revokes
<1>7. QED
  BY <1>2, <1>3, <1>4, <1>5, <1>6 DEF TxOk

\* A transaction ends and its changes leave what others know.
LEMMA Ending ==
    ASSUME IInv, NEW r \in Request, tx' = [tx EXCEPT ![r] = Idle], TypeOK', RowInv', Follow,
           \A q \in Request \ {r} : Undisturbed(q),
           OneLivePerFamily', RevocationEndsSessions', LinkWorksOnce', LinkedIsVerified'
    PROVE  IInv'
<1>1. tx \in [Request -> Transaction] /\ tx'[r] = Idle
  BY DEF IInv, TypeOK
<1>2. \A q \in Request \ {r} : tx'[q] = tx[q]
  BY <1>1
<1>3. TxInv'
  <2>1. TxOk(tx[r])'
    <3>1. PathOk(tx[r])'
      BY <1>1, IdleType DEF PathOk, Loading, Revoker
    <3>2. SessionOk(tx[r])' /\ LinkOk(tx[r])'
      BY <1>1, IdleType DEF SessionOk, LinkOk
    <3>3. LoginOk(tx[r])'
      BY <1>1, IdleType DEF LoginOk
    <3>4. RevocationOk(tx[r])'
      BY <1>1, IdleType DEF RevocationOk
    <3>5. QED
      BY <3>1, <3>2, <3>3, <3>4 DEF TxOk
  <2>2. \A q \in Request \ {r} : TxOk(tx[q])'
    BY <1>2, Frame
  <2>3. QED
    BY <2>1, <2>2 DEF TxInv
<1>4. ApartInv'
  <2>1. SUFFICES ASSUME NEW p \in Request, NEW q \in Request \ {p}
                 PROVE  /\ tx'[p].held \intersect tx'[q].held = {}
                        /\ tx'[p].made # None => tx'[p].made # tx'[q].made
                        /\ Revokes(tx'[p]) /\ tx'[q] # Idle => tx'[q].raced
    BY DEF ApartInv, Revokes
  <2>2. CASE p = r \/ q = r
    BY <1>1, <2>2, IdleType
  <2>3. CASE p # r /\ q # r
    BY <1>2, <2>3 DEF IInv, ApartInv
  <2>4. QED
    BY <2>2, <2>3
<1>5. QED
  BY <1>3, <1>4 DEF IInv

\* A transaction ends without a trace.
LEMMA Failing == ASSUME IInv, NEW r \in Request, Fail(r) PROVE IInv'
<1>1. tx' = [tx EXCEPT ![r] = Idle] /\ UNCHANGED <<users, sessions, tokens, links, used, workload>>
  BY DEF Fail, End, db
<1>2. TypeOK'
  BY <1>1, IdleType DEF IInv, TypeOK
<1>3. Follow /\ \A q \in Request \ {r} : Undisturbed(q)
  BY <1>1 DEF Follow, Undisturbed, IInv, TxInv, TxOk, SessionOk, TypeOK, UserRow
<1>4. RowInv' /\ OneLivePerFamily' /\ RevocationEndsSessions' /\ LinkWorksOnce' /\ LinkedIsVerified'
  BY <1>1 DEF IInv, RowInv, OneLivePerFamily, RevocationEndsSessions, LinkWorksOnce, LinkedIsVerified,
     Exists
<1>5. QED
  BY <1>1, <1>2, <1>3, <1>4, Ending

\* A transaction goes on; nobody sees it.
LEMMA Moving ==
    ASSUME IInv, NEW r \in Request, UNCHANGED <<db, workload>>, tx' \in [Request -> Transaction],
           TxOk(tx'[r]), \A q \in Request \ {r} : TxOk(tx'[q]), ApartInv'
    PROVE  IInv'
<1>1. UNCHANGED <<users, sessions, tokens, links, used, workload>>
  BY DEF db
<1>2. TypeOK'
  BY <1>1 DEF IInv, TypeOK
<1>3. RowInv' /\ OneLivePerFamily' /\ RevocationEndsSessions' /\ LinkWorksOnce' /\ LinkedIsVerified'
  BY <1>1 DEF IInv, RowInv, OneLivePerFamily, RevocationEndsSessions, LinkWorksOnce, LinkedIsVerified,
     Exists
<1>4. TxInv'
  BY <1>1 DEF TxInv, TxOk, PathOk, SessionOk, LinkOk, LoginOk, RevocationOk, Concerns, Revokes
<1>5. QED
  BY <1>2, <1>3, <1>4 DEF IInv

\* It goes on to a later step, with one more row at most, which was free.
Onward(r, t) ==
    /\ tx[r] # Idle /\ t \in Transaction /\ TxOk(t)
    /\ t.raced = tx[r].raced /\ t.made = tx[r].made
    /\ Revokes(t) => Revokes(tx[r])
    /\ \A n \in t.held : n \in tx[r].held \/ Free(r, n)

LEMMA Advancing ==
    ASSUME IInv, NEW r \in Request, UNCHANGED <<db, workload>>, Onward(r, tx'[r]),
           tx' = [tx EXCEPT ![r] = tx'[r]]
    PROVE  IInv'
<1>1. tx \in [Request -> Transaction]
  BY DEF IInv, TypeOK
<1>2. \A q \in Request \ {r} : tx'[q] = tx[q]
  BY <1>1
<1>3. tx' \in [Request -> Transaction]
  BY <1>1 DEF Onward
<1>4. \A q \in Request \ {r} : TxOk(tx'[q])
  BY <1>2 DEF IInv, TxInv
<1>5. ApartInv'
  <2>1. SUFFICES ASSUME NEW p \in Request, NEW q \in Request \ {p}
                 PROVE  /\ tx'[p].held \intersect tx'[q].held = {}
                        /\ tx'[p].made # None => tx'[p].made # tx'[q].made
                        /\ Revokes(tx'[p]) /\ tx'[q] # Idle => tx'[q].raced
    BY DEF ApartInv, Revokes
  <2>2. CASE p # r /\ q # r
    BY <1>2, <2>2 DEF IInv, ApartInv
  <2>3. CASE p = r
    <3>1. tx'[q] = tx[q]
      BY <1>2, <2>3
    <3>2. \A n \in tx[q].held : n \notin tx'[r].held
      BY <2>3, <3>1 DEF Onward, Free, IInv, ApartInv
    <3>3. QED
      BY <2>3, <3>1, <3>2 DEF Onward, IInv, ApartInv
  <2>4. CASE q = r
    <3>1. tx'[p] = tx[p]
      BY <1>2, <2>4
    <3>2. \A n \in tx[p].held : n \notin tx'[r].held
      BY <2>4, <3>1 DEF Onward, Free, IInv, ApartInv
    <3>3. QED
      BY <2>4, <3>1, <3>2 DEF Onward, IInv, ApartInv
  <2>5. QED
    BY <2>2, <2>3, <2>4
<1>6. QED
  BY <1>3, <1>4, <1>5, Moving DEF Onward

LEMMA Facts == ASSUME IInv, NEW r \in Request PROVE tx[r] \in Transaction /\ TxOk(tx[r])
BY DEF IInv, TypeOK, TxInv

LEMMA StepLockSession == ASSUME IInv, NEW r \in Request, LockSession(r) PROVE IInv'
<1>1. CASE Fail(r)
  BY <1>1, Failing
<1>2. CASE Go(r, [tx[r] EXCEPT !.step = "user", !.held = @ \union {tx[r].key}])
  <2> DEFINE t == tx[r]
             u == tx'[r]
  <2>1. /\ tx' = [tx EXCEPT ![r] = u] /\ UNCHANGED <<db, workload>>
        /\ u = [t EXCEPT !.step = "user", !.held = t.held \union {t.key}]
        /\ t.step = "session" /\ Free(r, t.key)
    BY <1>2 DEF LockSession, Go, At, IInv, TypeOK
  <2>2. t \in Transaction /\ TxOk(t)
    BY Facts
  <2>3. t.key \in Session /\ t.op \in {"refresh", "logout", "logoutAll"}
    BY <2>1, <2>2 DEF TxOk, PathOk, SessionOk
  <2>4. t.held \union {t.key} \in SUBSET Row
    BY <2>2, <2>3 DEF Transaction, Row
  <2>5. u \in Transaction
    BY <2>1, <2>2, <2>3, <2>4 DEF Transaction
  <2>6. /\ u.op = t.op /\ u.key = t.key /\ u.user = t.user /\ u.made = t.made
        /\ u.version = t.version /\ u.era = t.era /\ u.raced = t.raced /\ u.scan = t.scan
        /\ u.cut = t.cut /\ u.step = "user" /\ u.held = t.held \union {t.key}
    BY <2>1, <2>2 DEF Transaction
  <2>7. t.step # "idle" /\ t # Idle /\ PathOk(t) /\ SessionOk(t) /\ LinkOk(t) /\ LoginOk(t) /\ RevocationOk(t)
    BY <2>1, <2>2, IdleType DEF TxOk
  <2> HIDE DEF t, u
  <2>8. TxOk(u)
    <3>1. PathOk(u)
      BY <2>1, <2>6, <2>7, <2>3, <2>4, IdleType DEF PathOk, Revoker, Loading
    <3>2. SessionOk(u)
      BY <2>1, <2>6, <2>7, <2>3, <2>4 DEF PathOk, SessionOk, Loading, Revoker
    <3>3. LinkOk(u) /\ LoginOk(u)
      BY <2>1, <2>6, <2>7, <2>3, <2>4 DEF PathOk, LinkOk, LoginOk, Revoker
    <3>4. RevocationOk(u)
      BY <2>1, <2>6, <2>7, <2>3, <2>4 DEF PathOk, RevocationOk, Concerns, Revokes, Revoker
    <3>5. QED
      BY <3>1, <3>2, <3>3, <3>4 DEF TxOk
  <2>9. Onward(r, u)
    BY <2>1, <2>5, <2>6, <2>7, <2>8, <2>3, <2>4 DEF Onward, PathOk, Revokes, Revoker, t
  <2>10. QED
    BY <2>1, <2>9, Advancing DEF t, u
<1>3. QED
  BY <1>1, <1>2 DEF LockSession

LEMMA StepLockToken == ASSUME IInv, NEW r \in Request, LockToken(r) PROVE IInv'
<1>1. CASE Fail(r)
  BY <1>1, Failing
<1>2. CASE tokens[tx[r].key].state = "active" /\ Go(r, [tx[r] EXCEPT !.step = "user", !.held = @ \union {tx[r].key}])
  <2> DEFINE t == tx[r]
             u == tx'[r]
  <2>1. /\ tx' = [tx EXCEPT ![r] = u] /\ UNCHANGED <<db, workload>>
        /\ u = [t EXCEPT !.step = "user", !.held = t.held \union {t.key}]
        /\ t.step = "token" /\ Free(r, t.key) /\ tokens[t.key].state = "active"
    BY <1>2 DEF LockToken, Go, At, IInv, TypeOK
  <2>2. t \in Transaction /\ TxOk(t)
    BY Facts
  <2>3. t.key \in Token /\ t.op \in {"verify", "reset"}
    BY <2>1, <2>2 DEF TxOk, PathOk, LinkOk
  <2>4. t.held \union {t.key} \in SUBSET Row
    BY <2>2, <2>3 DEF Transaction, Row
  <2>5. u \in Transaction
    BY <2>1, <2>2, <2>3, <2>4 DEF Transaction
  <2>6. /\ u.op = t.op /\ u.key = t.key /\ u.user = t.user /\ u.made = t.made
        /\ u.version = t.version /\ u.era = t.era /\ u.raced = t.raced /\ u.scan = t.scan
        /\ u.cut = t.cut /\ u.step = "user" /\ u.held = t.held \union {t.key}
    BY <2>1, <2>2 DEF Transaction
  <2>7. t.step # "idle" /\ t # Idle /\ PathOk(t) /\ SessionOk(t) /\ LinkOk(t) /\ LoginOk(t) /\ RevocationOk(t)
    BY <2>1, <2>2, IdleType DEF TxOk
  <2> HIDE DEF t, u
  <2>8. TxOk(u)
    <3>1. PathOk(u)
      BY <2>1, <2>6, <2>7, <2>3, <2>4, IdleType DEF PathOk, Revoker, Loading
    <3>2. SessionOk(u)
      BY <2>1, <2>6, <2>7, <2>3, <2>4 DEF PathOk, SessionOk, Loading, Revoker
    <3>3. LinkOk(u) /\ LoginOk(u)
      BY <2>1, <2>6, <2>7, <2>3, <2>4 DEF PathOk, LinkOk, LoginOk, Revoker
    <3>4. RevocationOk(u)
      BY <2>1, <2>6, <2>7, <2>3, <2>4 DEF PathOk, RevocationOk, Concerns, Revokes, Revoker
    <3>5. QED
      BY <3>1, <3>2, <3>3, <3>4 DEF TxOk
  <2>9. Onward(r, u)
    BY <2>1, <2>5, <2>6, <2>7, <2>8, <2>3, <2>4 DEF Onward, PathOk, Revokes, Revoker, t
  <2>10. QED
    BY <2>1, <2>9, Advancing DEF t, u
<1>3. QED
  BY <1>1, <1>2 DEF LockToken

LEMMA StepFlushUser == ASSUME IInv, NEW r \in Request, FlushUser(r) PROVE IInv'
<1>1. CASE Fail(r)
  BY <1>1, Failing
<1>2. CASE Go(r, [tx[r] EXCEPT !.step = "scan", !.held = @ \union {tx[r].user}])
  <2> DEFINE t == tx[r]
             u == tx'[r]
  <2>1. /\ tx' = [tx EXCEPT ![r] = u] /\ UNCHANGED <<db, workload>>
        /\ u = [t EXCEPT !.step = "scan", !.held = t.held \union {t.user}]
        /\ t.step = "flush" /\ Free(r, t.user)
    BY <1>2 DEF FlushUser, Go, At, IInv, TypeOK
  <2>2. t \in Transaction /\ TxOk(t)
    BY Facts
  <2>3. t.user \in User /\ t.op \in Revoker
    BY <2>1, <2>2 DEF TxOk, PathOk, Loading
  <2>4. t.held \union {t.user} \in SUBSET Row
    BY <2>2, <2>3 DEF Transaction, Row
  <2>5. u \in Transaction
    BY <2>1, <2>2, <2>3, <2>4 DEF Transaction
  <2>6. /\ u.op = t.op /\ u.key = t.key /\ u.user = t.user /\ u.made = t.made
        /\ u.version = t.version /\ u.era = t.era /\ u.raced = t.raced /\ u.scan = t.scan
        /\ u.cut = t.cut /\ u.step = "scan" /\ u.held = t.held \union {t.user}
    BY <2>1, <2>2 DEF Transaction
  <2>7. t.step # "idle" /\ t # Idle /\ PathOk(t) /\ SessionOk(t) /\ LinkOk(t) /\ LoginOk(t) /\ RevocationOk(t)
    BY <2>1, <2>2, IdleType DEF TxOk
  <2> HIDE DEF t, u
  <2>8. TxOk(u)
    <3>1. PathOk(u)
      BY <2>1, <2>6, <2>7, <2>3, <2>4, IdleType DEF PathOk, Revoker, Loading
    <3>2. SessionOk(u)
      BY <2>1, <2>6, <2>7, <2>3, <2>4 DEF PathOk, SessionOk, Loading, Revoker
    <3>3. LinkOk(u) /\ LoginOk(u)
      BY <2>1, <2>6, <2>7, <2>3, <2>4 DEF PathOk, LinkOk, LoginOk, Revoker
    <3>4. RevocationOk(u)
      BY <2>1, <2>6, <2>7, <2>3, <2>4 DEF PathOk, RevocationOk, Concerns, Revokes, Revoker
    <3>5. QED
      BY <3>1, <3>2, <3>3, <3>4 DEF TxOk
  <2>9. Onward(r, u)
    BY <2>1, <2>5, <2>6, <2>7, <2>8, <2>3, <2>4 DEF Onward, PathOk, Revokes, Revoker, t
  <2>10. QED
    BY <2>1, <2>9, Advancing DEF t, u
<1>3. QED
  BY <1>1, <1>2 DEF FlushUser

LEMMA StepLockScanned == ASSUME IInv, NEW r \in Request, LockScanned(r) PROVE IInv'
<1>1. PICK s \in tx[r].scan \intersect Session :
          /\ Free(r, s)
          /\ Go(r, [tx[r] EXCEPT !.scan = @ \ {s}, !.held = @ \union {s},
                        !.cut = IF sessions[s].state = "live" THEN @ \union {s} ELSE @])
  BY DEF LockScanned
<1>2. IInv'
  <2> DEFINE t == tx[r]
             u == tx'[r]
  <2>1. /\ tx' = [tx EXCEPT ![r] = u] /\ UNCHANGED <<db, workload>>
        /\ u = [t EXCEPT !.scan = t.scan \ {s}, !.held = t.held \union {s}, !.cut = IF sessions[s].state = "live" THEN t.cut \union {s} ELSE t.cut]
        /\ t.step = "lock" /\ Free(r, s) /\ s \in t.scan /\ s \in Session
    BY <1>1 DEF LockScanned, Go, At, IInv, TypeOK
  <2>2. t \in Transaction /\ TxOk(t)
    BY Facts
  <2>3. t.op \in Revoker /\ Revokes(t)
    BY <2>1, <2>2 DEF TxOk, PathOk, RevocationOk, Revokes, Revoker
  <2>4. t.held \union {s} \in SUBSET Row /\ t.cut \union {s} \in SUBSET Session
    BY <2>1, <2>2 DEF Transaction, Row
  <2>5. u \in Transaction
    BY <2>1, <2>2, <2>3, <2>4, ZenonT(40) DEF Transaction
  <2>6. /\ u.op = t.op /\ u.step = t.step /\ u.key = t.key /\ u.user = t.user
        /\ u.made = t.made /\ u.version = t.version /\ u.era = t.era /\ u.raced = t.raced
        /\ u.scan = t.scan \ {s} /\ u.held = t.held \union {s}
        /\ u.cut = IF sessions[s].state = "live" THEN t.cut \union {s} ELSE t.cut
    BY <2>1, <2>2 DEF Transaction
  <2>7. t.step # "idle" /\ t # Idle /\ PathOk(t) /\ SessionOk(t) /\ LinkOk(t) /\ LoginOk(t) /\ RevocationOk(t)
    BY <2>1, <2>2, IdleType DEF TxOk
  <2> HIDE DEF t, u
  <2>8. TxOk(u)
    <3>1. PathOk(u)
      BY <2>1, <2>6, <2>7, <2>3, <2>4, IdleType DEF PathOk, Revoker, Loading
    <3>2. SessionOk(u)
      BY <2>1, <2>6, <2>7, <2>3, <2>4 DEF PathOk, SessionOk, Loading, Revoker
    <3>3. LinkOk(u) /\ LoginOk(u)
      BY <2>1, <2>6, <2>7, <2>3, <2>4 DEF PathOk, LinkOk, LoginOk, Revoker
    <3>4. RevocationOk(u)
      BY <2>1, <2>6, <2>7, <2>3, <2>4 DEF PathOk, RevocationOk, Concerns, Revokes, Revoker
    <3>5. QED
      BY <3>1, <3>2, <3>3, <3>4 DEF TxOk
  <2>9. Onward(r, u)
    BY <2>1, <2>5, <2>6, <2>7, <2>8, <2>3, <2>4 DEF Onward, PathOk, Revokes, Revoker, t
  <2>10. QED
    BY <2>1, <2>9, Advancing DEF t, u
<1>3. QED
  BY <1>2

\* A session is revoked by who holds its row.
LEMMA Revoking ==
    ASSUME IInv, NEW r \in Request, tx' = [tx EXCEPT ![r] = Idle],
           NEW S, \A n \in S \intersect Session : n \in tx[r].held /\ sessions[n].state # "free",
           sessions' = RevokedIn(S), UNCHANGED <<users, tokens, links, used, workload>>
    PROVE  IInv'
<1>1. TypeOK'
  BY IdleType DEF IInv, TypeOK, RevokedIn, SessionRow
<1>2. Follow
  BY DEF Follow, RevokedIn, IInv, TypeOK, SessionRow
<1>3. \A q \in Request \ {r} : Undisturbed(q)
  <2>1. SUFFICES ASSUME NEW q \in Request \ {r} PROVE Undisturbed(q)
    OBVIOUS
  <2>2. tx[q] \in Transaction /\ TxOk(tx[q]) /\ tx[q].held \intersect tx[r].held = {}
    BY Facts DEF IInv, ApartInv
  <2>3. tx[q].made # None => tx[q].made \in Session /\ sessions[tx[q].made].state = "free"
    BY <2>2 DEF TxOk, SessionOk, Transaction
  <2>4. QED
    BY <2>2, <2>3 DEF Undisturbed, RevokedIn, IInv, TypeOK, SessionRow, UserRow
<1>4. RowInv'
  <2>1. \A n \in Session : IF sessions[n].state = "free" THEN sessions'[n] = NoSession
                          ELSE /\ sessions'[n].state # "free"
                               /\ sessions'[n].family = sessions[n].family
    BY DEF RevokedIn, IInv, RowInv, TypeOK, SessionRow
  <2>2. NoSession.state = "free"
    BY DEF NoSession
  <2>3. QED
    BY <2>1, <2>2 DEF RowInv, IInv, TypeOK, SessionRow
<1>5. OneLivePerFamily' /\ RevocationEndsSessions'
  BY DEF OneLivePerFamily, RevocationEndsSessions, RevokedIn, IInv, TypeOK, SessionRow
<1>6. LinkWorksOnce' /\ LinkedIsVerified'
  BY DEF LinkWorksOnce, LinkedIsVerified, Exists, IInv
<1>7. QED
  BY <1>1, <1>2, <1>3, <1>4, <1>5, <1>6, Ending

LEMMA StepDecideRotation == ASSUME IInv, NEW r \in Request, DecideRotation(r) PROVE IInv'
<1>1. CASE Fail(r)
  BY <1>1, Failing
<1>2. CASE /\ At(r, {"refresh"}, "user") /\ Active(sessions[tx[r].key].user)
           /\ sessions[tx[r].key].state = "revoked"
           /\ Go(r, [tx[r] EXCEPT !.step = IF sessions[tx[r].key].reused THEN "scan" ELSE "flush", !.user = sessions[tx[r].key].user,
                                      !.version = users[sessions[tx[r].key].user].version])
  <2> DEFINE t == tx[r]
             u == tx'[r]
  <2>1. /\ tx' = [tx EXCEPT ![r] = u] /\ UNCHANGED <<db, workload>>
        /\ u = [t EXCEPT !.step = IF sessions[t.key].reused THEN "scan" ELSE "flush", !.user = sessions[t.key].user, !.version = users[sessions[t.key].user].version]
        /\ t.op = "refresh" /\ t.step = "user" /\ Active(sessions[t.key].user) /\ sessions[t.key].state = "revoked"
    BY <1>2 DEF DecideRotation, Go, At, IInv, TypeOK
  <2>2. t \in Transaction /\ TxOk(t)
    BY Facts
  <2>3. sessions[t.key].state # "free" /\ t.key \in Session
    BY <2>1, <2>2 DEF TxOk, SessionOk, Revoker
  <2>4. sessions[t.key].user \in User
    BY <2>3 DEF IInv, TypeOK, SessionRow
  <2>5. users[sessions[t.key].user].version \in Nat
    BY <2>4 DEF IInv, TypeOK, UserRow
  <2>6. u \in Transaction
    BY <2>1, <2>2, <2>3, <2>4, <2>5 DEF Transaction
  <2>7. /\ u.op = t.op /\ u.key = t.key /\ u.made = t.made /\ u.era = t.era
        /\ u.raced = t.raced /\ u.held = t.held /\ u.scan = t.scan /\ u.cut = t.cut
        /\ u.step = IF sessions[t.key].reused THEN "scan" ELSE "flush"
        /\ u.user = sessions[t.key].user /\ u.version = users[sessions[t.key].user].version
    BY <2>1, <2>2 DEF Transaction
  <2>8. t.step # "idle" /\ t # Idle /\ PathOk(t) /\ SessionOk(t) /\ LinkOk(t) /\ LoginOk(t) /\ RevocationOk(t)
    BY <2>1, <2>2, IdleType DEF TxOk
  <2> HIDE DEF t, u
  <2>9. TxOk(u)
    <3>1. PathOk(u)
      BY <2>1, <2>7, <2>8, <2>3, <2>4, <2>5, IdleType DEF PathOk, Revoker, Loading
    <3>2. SessionOk(u)
      BY <2>1, <2>7, <2>8, <2>3, <2>4, <2>5 DEF PathOk, SessionOk, Loading, Revoker
    <3>3. LinkOk(u) /\ LoginOk(u)
      BY <2>1, <2>7, <2>8, <2>3, <2>4, <2>5 DEF PathOk, LinkOk, LoginOk, Revoker
    <3>4. RevocationOk(u)
      BY <2>1, <2>7, <2>8, <2>3, <2>4, <2>5 DEF PathOk, RevocationOk, Concerns, Revokes, Revoker
    <3>5. QED
      BY <3>1, <3>2, <3>3, <3>4 DEF TxOk
  <2>10. Onward(r, u)
    <3>1. ~Revokes(u)
      BY <2>1, <2>7 DEF Revokes
    <3>2. t # Idle /\ u.raced = t.raced /\ u.made = t.made /\ u.held = t.held
      BY <2>7, <2>8
    <3>3. QED
      BY <2>6, <2>9, <3>1, <3>2 DEF Onward, t
  <2>11. QED
    BY <2>1, <2>10, Advancing DEF t, u
<1>3. CASE /\ At(r, {"refresh"}, "user") /\ Active(sessions[tx[r].key].user)
           /\ sessions[tx[r].key].state = "live"
           /\ Go(r, [tx[r] EXCEPT !.step = "insert", !.user = sessions[tx[r].key].user,
                                      !.version = users[sessions[tx[r].key].user].version])
  <2> DEFINE t == tx[r]
             u == tx'[r]
  <2>1. /\ tx' = [tx EXCEPT ![r] = u] /\ UNCHANGED <<db, workload>>
        /\ u = [t EXCEPT !.step = "insert", !.user = sessions[t.key].user, !.version = users[sessions[t.key].user].version]
        /\ t.op = "refresh" /\ t.step = "user" /\ Active(sessions[t.key].user) /\ sessions[t.key].state = "live"
    BY <1>3 DEF DecideRotation, Go, At, IInv, TypeOK
  <2>2. t \in Transaction /\ TxOk(t)
    BY Facts
  <2>3. sessions[t.key].state # "free" /\ t.key \in Session
    BY <2>1, <2>2 DEF TxOk, SessionOk, Revoker
  <2>4. sessions[t.key].user \in User
    BY <2>3 DEF IInv, TypeOK, SessionRow
  <2>5. users[sessions[t.key].user].version \in Nat
    BY <2>4 DEF IInv, TypeOK, UserRow
  <2>6. u \in Transaction
    BY <2>1, <2>2, <2>3, <2>4, <2>5 DEF Transaction
  <2>7. /\ u.op = t.op /\ u.key = t.key /\ u.made = t.made /\ u.era = t.era
        /\ u.raced = t.raced /\ u.held = t.held /\ u.scan = t.scan /\ u.cut = t.cut
        /\ u.step = "insert" /\ u.user = sessions[t.key].user
        /\ u.version = users[sessions[t.key].user].version
    BY <2>1, <2>2 DEF Transaction
  <2>8. t.step # "idle" /\ t # Idle /\ PathOk(t) /\ SessionOk(t) /\ LinkOk(t) /\ LoginOk(t) /\ RevocationOk(t)
    BY <2>1, <2>2, IdleType DEF TxOk
  <2> HIDE DEF t, u
  <2>9. TxOk(u)
    <3>1. PathOk(u)
      BY <2>1, <2>7, <2>8, <2>3, <2>4, <2>5, IdleType DEF PathOk, Revoker, Loading
    <3>2. SessionOk(u)
      BY <2>1, <2>7, <2>8, <2>3, <2>4, <2>5 DEF PathOk, SessionOk, Loading, Revoker
    <3>3. LinkOk(u) /\ LoginOk(u)
      BY <2>1, <2>7, <2>8, <2>3, <2>4, <2>5 DEF PathOk, LinkOk, LoginOk, Revoker
    <3>4. RevocationOk(u)
      BY <2>1, <2>7, <2>8, <2>3, <2>4, <2>5 DEF PathOk, RevocationOk, Concerns, Revokes, Revoker
    <3>5. QED
      BY <3>1, <3>2, <3>3, <3>4 DEF TxOk
  <2>10. Onward(r, u)
    BY <2>1, <2>6, <2>7, <2>8, <2>9, <2>3, <2>4, <2>5 DEF Onward, PathOk, Revokes, Revoker, t
  <2>11. QED
    BY <2>1, <2>10, Advancing DEF t, u
<1>4. CASE sessions' = RevokedIn({tx[r].key}) /\ End(r) /\ UNCHANGED <<users, tokens, links, used>>
  <2>1. tx[r].key \in tx[r].held /\ sessions[tx[r].key].state # "free"
    BY Facts DEF DecideRotation, At, TxOk, SessionOk
  <2>2. QED
    BY <1>4, <2>1, Revoking DEF End
<1>5. QED
  BY <1>1, <1>2, <1>3, <1>4 DEF DecideRotation

LEMMA StepDecideLogout == ASSUME IInv, NEW r \in Request, DecideLogout(r) PROVE IInv'
<1>1. CASE At(r, {"logout"}, "user") /\ sessions' = RevokedIn({tx[r].key}) /\ End(r) /\ UNCHANGED <<users, tokens, links, used>>
  <2>1. tx[r].key \in tx[r].held /\ sessions[tx[r].key].state # "free"
    BY <1>1, Facts DEF At, TxOk, SessionOk
  <2>2. QED
    BY <1>1, <2>1, Revoking DEF End
<1>2. CASE At(r, {"logoutAll"}, "user") /\ Go(r, [tx[r] EXCEPT !.step = "flush", !.user = sessions[tx[r].key].user,
                                      !.version = users[sessions[tx[r].key].user].version])
  <2> DEFINE t == tx[r]
             u == tx'[r]
  <2>1. /\ tx' = [tx EXCEPT ![r] = u] /\ UNCHANGED <<db, workload>>
        /\ u = [t EXCEPT !.step = "flush", !.user = sessions[t.key].user, !.version = users[sessions[t.key].user].version]
        /\ t.op = "logoutAll" /\ t.step = "user"
    BY <1>2 DEF DecideLogout, Go, At, IInv, TypeOK
  <2>2. t \in Transaction /\ TxOk(t)
    BY Facts
  <2>3. sessions[t.key].state # "free" /\ t.key \in Session
    BY <2>1, <2>2 DEF TxOk, SessionOk, Revoker
  <2>4. sessions[t.key].user \in User
    BY <2>3 DEF IInv, TypeOK, SessionRow
  <2>5. users[sessions[t.key].user].version \in Nat
    BY <2>4 DEF IInv, TypeOK, UserRow
  <2>6. u \in Transaction
    BY <2>1, <2>2, <2>3, <2>4, <2>5 DEF Transaction
  <2>7. /\ u.op = t.op /\ u.key = t.key /\ u.made = t.made /\ u.era = t.era
        /\ u.raced = t.raced /\ u.held = t.held /\ u.scan = t.scan /\ u.cut = t.cut
        /\ u.step = "flush" /\ u.user = sessions[t.key].user
        /\ u.version = users[sessions[t.key].user].version
    BY <2>1, <2>2 DEF Transaction
  <2>8. t.step # "idle" /\ t # Idle /\ PathOk(t) /\ SessionOk(t) /\ LinkOk(t) /\ LoginOk(t) /\ RevocationOk(t)
    BY <2>1, <2>2, IdleType DEF TxOk
  <2> HIDE DEF t, u
  <2>9. TxOk(u)
    <3>1. PathOk(u)
      BY <2>1, <2>7, <2>8, <2>3, <2>4, <2>5, IdleType DEF PathOk, Revoker, Loading
    <3>2. SessionOk(u)
      BY <2>1, <2>7, <2>8, <2>3, <2>4, <2>5 DEF PathOk, SessionOk, Loading, Revoker
    <3>3. LinkOk(u) /\ LoginOk(u)
      BY <2>1, <2>7, <2>8, <2>3, <2>4, <2>5 DEF PathOk, LinkOk, LoginOk, Revoker
    <3>4. RevocationOk(u)
      BY <2>1, <2>7, <2>8, <2>3, <2>4, <2>5 DEF PathOk, RevocationOk, Concerns, Revokes, Revoker
    <3>5. QED
      BY <3>1, <3>2, <3>3, <3>4 DEF TxOk
  <2>10. Onward(r, u)
    BY <2>1, <2>6, <2>7, <2>8, <2>9, <2>3, <2>4, <2>5 DEF Onward, PathOk, Revokes, Revoker, t
  <2>11. QED
    BY <2>1, <2>10, Advancing DEF t, u
<1>3. QED
  BY <1>1, <1>2 DEF DecideLogout

LEMMA StepCheckAddress == ASSUME IInv, NEW r \in Request, CheckAddress(r) PROVE IInv'
<1>1. CASE Fail(r)
  BY <1>1, Failing
<1>2. CASE Go(r, [tx[r] EXCEPT !.step = "create"])
  <2> DEFINE t == tx[r]
             u == tx'[r]
  <2>1. /\ tx' = [tx EXCEPT ![r] = u] /\ UNCHANGED <<db, workload>>
        /\ u = [t EXCEPT !.step = "create"]
        /\ t.op = "register" /\ t.step = "email"
    BY <1>2 DEF CheckAddress, Go, At, IInv, TypeOK
  <2>2. t \in Transaction /\ TxOk(t)
    BY Facts
  <2>3. u \in Transaction
    BY <2>1, <2>2 DEF Transaction
  <2>4. /\ u.op = t.op /\ u.key = t.key /\ u.user = t.user /\ u.made = t.made
        /\ u.version = t.version /\ u.era = t.era /\ u.raced = t.raced /\ u.held = t.held
        /\ u.scan = t.scan /\ u.cut = t.cut /\ u.step = "create"
    BY <2>1, <2>2 DEF Transaction
  <2>5. t.step # "idle" /\ t # Idle /\ PathOk(t) /\ SessionOk(t) /\ LinkOk(t) /\ LoginOk(t) /\ RevocationOk(t)
    BY <2>1, <2>2, IdleType DEF TxOk
  <2> HIDE DEF t, u
  <2>6. TxOk(u)
    <3>1. PathOk(u)
      BY <2>1, <2>4, <2>5, IdleType DEF PathOk, Revoker, Loading
    <3>2. SessionOk(u)
      BY <2>1, <2>4, <2>5 DEF PathOk, SessionOk, Loading, Revoker
    <3>3. LinkOk(u) /\ LoginOk(u)
      BY <2>1, <2>4, <2>5 DEF PathOk, LinkOk, LoginOk, Revoker
    <3>4. RevocationOk(u)
      BY <2>1, <2>4, <2>5 DEF PathOk, RevocationOk, Concerns, Revokes, Revoker
    <3>5. QED
      BY <3>1, <3>2, <3>3, <3>4 DEF TxOk
  <2>7. Onward(r, u)
    BY <2>1, <2>3, <2>4, <2>5, <2>6 DEF Onward, PathOk, Revokes, Revoker, t
  <2>8. QED
    BY <2>1, <2>7, Advancing DEF t, u
<1>3. QED
  BY <1>1, <1>2 DEF CheckAddress

LEMMA StepCheckLogin == ASSUME IInv, NEW r \in Request, CheckLogin(r) PROVE IInv'
<1>1. CASE Fail(r)
  BY <1>1, Failing
<1>2. CASE \E w \in OfEmail(tx[r].key) : Go(r, Loaded(r, w, "commit"))
  <2>0. PICK w \in OfEmail(tx[r].key) : Go(r, Loaded(r, w, "commit"))
    BY <1>2
  <2> DEFINE t == tx[r]
             u == tx'[r]
  <2>1. /\ tx' = [tx EXCEPT ![r] = u] /\ UNCHANGED <<db, workload>>
        /\ u = [t EXCEPT !.user = w, !.version = users[w].version, !.era = users[w].era, !.step = "commit"]
        /\ t.op = "login" /\ t.step = "email" /\ w \in OfEmail(t.key)
    BY <1>2, <2>0 DEF CheckLogin, Loaded, Go, At, IInv, TypeOK
  <2>2. t \in Transaction /\ TxOk(t)
    BY Facts
  <2>3. w \in User
    BY <2>1 DEF OfEmail
  <2>4. users[w].version \in Nat /\ users[w].era \in Nat
    BY <2>3 DEF IInv, TypeOK, UserRow
  <2>5. u \in Transaction
    BY <2>1, <2>2, <2>3, <2>4 DEF Transaction
  <2>6. /\ u.op = t.op /\ u.key = t.key /\ u.made = t.made /\ u.raced = t.raced
        /\ u.held = t.held /\ u.scan = t.scan /\ u.cut = t.cut /\ u.user = w
        /\ u.version = users[w].version /\ u.era = users[w].era /\ u.step = "commit"
    BY <2>1, <2>2 DEF Transaction
  <2>7. t.step # "idle" /\ t # Idle /\ PathOk(t) /\ SessionOk(t) /\ LinkOk(t) /\ LoginOk(t) /\ RevocationOk(t)
    BY <2>1, <2>2, IdleType DEF TxOk
  <2> HIDE DEF t, u
  <2>8. TxOk(u)
    <3>1. PathOk(u)
      BY <2>1, <2>6, <2>7, <2>3, <2>4, IdleType DEF PathOk, Revoker, Loading
    <3>2. SessionOk(u)
      BY <2>1, <2>6, <2>7, <2>3, <2>4 DEF PathOk, SessionOk, Loading, Revoker
    <3>3. LinkOk(u) /\ LoginOk(u)
      BY <2>1, <2>6, <2>7, <2>3, <2>4 DEF PathOk, LinkOk, LoginOk, Revoker
    <3>4. RevocationOk(u)
      BY <2>1, <2>6, <2>7, <2>3, <2>4 DEF PathOk, RevocationOk, Concerns, Revokes, Revoker
    <3>5. QED
      BY <3>1, <3>2, <3>3, <3>4 DEF TxOk
  <2>9. Onward(r, u)
    BY <2>1, <2>5, <2>6, <2>7, <2>8, <2>3, <2>4 DEF Onward, PathOk, Revokes, Revoker, t
  <2>10. QED
    BY <2>1, <2>9, Advancing DEF t, u
<1>3. QED
  BY <1>1, <1>2 DEF CheckLogin

LEMMA StepCheckRecipient == ASSUME IInv, NEW r \in Request, CheckRecipient(r) PROVE IInv'
<1>1. CASE Fail(r)
  BY <1>1, Failing
<1>2. CASE \E w \in OfEmail(tx[r].key) : Go(r, Loaded(r, w, "scan"))
  <2>0. PICK w \in OfEmail(tx[r].key) : Go(r, Loaded(r, w, "scan"))
    BY <1>2
  <2> DEFINE t == tx[r]
             u == tx'[r]
  <2>1. /\ tx' = [tx EXCEPT ![r] = u] /\ UNCHANGED <<db, workload>>
        /\ u = [t EXCEPT !.user = w, !.version = users[w].version, !.era = users[w].era, !.step = "scan"]
        /\ t.op \in {"resend", "forgot"} /\ t.step = "email" /\ w \in OfEmail(t.key)
    BY <1>2, <2>0 DEF CheckRecipient, Loaded, Go, At, IInv, TypeOK
  <2>2. t \in Transaction /\ TxOk(t)
    BY Facts
  <2>3. w \in User
    BY <2>1 DEF OfEmail
  <2>4. users[w].version \in Nat /\ users[w].era \in Nat
    BY <2>3 DEF IInv, TypeOK, UserRow
  <2>5. u \in Transaction
    BY <2>1, <2>2, <2>3, <2>4 DEF Transaction
  <2>6. /\ u.op = t.op /\ u.key = t.key /\ u.made = t.made /\ u.raced = t.raced
        /\ u.held = t.held /\ u.scan = t.scan /\ u.cut = t.cut /\ u.user = w
        /\ u.version = users[w].version /\ u.era = users[w].era /\ u.step = "scan"
    BY <2>1, <2>2 DEF Transaction
  <2>7. t.step # "idle" /\ t # Idle /\ PathOk(t) /\ SessionOk(t) /\ LinkOk(t) /\ LoginOk(t) /\ RevocationOk(t)
    BY <2>1, <2>2, IdleType DEF TxOk
  <2> HIDE DEF t, u
  <2>8. TxOk(u)
    <3>1. PathOk(u)
      BY <2>1, <2>6, <2>7, <2>3, <2>4, IdleType DEF PathOk, Revoker, Loading
    <3>2. SessionOk(u)
      BY <2>1, <2>6, <2>7, <2>3, <2>4 DEF PathOk, SessionOk, Loading, Revoker
    <3>3. LinkOk(u) /\ LoginOk(u)
      BY <2>1, <2>6, <2>7, <2>3, <2>4 DEF PathOk, LinkOk, LoginOk, Revoker
    <3>4. RevocationOk(u)
      BY <2>1, <2>6, <2>7, <2>3, <2>4 DEF PathOk, RevocationOk, Concerns, Revokes, Revoker
    <3>5. QED
      BY <3>1, <3>2, <3>3, <3>4 DEF TxOk
  <2>9. Onward(r, u)
    BY <2>1, <2>5, <2>6, <2>7, <2>8, <2>3, <2>4 DEF Onward, PathOk, Revokes, Revoker, t
  <2>10. QED
    BY <2>1, <2>9, Advancing DEF t, u
<1>3. QED
  BY <1>1, <1>2 DEF CheckRecipient

LEMMA StepFindLink == ASSUME IInv, NEW r \in Request, FindLink(r) PROVE IInv'
<1>1. CASE Fail(r)
  BY <1>1, Failing
<1>2. CASE links[tx[r].key] = None /\ Go(r, [tx[r] EXCEPT !.step = "email"])
  <2> DEFINE t == tx[r]
             u == tx'[r]
  <2>1. /\ tx' = [tx EXCEPT ![r] = u] /\ UNCHANGED <<db, workload>>
        /\ u = [t EXCEPT !.step = "email"]
        /\ t.op = "oauth" /\ t.step = "link"
    BY <1>2 DEF FindLink, Go, At, IInv, TypeOK
  <2>2. t \in Transaction /\ TxOk(t)
    BY Facts
  <2>3. u \in Transaction
    BY <2>1, <2>2 DEF Transaction
  <2>4. /\ u.op = t.op /\ u.key = t.key /\ u.user = t.user /\ u.made = t.made
        /\ u.version = t.version /\ u.era = t.era /\ u.raced = t.raced /\ u.held = t.held
        /\ u.scan = t.scan /\ u.cut = t.cut /\ u.step = "email"
    BY <2>1, <2>2 DEF Transaction
  <2>5. t.step # "idle" /\ t # Idle /\ PathOk(t) /\ SessionOk(t) /\ LinkOk(t) /\ LoginOk(t) /\ RevocationOk(t)
    BY <2>1, <2>2, IdleType DEF TxOk
  <2> HIDE DEF t, u
  <2>6. TxOk(u)
    <3>1. PathOk(u)
      BY <2>1, <2>4, <2>5, IdleType DEF PathOk, Revoker, Loading
    <3>2. SessionOk(u)
      BY <2>1, <2>4, <2>5 DEF PathOk, SessionOk, Loading, Revoker
    <3>3. LinkOk(u) /\ LoginOk(u)
      BY <2>1, <2>4, <2>5 DEF PathOk, LinkOk, LoginOk, Revoker
    <3>4. RevocationOk(u)
      BY <2>1, <2>4, <2>5 DEF PathOk, RevocationOk, Concerns, Revokes, Revoker
    <3>5. QED
      BY <3>1, <3>2, <3>3, <3>4 DEF TxOk
  <2>7. Onward(r, u)
    BY <2>1, <2>3, <2>4, <2>5, <2>6 DEF Onward, PathOk, Revokes, Revoker, t
  <2>8. QED
    BY <2>1, <2>7, Advancing DEF t, u
<1>3. CASE links[tx[r].key] # None /\ Go(r, Loaded(r, links[tx[r].key], "commit"))
  <2> DEFINE w == links[tx[r].key]
  <2> DEFINE t == tx[r]
             u == tx'[r]
  <2>1. /\ tx' = [tx EXCEPT ![r] = u] /\ UNCHANGED <<db, workload>>
        /\ u = [t EXCEPT !.user = w, !.version = users[w].version, !.era = users[w].era, !.step = "commit"]
        /\ t.op = "oauth" /\ t.step = "link" /\ w = links[t.key] /\ w # None
    BY <1>3 DEF FindLink, Loaded, Go, At, IInv, TypeOK
  <2>2. t \in Transaction /\ TxOk(t)
    BY Facts
  <2>3. w \in User
    BY <2>1, <2>2 DEF TxOk, LoginOk, IInv, TypeOK, LinkTable
  <2>4. users[w].version \in Nat /\ users[w].era \in Nat
    BY <2>3 DEF IInv, TypeOK, UserRow
  <2>5. u \in Transaction
    BY <2>1, <2>2, <2>3, <2>4 DEF Transaction
  <2>6. /\ u.op = t.op /\ u.key = t.key /\ u.made = t.made /\ u.raced = t.raced
        /\ u.held = t.held /\ u.scan = t.scan /\ u.cut = t.cut /\ u.user = w
        /\ u.version = users[w].version /\ u.era = users[w].era /\ u.step = "commit"
    BY <2>1, <2>2 DEF Transaction
  <2>7. t.step # "idle" /\ t # Idle /\ PathOk(t) /\ SessionOk(t) /\ LinkOk(t) /\ LoginOk(t) /\ RevocationOk(t)
    BY <2>1, <2>2, IdleType DEF TxOk
  <2> HIDE DEF t, u
  <2>8. TxOk(u)
    <3>1. PathOk(u)
      BY <2>1, <2>6, <2>7, <2>3, <2>4, IdleType DEF PathOk, Revoker, Loading
    <3>2. SessionOk(u)
      BY <2>1, <2>6, <2>7, <2>3, <2>4 DEF PathOk, SessionOk, Loading, Revoker
    <3>3. LinkOk(u) /\ LoginOk(u)
      BY <2>1, <2>6, <2>7, <2>3, <2>4 DEF PathOk, LinkOk, LoginOk, Revoker
    <3>4. RevocationOk(u)
      BY <2>1, <2>6, <2>7, <2>3, <2>4 DEF PathOk, RevocationOk, Concerns, Revokes, Revoker
    <3>5. QED
      BY <3>1, <3>2, <3>3, <3>4 DEF TxOk
  <2>9. Onward(r, u)
    BY <2>1, <2>5, <2>6, <2>7, <2>8, <2>3, <2>4 DEF Onward, PathOk, Revokes, Revoker, t
  <2>10. QED
    BY <2>1, <2>9, Advancing DEF t, u
<1>4. QED
  BY <1>1, <1>2, <1>3 DEF FindLink

LEMMA LoadedTransaction ==
    ASSUME NEW t \in Transaction, NEW w \in User, NEW version \in Nat, NEW era \in Nat, NEW u,
           u = [t EXCEPT !.user = w, !.version = version, !.era = era, !.step = "join"]
    PROVE  u \in Transaction
BY DEF Transaction

LEMMA ScannedTransaction ==
    ASSUME NEW t \in Transaction, NEW S \in SUBSET (Session \union Token), NEW u,
           u = [t EXCEPT !.step = "lock", !.scan = S]
    PROVE  u \in Transaction
BY DEF Transaction

LEMMA StepFindOwner == ASSUME IInv, NEW r \in Request, FindOwner(r) PROVE IInv'
<1>1. CASE Fail(r)
  BY <1>1, Failing
<1>2. CASE Go(r, [tx[r] EXCEPT !.step = "create"])
  <2> DEFINE t == tx[r]
             u == tx'[r]
  <2>1. /\ tx' = [tx EXCEPT ![r] = u] /\ UNCHANGED <<db, workload>>
        /\ u = [t EXCEPT !.step = "create"]
        /\ t.op = "oauth" /\ t.step = "email"
    BY <1>2 DEF FindOwner, Go, At, IInv, TypeOK
  <2>2. t \in Transaction /\ TxOk(t)
    BY Facts
  <2>3. u \in Transaction
    BY <2>1, <2>2 DEF Transaction
  <2>4. /\ u.op = t.op /\ u.key = t.key /\ u.user = t.user /\ u.made = t.made
        /\ u.version = t.version /\ u.era = t.era /\ u.raced = t.raced /\ u.held = t.held
        /\ u.scan = t.scan /\ u.cut = t.cut /\ u.step = "create"
    BY <2>1, <2>2 DEF Transaction
  <2>5. t.step # "idle" /\ t # Idle /\ PathOk(t) /\ SessionOk(t) /\ LinkOk(t) /\ LoginOk(t) /\ RevocationOk(t)
    BY <2>1, <2>2, IdleType DEF TxOk
  <2> HIDE DEF t, u
  <2>6. TxOk(u)
    <3>1. PathOk(u)
      BY <2>1, <2>4, <2>5, IdleType DEF PathOk, Revoker, Loading
    <3>2. SessionOk(u)
      BY <2>1, <2>4, <2>5 DEF PathOk, SessionOk, Loading, Revoker
    <3>3. LinkOk(u) /\ LoginOk(u)
      BY <2>1, <2>4, <2>5 DEF PathOk, LinkOk, LoginOk, Revoker
    <3>4. RevocationOk(u)
      BY <2>1, <2>4, <2>5 DEF PathOk, RevocationOk, Concerns, Revokes, Revoker
    <3>5. QED
      BY <3>1, <3>2, <3>3, <3>4 DEF TxOk
  <2>7. Onward(r, u)
    BY <2>1, <2>3, <2>4, <2>5, <2>6 DEF Onward, PathOk, Revokes, Revoker, t
  <2>8. QED
    BY <2>1, <2>7, Advancing DEF t, u
<1>3. CASE \E w \in OfEmail(Address[tx[r].key]) : Active(w) /\ users[w].verified /\ Go(r, Loaded(r, w, "join"))
  <2>0. PICK w \in OfEmail(Address[tx[r].key]) :
            Active(w) /\ users[w].verified /\ Go(r, Loaded(r, w, "join"))
    BY <1>3
  <2> DEFINE t == tx[r]
             u == tx'[r]
  <2>1. /\ tx' = [tx EXCEPT ![r] = u] /\ UNCHANGED <<db, workload>>
        /\ u = [t EXCEPT !.user = w, !.version = users[w].version, !.era = users[w].era, !.step = "join"]
        /\ t.op = "oauth" /\ t.step = "email" /\ w \in OfEmail(Address[t.key])
    BY <1>3, <2>0 DEF FindOwner, Loaded, Go, At, IInv, TypeOK
  <2>2. t \in Transaction /\ TxOk(t)
    BY Facts
  <2>3. w \in User
    BY <2>1 DEF OfEmail
  <2>4. users[w].version \in Nat /\ users[w].era \in Nat
    BY <2>3 DEF IInv, TypeOK, UserRow
  <2>5. users[w].status # "free" /\ users[w].verified
    BY <2>0 DEF Active
  <2>6. u \in Transaction
    <3>1. u = [t EXCEPT !.user = w, !.version = users[w].version, !.era = users[w].era,
                        !.step = "join"]
      BY <2>1
    <3> HIDE DEF u, t
    <3>2. QED
      BY <2>2, <2>3, <2>4, <3>1, LoadedTransaction
  <2>7. /\ u.op = t.op /\ u.key = t.key /\ u.made = t.made /\ u.raced = t.raced
        /\ u.held = t.held /\ u.scan = t.scan /\ u.cut = t.cut /\ u.user = w
        /\ u.version = users[w].version /\ u.era = users[w].era /\ u.step = "join"
    BY <2>1, <2>2 DEF Transaction
  <2>8. t.step # "idle" /\ t # Idle /\ PathOk(t) /\ SessionOk(t) /\ LinkOk(t) /\ LoginOk(t) /\ RevocationOk(t)
    BY <2>1, <2>2, IdleType DEF TxOk
  <2> HIDE DEF t, u
  <2>9. TxOk(u)
    <3>1. PathOk(u)
      BY <2>1, <2>7, <2>8, <2>3, <2>4, <2>5, IdleType DEF PathOk, Revoker, Loading
    <3>2. SessionOk(u)
      BY <2>1, <2>7, <2>8, <2>3, <2>4, <2>5 DEF PathOk, SessionOk, Loading, Revoker
    <3>3. LinkOk(u) /\ LoginOk(u)
      BY <2>1, <2>7, <2>8, <2>3, <2>4, <2>5 DEF PathOk, LinkOk, LoginOk, Revoker
    <3>4. RevocationOk(u)
      BY <2>1, <2>7, <2>8, <2>3, <2>4, <2>5 DEF PathOk, RevocationOk, Concerns, Revokes, Revoker
    <3>5. QED
      BY <3>1, <3>2, <3>3, <3>4 DEF TxOk
  <2>10. Onward(r, u)
    BY <2>1, <2>6, <2>7, <2>8, <2>9, <2>3, <2>4, <2>5 DEF Onward, PathOk, Revokes, Revoker, t
  <2>11. QED
    BY <2>1, <2>10, Advancing DEF t, u
<1>4. QED
  BY <1>1, <1>2, <1>3 DEF FindOwner

LEMMA StepScanLinks == ASSUME IInv, NEW r \in Request, ScanLinks(r) PROVE IInv'
<1>1. CASE ScanLinks(r)
  <2> DEFINE t == tx[r]
             u == tx'[r]
  <2>1. /\ tx' = [tx EXCEPT ![r] = u] /\ UNCHANGED <<db, workload>>
        /\ u = [t EXCEPT !.step = "lock", !.scan = {k \in Token : /\ tokens[k].state = "active"
                                       /\ tokens[k].user = t.user
                                       /\ tokens[k].purpose = PurposeOf(t.op)}]
        /\ t.op \in {"resend", "forgot"} /\ t.step = "scan"
    BY <1>1 DEF ScanLinks, Go, At, IInv, TypeOK
  <2>2. t \in Transaction /\ TxOk(t)
    BY Facts
  <2>3. u.scan \subseteq Token /\ u.scan \intersect Session = {}
    BY <2>1, <2>2, AccountsAssumption DEF Transaction
  <2>4. u \in Transaction
    BY <2>1, <2>2, <2>3 DEF Transaction
  <2>5. /\ u.op = t.op /\ u.key = t.key /\ u.user = t.user /\ u.made = t.made
        /\ u.version = t.version /\ u.era = t.era /\ u.raced = t.raced /\ u.held = t.held
        /\ u.cut = t.cut /\ u.step = "lock"
        /\ u.scan = {k \in Token : /\ tokens[k].state = "active"
                                       /\ tokens[k].user = t.user
                                       /\ tokens[k].purpose = PurposeOf(t.op)}
    BY <2>1, <2>2 DEF Transaction
  <2>6. t.step # "idle" /\ t # Idle /\ PathOk(t) /\ SessionOk(t) /\ LinkOk(t) /\ LoginOk(t) /\ RevocationOk(t)
    BY <2>1, <2>2, IdleType DEF TxOk
  <2> HIDE DEF t, u
  <2>7. TxOk(u)
    <3>1. PathOk(u)
      BY <2>1, <2>5, <2>6, <2>3, IdleType DEF PathOk, Revoker, Loading
    <3>2. SessionOk(u)
      BY <2>1, <2>5, <2>6, <2>3 DEF PathOk, SessionOk, Loading, Revoker
    <3>3. LinkOk(u) /\ LoginOk(u)
      BY <2>1, <2>5, <2>6, <2>3 DEF PathOk, LinkOk, LoginOk, Revoker
    <3>4. RevocationOk(u)
      BY <2>1, <2>5, <2>6, <2>3 DEF PathOk, RevocationOk, Concerns, Revokes, Revoker
    <3>5. QED
      BY <3>1, <3>2, <3>3, <3>4 DEF TxOk
  <2>8. Onward(r, u)
    BY <2>1, <2>4, <2>5, <2>6, <2>7, <2>3 DEF Onward, PathOk, Revokes, Revoker, t
  <2>9. QED
    BY <2>1, <2>8, Advancing DEF t, u
<1>2. QED
  BY <1>1 DEF ScanLinks

LEMMA StepLinkOwner == ASSUME IInv, NEW r \in Request, LinkOwner(r) PROVE IInv'
<1>1. CASE LinkOwner(r)
  <2> DEFINE w == tokens[tx[r].key].user
  <2> DEFINE t == tx[r]
             u == tx'[r]
  <2>1. /\ tx' = [tx EXCEPT ![r] = u] /\ UNCHANGED <<db, workload>>
        /\ u = [t EXCEPT !.user = w, !.version = users[w].version, !.era = users[w].era, !.step = IF t.op = "verify" THEN "commit" ELSE "flush"]
        /\ t.op \in {"verify", "reset"} /\ t.step = "user" /\ w = tokens[t.key].user
    BY <1>1 DEF LinkOwner, Loaded, Go, At, IInv, TypeOK
  <2>2. t \in Transaction /\ TxOk(t)
    BY Facts
  <2>3. w \in User
    BY <2>1, <2>2 DEF TxOk, LinkOk, IInv, TypeOK, TokenRow, RowInv
  <2>4. users[w].version \in Nat /\ users[w].era \in Nat
    BY <2>3 DEF IInv, TypeOK, UserRow
  <2>5. u.step \in {"commit", "flush"} /\ t.op # "delete"
    BY <2>1, <2>2 DEF Transaction
  <2>6. u \in Transaction
    BY <2>1, <2>2, <2>3, <2>4, <2>5 DEF Transaction
  <2>7. /\ u.op = t.op /\ u.key = t.key /\ u.made = t.made /\ u.raced = t.raced
        /\ u.held = t.held /\ u.scan = t.scan /\ u.cut = t.cut /\ u.user = w
        /\ u.version = users[w].version /\ u.era = users[w].era
        /\ u.step = IF t.op = "verify" THEN "commit" ELSE "flush"
    BY <2>1, <2>2 DEF Transaction
  <2>8. t.step # "idle" /\ t # Idle /\ PathOk(t) /\ SessionOk(t) /\ LinkOk(t) /\ LoginOk(t) /\ RevocationOk(t)
    BY <2>1, <2>2, IdleType DEF TxOk
  <2> HIDE DEF t, u
  <2>9. TxOk(u)
    <3>1. PathOk(u)
      BY <2>1, <2>7, <2>8, <2>3, <2>4, <2>5, IdleType DEF PathOk, Revoker, Loading
    <3>2. SessionOk(u)
      BY <2>1, <2>7, <2>8, <2>3, <2>4, <2>5 DEF PathOk, SessionOk, Loading, Revoker
    <3>3. LinkOk(u) /\ LoginOk(u)
      BY <2>1, <2>7, <2>8, <2>3, <2>4, <2>5 DEF PathOk, LinkOk, LoginOk, Revoker
    <3>4. RevocationOk(u)
      BY <2>1, <2>7, <2>8, <2>3, <2>4, <2>5 DEF PathOk, RevocationOk, Concerns, Revokes, Revoker
    <3>5. QED
      BY <3>1, <3>2, <3>3, <3>4 DEF TxOk
  <2>10. Onward(r, u)
    BY <2>1, <2>6, <2>7, <2>8, <2>9, <2>3, <2>4, <2>5 DEF Onward, PathOk, Revokes, Revoker, t
  <2>11. QED
    BY <2>1, <2>10, Advancing DEF t, u
<1>2. QED
  BY <1>1 DEF LinkOwner

LEMMA StepStartDeletion == ASSUME IInv, NEW r \in Request, StartDeletion(r) PROVE IInv'
<1>1. CASE Fail(r)
  BY <1>1, Failing
<1>2. CASE Go(r, Loaded(r, sessions[tx[r].key].user, "flush"))
  <2> DEFINE w == sessions[tx[r].key].user
  <2> DEFINE t == tx[r]
             u == tx'[r]
  <2>1. /\ tx' = [tx EXCEPT ![r] = u] /\ UNCHANGED <<db, workload>>
        /\ u = [t EXCEPT !.user = w, !.version = users[w].version, !.era = users[w].era, !.step = "flush"]
        /\ t.op = "delete" /\ t.step = "user" /\ w = sessions[t.key].user
    BY <1>2 DEF StartDeletion, Loaded, Go, At, IInv, TypeOK
  <2>2. t \in Transaction /\ TxOk(t)
    BY Facts
  <2>3. w \in User
    BY <2>1, <2>2 DEF TxOk, SessionOk, IInv, TypeOK, SessionRow
  <2>4. users[w].version \in Nat /\ users[w].era \in Nat
    BY <2>3 DEF IInv, TypeOK, UserRow
  <2>5. u \in Transaction
    BY <2>1, <2>2, <2>3, <2>4 DEF Transaction
  <2>6. /\ u.op = t.op /\ u.key = t.key /\ u.made = t.made /\ u.raced = t.raced
        /\ u.held = t.held /\ u.scan = t.scan /\ u.cut = t.cut /\ u.user = w
        /\ u.version = users[w].version /\ u.era = users[w].era /\ u.step = "flush"
    BY <2>1, <2>2 DEF Transaction
  <2>7. t.step # "idle" /\ t # Idle /\ PathOk(t) /\ SessionOk(t) /\ LinkOk(t) /\ LoginOk(t) /\ RevocationOk(t)
    BY <2>1, <2>2, IdleType DEF TxOk
  <2> HIDE DEF t, u
  <2>8. TxOk(u)
    <3>1. PathOk(u)
      BY <2>1, <2>6, <2>7, <2>3, <2>4, IdleType DEF PathOk, Revoker, Loading
    <3>2. SessionOk(u)
      BY <2>1, <2>6, <2>7, <2>3, <2>4 DEF PathOk, SessionOk, Loading, Revoker
    <3>3. LinkOk(u) /\ LoginOk(u)
      BY <2>1, <2>6, <2>7, <2>3, <2>4 DEF PathOk, LinkOk, LoginOk, Revoker
    <3>4. RevocationOk(u)
      BY <2>1, <2>6, <2>7, <2>3, <2>4 DEF PathOk, RevocationOk, Concerns, Revokes, Revoker
    <3>5. QED
      BY <3>1, <3>2, <3>3, <3>4 DEF TxOk
  <2>9. Onward(r, u)
    BY <2>1, <2>5, <2>6, <2>7, <2>8, <2>3, <2>4 DEF Onward, PathOk, Revokes, Revoker, t
  <2>10. QED
    BY <2>1, <2>9, Advancing DEF t, u
<1>3. QED
  BY <1>1, <1>2 DEF StartDeletion

LEMMA StepSessionsRevoked == ASSUME IInv, NEW r \in Request, SessionsRevoked(r) PROVE IInv'
<1>1. CASE SessionsRevoked(r)
  <2> DEFINE t == tx[r]
             u == tx'[r]
  <2>1. /\ tx' = [tx EXCEPT ![r] = u] /\ UNCHANGED <<db, workload>>
        /\ u = [t EXCEPT !.step = IF \E i \in Apple : links[i] = t.user THEN "apple" ELSE "commit"]
        /\ t.op = "delete" /\ t.step = "lock" /\ t.scan = {}
    BY <1>1 DEF SessionsRevoked, Go, At, IInv, TypeOK
  <2>2. t \in Transaction /\ TxOk(t)
    BY Facts
  <2>3. Revokes(t)
    BY <2>1 DEF Revokes, Revoker
  <2>4. u \in Transaction
    BY <2>1, <2>2, <2>3 DEF Transaction
  <2>5. /\ u.op = t.op /\ u.key = t.key /\ u.user = t.user /\ u.made = t.made
        /\ u.version = t.version /\ u.era = t.era /\ u.raced = t.raced /\ u.held = t.held
        /\ u.scan = t.scan /\ u.cut = t.cut
        /\ u.step = IF \E i \in Apple : links[i] = t.user THEN "apple" ELSE "commit"
    BY <2>1, <2>2 DEF Transaction
  <2>6. t.step # "idle" /\ t # Idle /\ PathOk(t) /\ SessionOk(t) /\ LinkOk(t) /\ LoginOk(t) /\ RevocationOk(t)
    BY <2>1, <2>2, IdleType DEF TxOk
  <2> HIDE DEF t, u
  <2>7. TxOk(u)
    <3>1. PathOk(u)
      BY <2>1, <2>5, <2>6, <2>3, IdleType DEF PathOk, Revoker, Loading
    <3>2. SessionOk(u)
      BY <2>1, <2>5, <2>6, <2>3 DEF PathOk, SessionOk, Loading, Revoker
    <3>3. LinkOk(u) /\ LoginOk(u)
      BY <2>1, <2>5, <2>6, <2>3 DEF PathOk, LinkOk, LoginOk, Revoker
    <3>4. RevocationOk(u)
      BY <2>1, <2>5, <2>6, <2>3 DEF PathOk, RevocationOk, Concerns, Revokes, Revoker
    <3>5. QED
      BY <3>1, <3>2, <3>3, <3>4 DEF TxOk
  <2>8. Onward(r, u)
    BY <2>1, <2>4, <2>5, <2>6, <2>7, <2>3 DEF Onward, PathOk, Revokes, Revoker, t
  <2>9. QED
    BY <2>1, <2>8, Advancing DEF t, u
<1>2. QED
  BY <1>1 DEF SessionsRevoked

LEMMA StepAppleRevoked == ASSUME IInv, NEW r \in Request, AppleRevoked(r) PROVE IInv'
<1>1. CASE AppleRevoked(r)
  <2> DEFINE t == tx[r]
             u == tx'[r]
  <2>1. /\ tx' = [tx EXCEPT ![r] = u] /\ UNCHANGED <<db, workload>>
        /\ u = [t EXCEPT !.step = "commit"]
        /\ t.op = "delete" /\ t.step = "apple"
    BY <1>1 DEF AppleRevoked, Go, At, IInv, TypeOK
  <2>2. t \in Transaction /\ TxOk(t)
    BY Facts
  <2>3. Revokes(t)
    BY <2>1 DEF Revokes, Revoker
  <2>4. u \in Transaction
    BY <2>1, <2>2, <2>3 DEF Transaction
  <2>5. /\ u.op = t.op /\ u.key = t.key /\ u.user = t.user /\ u.made = t.made
        /\ u.version = t.version /\ u.era = t.era /\ u.raced = t.raced /\ u.held = t.held
        /\ u.scan = t.scan /\ u.cut = t.cut /\ u.step = "commit"
    BY <2>1, <2>2 DEF Transaction
  <2>6. t.step # "idle" /\ t # Idle /\ PathOk(t) /\ SessionOk(t) /\ LinkOk(t) /\ LoginOk(t) /\ RevocationOk(t)
    BY <2>1, <2>2, IdleType DEF TxOk
  <2> HIDE DEF t, u
  <2>7. TxOk(u)
    <3>1. PathOk(u)
      BY <2>1, <2>5, <2>6, <2>3, IdleType DEF PathOk, Revoker, Loading
    <3>2. SessionOk(u)
      BY <2>1, <2>5, <2>6, <2>3 DEF PathOk, SessionOk, Loading, Revoker
    <3>3. LinkOk(u) /\ LoginOk(u)
      BY <2>1, <2>5, <2>6, <2>3 DEF PathOk, LinkOk, LoginOk, Revoker
    <3>4. RevocationOk(u)
      BY <2>1, <2>5, <2>6, <2>3 DEF PathOk, RevocationOk, Concerns, Revokes, Revoker
    <3>5. QED
      BY <3>1, <3>2, <3>3, <3>4 DEF TxOk
  <2>8. Onward(r, u)
    BY <2>1, <2>4, <2>5, <2>6, <2>7, <2>3 DEF Onward, PathOk, Revokes, Revoker, t
  <2>9. QED
    BY <2>1, <2>8, Advancing DEF t, u
<1>2. QED
  BY <1>1 DEF AppleRevoked

\* What a request may begin with.
Opening(op, step, key) ==
    \/ op \in {"refresh", "logout", "logoutAll"} /\ step = "session" /\ key \in Presentable
    \/ op = "delete" /\ step = "user" /\ key \in Presentable
    \/ op \in {"verify", "reset"} /\ step = "token" /\ key \in Token /\ tokens[key].state # "free"
    \/ op = "oauth" /\ step = "link" /\ key \in Subject
    \/ op \in {"register", "login", "resend", "forgot"} /\ step = "email" /\ key \in Email

LEMMA Beginning ==
    ASSUME IInv, NEW r \in Request, NEW op, NEW step, NEW key, Begin(r, op, step, key),
           Opening(op, step, key)
    PROVE  IInv'
<1> DEFINE u == tx'[r]
<1>1. /\ tx' = [tx EXCEPT ![r] = u] /\ UNCHANGED <<db, workload>> /\ tx[r] = Idle
      /\ u = [Idle EXCEPT !.op = op, !.step = step, !.key = key,
                          !.raced = \E q \in Request : Revokes(tx[q])]
  BY DEF Begin, Go, IInv, TypeOK
<1>2. /\ op \in Operation /\ op # "idle" /\ step # "idle"
      /\ step \in {"session", "user", "token", "link", "email"}
      /\ key \in Session \union Token \union Subject \union Email
  BY DEF Opening, Operation, Presentable
<1>3. u \in Transaction
  <2> DEFINE raced == \E q \in Request : Revokes(tx[q])
  <2>1. raced \in BOOLEAN
    OBVIOUS
  <2>2. u = [Idle EXCEPT !.op = op, !.step = step, !.key = key, !.raced = raced]
    BY <1>1
  <2> HIDE DEF raced, u
  <2>3. QED
    <3>1. u = [op |-> op, step |-> step, key |-> key, user |-> None, made |-> None,
               version |-> 0, era |-> 0, raced |-> raced, held |-> {}, scan |-> {}, cut |-> {}]
      BY <2>2 DEF Idle
    <3>2. QED
      BY <1>2, <2>1, <3>1 DEF Transaction
<1>4. /\ u.op = op /\ u.step = step /\ u.key = key /\ u.made = None /\ u.held = {}
      /\ u.scan = {} /\ u.cut = {} /\ ~Revokes(u)
      /\ \A q \in Request : Revokes(tx[q]) => u.raced
  BY <1>1, <1>2 DEF Idle, Revokes
<1> HIDE DEF u
<1>5. TxOk(u)
  <2>1. PathOk(u)
    BY <1>2, <1>4, IdleType DEF Opening, PathOk, Revoker, Loading
  <2>2. SessionOk(u)
    BY <1>2, <1>4 DEF Opening, SessionOk, Presentable, Loading
  <2>3. LinkOk(u) /\ LoginOk(u)
    BY <1>2, <1>4 DEF Opening, LinkOk, LoginOk
  <2>4. RevocationOk(u)
    BY <1>2, <1>4 DEF RevocationOk
  <2>5. QED
    BY <2>1, <2>2, <2>3, <2>4 DEF TxOk
<1>6. tx \in [Request -> Transaction] /\ \A q \in Request \ {r} : tx'[q] = tx[q]
  BY <1>1 DEF IInv, TypeOK
<1>7. tx' \in [Request -> Transaction] /\ tx'[r] = u
  BY <1>1, <1>3, <1>6
<1>8. \A q \in Request \ {r} : TxOk(tx'[q])
  BY <1>6 DEF IInv, TxInv
<1>9. ApartInv'
  <2>1. SUFFICES ASSUME NEW p \in Request, NEW q \in Request \ {p}
                 PROVE  /\ tx'[p].held \intersect tx'[q].held = {}
                        /\ tx'[p].made # None => tx'[p].made # tx'[q].made
                        /\ Revokes(tx'[p]) /\ tx'[q] # Idle => tx'[q].raced
    BY DEF ApartInv, Revokes
  <2>2. CASE p # r /\ q # r
    BY <1>6, <2>2 DEF IInv, ApartInv
  <2>3. CASE p = r
    BY <1>4, <1>7, <2>3
  <2>4. CASE q = r
    BY <1>4, <1>6, <1>7, <2>4
  <2>5. QED
    BY <2>2, <2>3, <2>4
<1>10. QED
  BY <1>1, <1>5, <1>7, <1>8, <1>9, Moving

LEMMA StepArrive == ASSUME IInv, NEW r \in Request, Arrive(r) PROVE IInv'
<1>1. CASE Register(r)
  BY <1>1, Beginning DEF Register, Opening
<1>2. CASE Login(r)
  BY <1>2, Beginning DEF Login, Opening
<1>3. CASE GoogleLogin(r)
  BY <1>3, Beginning DEF GoogleLogin, Opening
<1>4. CASE AppleLogin(r)
  BY <1>4, Beginning, AccountsAssumption DEF AppleLogin, Opening
<1>5. CASE Refresh(r)
  BY <1>5, Beginning DEF Refresh, Opening
<1>6. CASE Logout(r)
  BY <1>6, Beginning DEF Logout, Opening
<1>7. CASE DeleteMe(r)
  BY <1>7, Beginning DEF DeleteMe, Opening, Accepted, Presentable
<1>8. CASE VerifyEmail(r)
  BY <1>8, Beginning DEF VerifyEmail, Opening, OfPurpose
<1>9. CASE ResendVerification(r)
  BY <1>9, Beginning DEF ResendVerification, Opening
<1>10. CASE ForgotPassword(r)
  BY <1>10, Beginning DEF ForgotPassword, Opening
<1>11. CASE ResetPassword(r)
  BY <1>11, Beginning DEF ResetPassword, Opening, OfPurpose
<1>12. QED
  BY <1>1, <1>2, <1>3, <1>4, <1>5, <1>6, <1>7, <1>8, <1>9, <1>10, <1>11 DEF Arrive

LEMMA StepInsertReplacement == ASSUME IInv, NEW r \in Request, InsertReplacement(r) PROVE IInv'
<1> DEFINE t == tx[r]
           u == tx'[r]
           m == One(FreeSessions)
<1>1. CASE Fail(r)
  BY <1>1, Failing
<1>2. CASE FreeSessions # {} /\ Go(r, [tx[r] EXCEPT !.step = "commit", !.made = One(FreeSessions)])
  <2>1. /\ tx' = [tx EXCEPT ![r] = u] /\ UNCHANGED <<db, workload>>
        /\ u = [t EXCEPT !.step = "commit", !.made = m]
        /\ t.op = "refresh" /\ t.step = "insert"
    BY <1>2 DEF InsertReplacement, At, Go, IInv, TypeOK
  <2>2. t \in Transaction /\ TxOk(t)
    BY Facts
  <2>3. m \in FreeSessions
    BY <1>2 DEF One
  <2>4. m \in Session /\ m # None /\ sessions[m].state = "free" /\ \A q \in Request : tx[q].made # m
    BY <2>3, AccountsAssumption DEF FreeSessions
  <2> HIDE DEF m
  <2>5. u \in Transaction
    BY <2>1, <2>2, <2>4 DEF Transaction
  <2>6. /\ u.op = t.op /\ u.step = "commit" /\ u.key = t.key /\ u.user = t.user /\ u.made = m
        /\ u.raced = t.raced /\ u.held = t.held /\ u.scan = t.scan /\ u.cut = t.cut
    BY <2>1, <2>2 DEF Transaction
  <2>7. t # Idle /\ PathOk(t) /\ SessionOk(t) /\ LinkOk(t) /\ LoginOk(t) /\ RevocationOk(t)
    BY <2>1, <2>2, IdleType DEF TxOk
  <2>8. ~Revokes(u)
    BY <2>1, <2>6 DEF Revokes
  <2> HIDE DEF t, u
  <2>9. TxOk(u)
    <3>1. PathOk(u)
      BY <2>1, <2>6, <2>7, IdleType DEF PathOk, Loading
    <3>2. SessionOk(u)
      BY <2>1, <2>4, <2>6, <2>7 DEF SessionOk, Loading
    <3>3. LinkOk(u) /\ LoginOk(u)
      BY <2>1, <2>6, <2>7 DEF LinkOk, LoginOk
    <3>4. RevocationOk(u)
      BY <2>1, <2>6, <2>7, <2>8 DEF RevocationOk, Concerns
    <3>5. QED
      BY <3>1, <3>2, <3>3, <3>4 DEF TxOk
  <2>10. tx \in [Request -> Transaction] /\ \A q \in Request \ {r} : tx'[q] = tx[q]
    BY <2>1 DEF IInv, TypeOK
  <2>11. tx' \in [Request -> Transaction] /\ tx'[r] = u
    BY <2>1, <2>5, <2>10
  <2>12. \A q \in Request \ {r} : TxOk(tx'[q])
    BY <2>10 DEF IInv, TxInv
  <2>13. ApartInv'
    <3>1. SUFFICES ASSUME NEW p \in Request, NEW q \in Request \ {p}
                   PROVE  /\ tx'[p].held \intersect tx'[q].held = {}
                          /\ tx'[p].made # None => tx'[p].made # tx'[q].made
                          /\ Revokes(tx'[p]) /\ tx'[q] # Idle => tx'[q].raced
      BY DEF ApartInv, Revokes
    <3>2. CASE p # r /\ q # r
      BY <2>10, <3>2 DEF IInv, ApartInv
    <3>3. CASE p = r
      BY <2>4, <2>6, <2>8, <2>10, <2>11, <3>3 DEF IInv, ApartInv, t
    <3>4. CASE q = r
      BY <2>4, <2>6, <2>7, <2>10, <2>11, <3>4 DEF IInv, ApartInv, t
    <3>5. QED
      BY <3>2, <3>3, <3>4
  <2>14. QED
    BY <2>1, <2>9, <2>11, <2>12, <2>13, Moving
<1>3. QED
  BY <1>1, <1>2 DEF InsertReplacement

LEMMA StepScan == ASSUME IInv, NEW r \in Request, Scan(r) PROVE IInv'
<1> DEFINE t == tx[r]
           u == tx'[r]
<1>1. /\ UNCHANGED <<db, workload>> /\ tx \in [Request -> Transaction]
      /\ t.op \in Revoker /\ t.step = "scan"
  BY DEF Scan, At, IInv, TypeOK
<1>2. u = [t EXCEPT !.step = "lock", !.scan = Scope(r)]
  BY DEF Scan
<1>3. \A q \in Request \ {r} : tx'[q] = [tx[q] EXCEPT !.raced = @ \/ tx[q] # Idle]
  BY DEF Scan
<1>4. t \in Transaction /\ TxOk(t)
  BY Facts
<1>5. u \in Transaction
  <2>1. Scope(r) \in SUBSET (Session \union Token)
    BY DEF Scope
  <2>2. QED
    BY <1>2, <1>4, <2>1, ScannedTransaction
<1>6. /\ u.op = t.op /\ u.step = "lock" /\ u.key = t.key /\ u.user = t.user /\ u.made = t.made
      /\ u.raced = t.raced /\ u.held = t.held /\ u.scan = Scope(r) /\ u.cut = t.cut
  BY <1>2, <1>4 DEF Transaction
<1>7. t # Idle /\ PathOk(t) /\ SessionOk(t) /\ LinkOk(t) /\ LoginOk(t) /\ RevocationOk(t)
  BY <1>1, <1>4, IdleType DEF TxOk
<1>8. \A n \in Session : n \in Scope(r) <=> sessions[n].state = "live" /\ Concerns(t, n)
  BY <1>7 DEF Scope, Concerns, PathOk
<1> HIDE DEF t, u
<1>9. TxOk(u)
  <2>1. PathOk(u)
    BY <1>1, <1>6, <1>7, IdleType DEF PathOk, Loading, Revoker
  <2>2. SessionOk(u)
    BY <1>1, <1>6, <1>7 DEF SessionOk, Loading, Revoker
  <2>3. LinkOk(u) /\ LoginOk(u)
    BY <1>1, <1>6, <1>7 DEF LinkOk, LoginOk, Revoker
  <2>4. RevocationOk(u)
    <3>1. u.cut = {}
      BY <1>1, <1>6, <1>7 DEF PathOk
    <3>2. \A n \in Session : Concerns(u, n) <=> Concerns(t, n)
      BY <1>6 DEF Concerns
    <3>3. u.op \notin {"resend", "forgot"}
      BY <1>1, <1>6 DEF Revoker
    <3>4. QED
      BY <1>6, <1>8, <3>1, <3>2, <3>3 DEF RevocationOk
  <2>5. QED
    BY <2>1, <2>2, <2>3, <2>4 DEF TxOk
<1>10. ASSUME NEW q \in Request \ {r}
       PROVE  /\ tx'[q] \in Transaction /\ TxOk(tx'[q])
              /\ tx'[q].held = tx[q].held /\ tx'[q].made = tx[q].made
              /\ Revokes(tx'[q]) => Revokes(tx[q])
              /\ tx'[q] # Idle => tx'[q].raced
  <2> DEFINE b == tx[q]
             c == tx'[q]
  <2>1. b \in Transaction /\ PathOk(b) /\ SessionOk(b) /\ LinkOk(b) /\ LoginOk(b) /\ RevocationOk(b)
    BY Facts DEF TxOk
  <2>2. c = [b EXCEPT !.raced = b.raced \/ b # Idle]
    BY <1>3
  <2>3. CASE b = Idle
    <3>1. c = Idle
      <4>1. b.raced = FALSE /\ (b # Idle) = FALSE
        BY <2>3 DEF Idle
      <4>2. c = [Idle EXCEPT !.raced = FALSE]
        BY <2>2, <2>3, <4>1
      <4>3. QED
        BY <4>2 DEF Idle
    <3>2. QED
      BY <2>1, <2>3, <3>1 DEF TxOk
  <2>4. CASE b # Idle
    <3>1. c = [b EXCEPT !.raced = TRUE]
      BY <2>2, <2>4
    <3>2. c \in Transaction
      BY <2>1, <3>1 DEF Transaction
    <3>3. /\ c.op = b.op /\ c.step = b.step /\ c.key = b.key /\ c.user = b.user /\ c.made = b.made
          /\ c.era = b.era /\ c.held = b.held /\ c.scan = b.scan /\ c.cut = b.cut /\ c.raced = TRUE
      BY <2>1, <3>1 DEF Transaction
    <3> HIDE DEF b, c
    <3>4. PathOk(c)
      BY <2>1, <2>4, <3>3 DEF PathOk
    <3>5. SessionOk(c)
      BY <2>1, <3>3 DEF SessionOk
    <3>6. LinkOk(c) /\ LoginOk(c)
      BY <2>1, <3>3 DEF LinkOk, LoginOk
    <3>7. RevocationOk(c)
      BY <2>1, <3>3 DEF RevocationOk, Concerns, Revokes
    <3>8. Revokes(c) => Revokes(b)
      BY <3>3 DEF Revokes
    <3>9. QED
      BY <3>2, <3>3, <3>4, <3>5, <3>6, <3>7, <3>8 DEF TxOk, b, c
  <2>5. QED
    BY <2>3, <2>4
<1>11. tx' \in [Request -> Transaction]
  <2>1. tx' = [q \in Request |-> tx'[q]]
    BY DEF Scan
  <2>2. \A q \in Request : tx'[q] \in Transaction
    BY <1>5, <1>10 DEF u
  <2>3. QED
    BY <2>1, <2>2
<1>12. ApartInv'
  <2>1. SUFFICES ASSUME NEW p \in Request, NEW q \in Request \ {p}
                 PROVE  /\ tx'[p].held \intersect tx'[q].held = {}
                        /\ tx'[p].made # None => tx'[p].made # tx'[q].made
                        /\ Revokes(tx'[p]) /\ tx'[q] # Idle => tx'[q].raced
    BY DEF ApartInv, Revokes
  <2>2. \A a \in Request : tx'[a].held = tx[a].held /\ tx'[a].made = tx[a].made
    BY <1>6, <1>10 DEF t, u
  <2>3. tx[p].held \intersect tx[q].held = {} /\ (tx[p].made # None => tx[p].made # tx[q].made)
    BY DEF IInv, ApartInv
  <2>4. Revokes(tx'[p]) /\ tx'[q] # Idle => tx'[q].raced
    <3>1. CASE q # r
      BY <1>10, <3>1
    <3>2. CASE q = r
      <4>1. Revokes(tx'[p]) => Revokes(tx[p])
        BY <1>10, <3>2
      <4>2. Revokes(tx[p]) => tx[r].raced
        BY <1>7, <3>2 DEF IInv, ApartInv, t
      <4>3. QED
        BY <1>6, <3>2, <4>1, <4>2 DEF t, u
    <3>3. QED
      BY <3>1, <3>2
  <2>5. QED
    BY <2>2, <2>3, <2>4
<1>13. QED
  BY <1>1, <1>9, <1>10, <1>11, <1>12, Moving DEF u

\* What a commit makes of users, but for a revocation, and of links.
UsersOk ==
    /\ users' \in [User -> UserRow]
    /\ \A u \in User : /\ users'[u].era <= users[u].era
                       /\ users[u].status # "free" /\ users[u].verified =>
                            users'[u].status # "free" /\ users'[u].verified

LinksOk(r) ==
    /\ tokens' \in [Token -> TokenRow] /\ used' \in [Token -> Nat]
    /\ \A t \in Token :
          /\ tokens[t].state # "free" => tokens'[t].state # "free"
          /\ tokens'[t].state = "free" <=> tokens'[t].user = None
          /\ tokens'[t].state \in {"free", "active"} => used'[t] = 0
          /\ used'[t] <= 1
          /\ \A q \in Request \ {r} : t \in tx[q].held /\ tokens[t].state # "free" =>
                tokens'[t].state = tokens[t].state

LEMMA UsersKept == ASSUME IInv, UNCHANGED users PROVE UsersOk
BY DEF UsersOk, IInv, TypeOK, UserRow

LEMMA LinksKept == ASSUME IInv, NEW r \in Request, UNCHANGED <<tokens, used>> PROVE LinksOk(r)
BY DEF LinksOk, IInv, TypeOK, RowInv, LinkWorksOnce

LEMMA LinkConsumed ==
    ASSUME IInv, NEW r \in Request, tx[r].op \in {"verify", "reset"}, tx[r].step # "token",
           Consumed(tx[r].key)
    PROVE  LinksOk(r)
<1>1. tx[r] \in Transaction /\ LinkOk(tx[r])
  BY Facts DEF TxOk
<1>2. /\ tx[r].key \in Token /\ tx[r].key \in tx[r].held /\ tokens[tx[r].key].state = "active"
      /\ used[tx[r].key] = 0
  BY <1>1 DEF LinkOk, IInv, RowInv
<1>3. \A q \in Request \ {r} : tx[r].key \notin tx[q].held
  BY <1>2 DEF IInv, ApartInv
<1>4. QED
  BY <1>2, <1>3 DEF Consumed, LinksOk, IInv, TypeOK, TokenRow, RowInv, LinkWorksOnce

LEMMA LinkSent ==
    ASSUME IInv, NEW r \in Request, NEW u \in User, NEW p \in Purpose, NEW T,
           \A t \in T : Free(r, t), NewToken(u, p, T), UNCHANGED used
    PROVE  LinksOk(r)
<1> DEFINE f == One(FreeTokens)
<1>1. f \in Token /\ tokens[f].state = "free"
  BY DEF NewToken, One, FreeTokens
<1> HIDE DEF f
<1>2. tokens' = [t \in Token |->
          CASE t = f -> [state |-> "active", user |-> u, purpose |-> p]
            [] t \in T /\ tokens[t].state = "active" -> [tokens[t] EXCEPT !.state = "consumed"]
            [] OTHER -> tokens[t]]
  BY DEF NewToken, f
<1>3. u # None
  BY AccountsAssumption
<1>4. QED
  BY <1>1, <1>2, <1>3 DEF LinksOk, Free, IInv, TypeOK, TokenRow, RowInv, LinkWorksOnce

\* A commit that leaves sessions alone.
LEMMA Plain ==
    ASSUME IInv, NEW r \in Request, tx' = [tx EXCEPT ![r] = Idle], UsersOk, LinksOk(r),
           LinkedIsVerified', UNCHANGED <<sessions, links, workload>>
    PROVE  IInv'
<1>1. TypeOK'
  BY IdleType DEF IInv, TypeOK, UsersOk, LinksOk
<1>2. Follow
  BY DEF Follow, UsersOk, LinksOk
<1>3. \A q \in Request \ {r} : Undisturbed(q)
  <2>1. SUFFICES ASSUME NEW q \in Request \ {r} PROVE Undisturbed(q)
    OBVIOUS
  <2>2. tx[q] \in Transaction /\ TxOk(tx[q])
    BY Facts
  <2>3. tx[q].made # None => sessions[tx[q].made].state = "free"
    BY <2>2 DEF TxOk, SessionOk
  <2>4. QED
    BY <2>3 DEF Undisturbed, UsersOk, LinksOk
<1>4. RowInv' /\ LinkWorksOnce' /\ OneLivePerFamily'
  BY DEF IInv, RowInv, LinksOk, LinkWorksOnce, OneLivePerFamily
<1>5. RevocationEndsSessions'
  <2>1. \A n \in Session : sessions[n].era \in Nat /\
            (sessions[n].state # "free" => sessions[n].user \in User)
    BY DEF IInv, TypeOK, SessionRow
  <2>2. \A u \in User : users[u].era \in Nat /\ users'[u].era \in Nat /\ users'[u].era <= users[u].era
    BY DEF IInv, TypeOK, UserRow, UsersOk
  <2>3. \A n \in Session : sessions[n].state = "live" /\ sessions[n].era < users'[sessions[n].user].era =>
            sessions[n].era < users[sessions[n].user].era
    BY <2>1, <2>2
  <2>4. QED
    BY <2>3 DEF RevocationEndsSessions, IInv
<1>6. QED
  BY <1>1, <1>2, <1>3, <1>4, <1>5, Ending

\* A commit that issues the session s and revokes S, which is locked.
IssueOk(r, s, S, row) ==
    /\ s \in Session /\ sessions[s].state = "free" /\ \A q \in Request \ {r} : tx[q].made # s
    /\ \A n \in S \intersect Session : n \in tx[r].held /\ sessions[n].state # "free"
    /\ row \in SessionRow /\ row.state = "live" /\ row.user \in User /\ row.family \in Session
    /\ ~row.reused /\ (tx[r].raced => row.raced)
    /\ row.family = s \/ sessions[row.family].state # "free"
    /\ \A n \in Session \ S : sessions[n].state = "live" => sessions[n].family # row.family
    /\ \/ row.raced
       \/ /\ row.era >= users'[row.user].era
          /\ \A n \in Session : sessions[n].reused => sessions[n].family # row.family
    /\ sessions' = [RevokedIn(S) EXCEPT ![s] = row]

LEMMA Issuing ==
    ASSUME IInv, NEW r \in Request, tx' = [tx EXCEPT ![r] = Idle], tx[r] # Idle,
           NEW s, NEW S, NEW row, IssueOk(r, s, S, row),
           UsersOk, LinksOk(r), links' \in LinkTable, LinkedIsVerified', UNCHANGED workload
    PROVE  IInv'
<1> USE DEF IssueOk
<1>1. /\ sessions'[s] = row
      /\ \A n \in Session \ {s} :
            IF n \in S THEN sessions'[n] = [sessions[n] EXCEPT !.state = "revoked"]
            ELSE sessions'[n] = sessions[n]
      /\ sessions' \in [Session -> SessionRow]
  BY DEF RevokedIn, IInv, TypeOK, SessionRow
<1>2. \A n \in Session \ {s} :
          /\ sessions'[n].user = sessions[n].user /\ sessions'[n].family = sessions[n].family
          /\ sessions'[n].raced = sessions[n].raced /\ sessions'[n].era = sessions[n].era
          /\ sessions'[n].reused = sessions[n].reused
          /\ sessions'[n].state = IF n \in S THEN "revoked" ELSE sessions[n].state
  BY <1>1 DEF IInv, TypeOK, SessionRow
<1>3. TypeOK'
  <2>1. \A n \in Session : sessions'[n].state # "free" => sessions'[n].user # None /\ sessions'[n].family # None
    BY <1>1, <1>2, AccountsAssumption DEF IInv, TypeOK
  <2>2. QED
    BY <1>1, <2>1, IdleType DEF IInv, TypeOK, UsersOk, LinksOk
<1>4. Follow
  BY <1>2 DEF Follow, UsersOk, LinksOk
<1>5. \A q \in Request \ {r} : Undisturbed(q)
  <2>1. SUFFICES ASSUME NEW q \in Request \ {r} PROVE Undisturbed(q)
    OBVIOUS
  <2>2. /\ tx[q] \in Transaction /\ TxOk(tx[q]) /\ tx[q].held \intersect tx[r].held = {}
        /\ Revokes(tx[q]) => tx[r].raced
    BY Facts DEF IInv, ApartInv
  <2>3. tx[q].made # None => tx[q].made \in Session \ {s} /\ sessions[tx[q].made].state = "free"
    BY <2>2 DEF TxOk, SessionOk, Transaction
  <2>4. tx[q].made # None => sessions'[tx[q].made].state = "free"
    BY <1>2, <2>3
  <2>5. \A n \in Session : n \in tx[q].held /\ sessions[n].state # "free" =>
            sessions'[n].state = sessions[n].state
    BY <1>2, <2>2
  <2>6. Revokes(tx[q]) => \A n \in Session :
            sessions[n].state = "free" /\ sessions'[n].state = "live" => sessions'[n].raced
    BY <1>1, <1>2, <2>2
  <2>7. QED
    BY <2>4, <2>5, <2>6 DEF Undisturbed, UsersOk, LinksOk
<1>6. RowInv'
  <2>1. NoSession.state = "free"
    BY DEF NoSession
  <2>2. \A n \in Session : sessions[n].state # "free" =>
            sessions[n].family \in Session /\ sessions[sessions[n].family].state # "free"
    BY DEF IInv, RowInv, TypeOK, SessionRow
  <2>3. \A n \in Session \ {s} : sessions[n].state = "free" => n \notin S /\ sessions'[n] = NoSession
    BY <1>1 DEF IInv, RowInv
  <2>4. \A n \in Session : sessions[n].state # "free" => sessions'[n].state # "free"
    BY <1>2
  <2>5. \A n \in Session \ {s} : IF sessions'[n].state = "free" THEN sessions'[n] = NoSession
                                ELSE sessions'[sessions'[n].family].state # "free"
    BY <1>2, <2>1, <2>2, <2>3, <2>4
  <2>6. sessions'[s].state # "free" /\ sessions'[sessions'[s].family].state # "free"
    BY <1>1, <2>4
  <2>7. QED
    BY <2>5, <2>6 DEF RowInv, LinksOk
<1>7. OneLivePerFamily'
  BY <1>1, <1>2 DEF OneLivePerFamily, IInv
<1>8. RevocationEndsSessions'
  <2>1. SUFFICES ASSUME NEW n \in Session, sessions'[n].state = "live",
                        \/ sessions'[n].era < users'[sessions'[n].user].era
                        \/ \E m \in Session : sessions'[m].reused /\ sessions'[m].family = sessions'[n].family
                 PROVE  sessions'[n].raced
    BY DEF RevocationEndsSessions
  <2>2. CASE n = s
    <3>1. users'[row.user].era \in Nat /\ row.era \in Nat
      BY DEF UsersOk, UserRow, SessionRow
    <3>2. QED
      BY <1>1, <1>2, <2>1, <2>2, <3>1
  <2>3. CASE n # s
    <3>1. sessions[n].state = "live" /\ sessions[n].user \in User /\ sessions[n].era \in Nat
      BY <1>2, <2>1, <2>3 DEF IInv, TypeOK, SessionRow
    <3>2. sessions[n].era < users'[sessions[n].user].era => sessions[n].era < users[sessions[n].user].era
      BY <3>1 DEF IInv, TypeOK, UserRow, UsersOk
    <3>3. CASE \E m \in Session : sessions'[m].reused /\ sessions'[m].family = sessions'[n].family
      BY <1>1, <1>2, <2>3, <3>1, <3>3 DEF RevocationEndsSessions, IInv
    <3>4. QED
      BY <1>2, <2>1, <2>3, <3>1, <3>2, <3>3 DEF RevocationEndsSessions, IInv
  <2>4. QED
    BY <2>2, <2>3
<1>9. LinkWorksOnce'
  BY DEF LinkWorksOnce, LinksOk
<1>10. QED
  BY <1>3, <1>4, <1>5, <1>6, <1>7, <1>8, <1>9, Ending

LEMMA StepCommitRotation == ASSUME IInv, NEW r \in Request, CommitRotation(r) PROVE IInv'
<1> DEFINE t == tx[r]
           s == t.key
           row == Issued(t.user, sessions[s].family, t.version, sessions[s].era,
                         sessions[s].raced \/ t.raced)
<1>1. /\ t.op = "refresh" /\ t.step = "commit" /\ tx' = [tx EXCEPT ![r] = Idle]
      /\ sessions' = [RevokedIn({s}) EXCEPT ![t.made] = row]
      /\ UNCHANGED <<users, tokens, links, used, workload>>
  BY DEF CommitRotation, At, End
<1>2. t \in Transaction /\ PathOk(t) /\ SessionOk(t) /\ t # Idle
  BY <1>1, Facts, IdleType DEF TxOk
<1>3. /\ s \in Session /\ s \in t.held /\ sessions[s].state = "live" /\ t.user = sessions[s].user
      /\ t.user \in User /\ t.made \in Session /\ sessions[t.made].state = "free"
  BY <1>1, <1>2 DEF PathOk, SessionOk, Loading, Transaction
<1>4. sessions[s].family \in Session /\ sessions[sessions[s].family].state # "free"
  BY <1>3 DEF IInv, RowInv, TypeOK, SessionRow
<1>5. \A q \in Request \ {r} : tx[q].made # t.made
  BY <1>1, <1>2 DEF IInv, ApartInv, SessionOk
<1>6. row \in SessionRow /\ row.state = "live" /\ row.user = t.user /\ ~row.reused
      /\ row.family = sessions[s].family /\ row.era = sessions[s].era
      /\ (row.raced <=> sessions[s].raced \/ t.raced)
  BY <1>2, <1>3, <1>4 DEF Issued, NoSession, SessionRow, Transaction, IInv, TypeOK
<1>7. \A n \in Session \ {s} : sessions[n].state = "live" => sessions[n].family # row.family
  BY <1>3, <1>6 DEF IInv, OneLivePerFamily
<1>8. \/ row.raced
      \/ /\ row.era >= users'[row.user].era
         /\ \A n \in Session : sessions[n].reused => sessions[n].family # row.family
  <2>1. sessions[s].era \in Nat /\ users[t.user].era \in Nat
    BY <1>3 DEF IInv, TypeOK, SessionRow, UserRow
  <2>2. SUFFICES ASSUME ~sessions[s].raced
                 PROVE  /\ sessions[s].era >= users[t.user].era
                        /\ \A n \in Session : sessions[n].reused =>
                               sessions[n].family # sessions[s].family
    BY <1>1, <1>6
  <2>3. QED
    BY <1>3, <2>1, <2>2 DEF IInv, RevocationEndsSessions
<1>9. UsersOk /\ LinksOk(r) /\ links' \in LinkTable /\ LinkedIsVerified'
  BY <1>1, UsersKept, LinksKept DEF IInv, TypeOK, LinkedIsVerified, Exists
<1> HIDE DEF t, row, s
<1>10. \A n \in {s} \intersect Session : n \in tx[r].held /\ sessions[n].state # "free"
  BY <1>3 DEF t
<1>11. tx[r] # Idle /\ (tx[r].raced => row.raced)
  BY <1>2, <1>6 DEF t
<1>12. IssueOk(r, t.made, {s}, row)
  BY <1>1, <1>3, <1>4, <1>5, <1>6, <1>7, <1>8, <1>10, <1>11 DEF IssueOk
<1>13. QED
  BY <1>1, <1>9, <1>11, <1>12, Issuing

\* The first session of a family.
LEMMA FirstSession ==
    ASSUME IInv, NEW r \in Request, tx' = [tx EXCEPT ![r] = Idle], tx[r] # Idle,
           NEW u \in User, NEW version \in Nat, NEW era \in Nat, NewFamily(r, u, version, era),
           tx[r].raced \/ era >= users'[u].era,
           UsersOk, LinksOk(r), links' \in LinkTable, LinkedIsVerified', UNCHANGED workload
    PROVE  IInv'
<1> DEFINE s == One(FreeSessions)
           row == Issued(u, s, version, era, tx[r].raced)
<1>1. s \in FreeSessions /\ sessions' = [sessions EXCEPT ![s] = row]
  BY DEF NewFamily, One
<1>2. s \in Session /\ sessions[s].state = "free" /\ \A q \in Request : tx[q].made # s
  BY <1>1 DEF FreeSessions
<1>3. tx[r].raced \in BOOLEAN
  BY DEF IInv, TypeOK, Transaction
<1> HIDE DEF s
<1>4. /\ row \in SessionRow /\ row.state = "live" /\ row.user = u /\ row.family = s /\ ~row.reused
      /\ row.raced = tx[r].raced /\ row.era = era
  BY <1>2, <1>3 DEF Issued, NoSession, SessionRow
<1>5. RevokedIn({}) = sessions
  BY DEF RevokedIn, IInv, TypeOK
<1>6. \A n \in Session : sessions[n].state # "free" => sessions[n].family # s
  BY <1>2 DEF IInv, RowInv
<1>7. \A n \in Session : sessions[n].reused => sessions[n].family # s
  <2>1. ~NoSession.reused
    BY DEF NoSession
  <2>2. QED
    BY <1>6, <2>1 DEF IInv, RowInv
<1>8. sessions' = [RevokedIn({}) EXCEPT ![s] = row]
  BY <1>1, <1>5
<1> HIDE DEF row
<1>9. IssueOk(r, s, {}, row)
  BY <1>2, <1>4, <1>6, <1>7, <1>8 DEF IssueOk
<1>10. QED
  BY <1>9, Issuing

LEMMA StepCommitLogin == ASSUME IInv, NEW r \in Request, CommitLogin(r) PROVE IInv'
<1>1. CASE Fail(r)
  BY <1>1, Failing
<1>2. CASE /\ At(r, {"login", "oauth"}, "commit") /\ NewFamily(r, tx[r].user, tx[r].version, tx[r].era)
           /\ End(r) /\ UNCHANGED <<users, tokens, links, used>>
  <2>1. /\ tx[r] \in Transaction /\ PathOk(tx[r]) /\ LoginOk(tx[r])
        /\ tx[r].op \in {"login", "oauth"} /\ tx[r].step = "commit" /\ tx[r] # Idle
    BY <1>2, Facts, IdleType DEF At, TxOk
  <2>2. /\ tx[r].user \in User /\ tx[r].version \in Nat /\ tx[r].era \in Nat
        /\ tx[r].raced \/ tx[r].era >= users'[tx[r].user].era
    BY <1>2, <2>1 DEF PathOk, LoginOk, Loading, Transaction
  <2>3. UsersOk /\ LinksOk(r) /\ links' \in LinkTable /\ LinkedIsVerified'
    BY <1>2, UsersKept, LinksKept DEF IInv, TypeOK, LinkedIsVerified, Exists
  <2>4. QED
    BY <1>2, <2>1, <2>2, <2>3, FirstSession DEF End
<1>3. QED
  BY <1>1, <1>2 DEF CommitLogin

LEMMA StepCommitJoin == ASSUME IInv, NEW r \in Request, CommitJoin(r) PROVE IInv'
<1>1. CASE Fail(r)
  BY <1>1, Failing
<1>2. CASE /\ At(r, {"oauth"}, "join") /\ Exists(tx[r].user)
           /\ links' = [links EXCEPT ![tx[r].key] = tx[r].user]
           /\ NewFamily(r, tx[r].user, tx[r].version, tx[r].era)
           /\ End(r) /\ UNCHANGED <<users, tokens, used>>
  <2>1. /\ tx[r] \in Transaction /\ PathOk(tx[r]) /\ LoginOk(tx[r])
        /\ tx[r].op = "oauth" /\ tx[r].step = "join" /\ tx[r] # Idle
    BY <1>2, Facts, IdleType DEF At, TxOk
  <2>2. /\ tx[r].user \in User /\ tx[r].version \in Nat /\ tx[r].era \in Nat /\ tx[r].key \in Subject
        /\ users[tx[r].user].verified
        /\ tx[r].raced \/ tx[r].era >= users'[tx[r].user].era
    BY <1>2, <2>1 DEF PathOk, LoginOk, Loading, Transaction
  <2>3. UsersOk /\ LinksOk(r)
    BY <1>2, UsersKept, LinksKept
  <2>4. links' \in LinkTable /\ LinkedIsVerified'
    BY <1>2, <2>2 DEF IInv, TypeOK, LinkTable, LinkedIsVerified, Exists
  <2>5. QED
    BY <1>2, <2>1, <2>2, <2>3, <2>4, FirstSession DEF End
<1>3. QED
  BY <1>1, <1>2 DEF CommitJoin

\* A user is inserted.
LEMMA NewUser ==
    ASSUME IInv, NEW u, u = One(FreeUsers), FreeUsers # {}, NEW e \in Email,
           NEW verified \in BOOLEAN, NEW password \in BOOLEAN,
           users' = [users EXCEPT ![u] = Account(e, verified, password)]
    PROVE  /\ u \in User /\ UsersOk /\ users'[u] = Account(e, verified, password)
           /\ \A i \in Subject : links[i] # None => links[i] # u
                                    /\ users'[links[i]].status \in {"active", "deletion_pending"} /\ users'[links[i]].verified
<1>1. u \in User /\ users[u].status = "free"
  BY DEF One, FreeUsers
<1>2. Account(e, verified, password) \in UserRow /\ Account(e, verified, password).era = 0
  BY DEF Account, NoUser, UserRow
<1>3. UsersOk
  BY <1>1, <1>2 DEF UsersOk, IInv, TypeOK, UserRow
<1>4. \A i \in Subject : links[i] # None => links[i] \in User /\ links[i] # u
  BY <1>1 DEF IInv, TypeOK, LinkTable, LinkedIsVerified, Exists
<1>5. \A v \in User \ {u} : users'[v] = users[v]
  BY DEF IInv, TypeOK
<1>6. \A i \in Subject : links[i] # None => users'[links[i]] = users[links[i]]
  BY <1>4, <1>5
<1>7. \A i \in Subject : links[i] # None =>
          users[links[i]].status \in {"active", "deletion_pending"} /\ users[links[i]].verified
  BY DEF IInv, LinkedIsVerified, Exists
<1>8. QED
  BY <1>1, <1>2, <1>3, <1>4, <1>6, <1>7 DEF IInv, TypeOK

LEMMA StepCommitRegister == ASSUME IInv, NEW r \in Request, CommitRegister(r) PROVE IInv'
<1> DEFINE u == One(FreeUsers)
<1>1. CASE Fail(r)
  BY <1>1, Failing
<1>2. CASE /\ FreeUsers # {} /\ users' = [users EXCEPT ![u] = Account(tx[r].key, FALSE, TRUE)]
           /\ NewToken(u, "verify_email", {}) /\ End(r) /\ UNCHANGED <<sessions, links, used>>
  <2>1. tx[r].key \in Email
    BY Facts DEF CommitRegister, At, TxOk, LoginOk
  <2>2. /\ u \in User /\ UsersOk
        /\ \A i \in Subject : links[i] # None => users'[links[i]].status \in {"active", "deletion_pending"} /\ users'[links[i]].verified
    BY <1>2, <2>1, NewUser
  <2>3. LinksOk(r)
    BY <1>2, <2>2, LinkSent DEF Purpose
  <2>4. LinkedIsVerified'
    BY <1>2, <2>2 DEF LinkedIsVerified, Exists
  <2>5. QED
    BY <1>2, <2>2, <2>3, <2>4, Plain DEF End
<1>3. QED
  BY <1>1, <1>2 DEF CommitRegister

LEMMA StepCommitCreate == ASSUME IInv, NEW r \in Request, CommitCreate(r) PROVE IInv'
<1> DEFINE u == One(FreeUsers)
           i == tx[r].key
<1>1. CASE Fail(r)
  BY <1>1, Failing
<1>2. CASE /\ FreeUsers # {} /\ users' = [users EXCEPT ![u] = Account(Address[i], TRUE, FALSE)]
           /\ links' = [links EXCEPT ![i] = u]
           /\ NewFamily(r, u, 1, 0) /\ End(r) /\ UNCHANGED <<tokens, used>>
  <2>1. i \in Subject /\ Address[i] \in Email /\ tx[r] # Idle
    BY Facts, AccountsAssumption, IdleType DEF CommitCreate, At, TxOk, LoginOk
  <2>2. /\ u \in User /\ UsersOk /\ users'[u] = Account(Address[i], TRUE, FALSE)
        /\ \A j \in Subject : links[j] # None => links[j] # u
                                 /\ users'[links[j]].status \in {"active", "deletion_pending"} /\ users'[links[j]].verified
    BY <1>2, <2>1, NewUser
  <2>3. users'[u].era = 0 /\ users'[u].status = "active" /\ users'[u].verified
    BY <2>2 DEF Account, NoUser
  <2> HIDE DEF u
  <2>4. links' \in LinkTable /\ LinkedIsVerified'
    <3>1. \A j \in Subject : links'[j] = IF j = i THEN u ELSE links[j]
      BY <1>2, <2>1 DEF IInv, TypeOK, LinkTable
    <3>2. links' \in LinkTable
      BY <1>2, <2>1, <2>2 DEF IInv, TypeOK, LinkTable
    <3>3. QED
      BY <2>1, <2>2, <2>3, <3>1, <3>2 DEF LinkedIsVerified, Exists
  <2>5. LinksOk(r)
    BY <1>2, LinksKept
  <2>6. 0 >= users'[u].era
    BY <2>3
  <2>a. tx' = [tx EXCEPT ![r] = Idle] /\ UNCHANGED workload
    BY <1>2 DEF End
  <2>7. NewFamily(r, u, 1, 0)
    BY <1>2
  <2>8. QED
    BY <2>1, <2>2, <2>4, <2>5, <2>6, <2>a, <2>7, FirstSession
<1>3. QED
  BY <1>1, <1>2 DEF CommitCreate

LEMMA StepCommitLink == ASSUME IInv, NEW r \in Request, CommitLink(r) PROVE IInv'
<1>1. CASE Fail(r)
  BY <1>1, Failing
<1>2. CASE /\ NewToken(tx[r].user, PurposeOf(tx[r].op), tx[r].scan)
           /\ End(r) /\ UNCHANGED <<users, sessions, links, used>>
  <2>1. tx[r].user \in User /\ \A t \in tx[r].scan : Free(r, t)
    BY Facts DEF CommitLink, At, TxOk, PathOk, Loading
  <2>2. PurposeOf(tx[r].op) \in Purpose
    BY DEF PurposeOf, Purpose
  <2>3. LinksOk(r)
    BY <1>2, <2>1, <2>2, LinkSent
  <2>4. UsersOk /\ LinkedIsVerified'
    BY <1>2, UsersKept DEF IInv, LinkedIsVerified, Exists
  <2>5. QED
    BY <1>2, <2>3, <2>4, Plain DEF End
<1>3. QED
  BY <1>1, <1>2 DEF CommitLink

LEMMA StepCommitVerify == ASSUME IInv, NEW r \in Request, CommitVerify(r) PROVE IInv'
<1>1. /\ tx[r].op = "verify" /\ tx[r].step = "commit" /\ Consumed(tx[r].key)
      /\ users' = [users EXCEPT ![tx[r].user].verified = TRUE]
      /\ tx' = [tx EXCEPT ![r] = Idle] /\ UNCHANGED <<sessions, links, workload>>
  BY DEF CommitVerify, At, End
<1>2. LinksOk(r)
  <2>1. tx[r].op \in {"verify", "reset"} /\ tx[r].step # "token"
    BY <1>1
  <2>2. QED
    BY <1>1, <2>1, LinkConsumed
<1>3. /\ tx[r].user \in User
      /\ \A u \in User : users'[u] = IF u = tx[r].user THEN [users[u] EXCEPT !.verified = TRUE]
                                                       ELSE users[u]
  BY <1>1, Facts DEF TxOk, PathOk, Loading, IInv, TypeOK
<1>4. \A u \in User : /\ users'[u] \in UserRow /\ users'[u].status = users[u].status
                      /\ users'[u].era = users[u].era
                      /\ users[u].verified => users'[u].verified
  BY <1>3, ZenonT(40) DEF IInv, TypeOK, UserRow
<1>5. \A u \in User : users[u].era \in Nat
  BY DEF IInv, TypeOK, UserRow
<1>6. UsersOk
  <2>1. users' \in [User -> UserRow]
    BY <1>1, <1>4 DEF IInv, TypeOK
  <2>2. QED
    BY <1>4, <1>5, <2>1 DEF UsersOk
<1>7. LinkedIsVerified'
  BY <1>1, <1>4 DEF LinkedIsVerified, Exists, IInv, TypeOK, LinkTable
<1>8. QED
  BY <1>1, <1>2, <1>6, <1>7, Plain

\* What a commit that only ends sessions makes of them.
SessionsOk(r) ==
    /\ sessions' \in [Session -> SessionRow]
    /\ \A n \in Session :
          IF sessions[n].state = "free" THEN sessions'[n] = sessions[n]
          ELSE /\ sessions'[n].state # "free"
               /\ sessions'[n].user = sessions[n].user
               /\ sessions'[n].family = sessions[n].family
               /\ sessions'[n].raced = sessions[n].raced
               /\ sessions'[n].state = "live" => sessions[n].state = "live"
               /\ \A q \in Request \ {r} :
                     n \in tx[q].held => sessions'[n].state = sessions[n].state

\* A commit that ends sessions.
LEMMA Closing ==
    ASSUME IInv, NEW r \in Request, tx' = [tx EXCEPT ![r] = Idle], SessionsOk(r), LinksOk(r),
           links' \in LinkTable, users' \in [User -> UserRow],
           \A u \in User : users[u].status # "free" /\ users[u].verified =>
                              users'[u].status # "free" /\ users'[u].verified,
           \A q \in Request \ {r} :
               tx[q].raced \/ tx[q] = Idle \/ \A u \in User : users'[u].era <= users[u].era,
           RevocationEndsSessions', LinkedIsVerified', UNCHANGED workload
    PROVE  IInv'
<1>1. NoSession.state = "free"
  BY DEF NoSession
<1>2. \A n \in Session : sessions[n].state = "free" => sessions[n] = NoSession
  BY DEF IInv, RowInv
<1>3. TypeOK'
  <2>1. \A n \in Session : sessions'[n].state # "free" =>
            sessions'[n].user # None /\ sessions'[n].family # None
    BY DEF SessionsOk, IInv, TypeOK
  <2>2. QED
    BY <2>1, IdleType DEF SessionsOk, LinksOk, IInv, TypeOK
<1>4. Follow
  BY DEF Follow, SessionsOk, LinksOk
<1>5. \A q \in Request \ {r} : Undisturbed(q)
  <2>1. SUFFICES ASSUME NEW q \in Request \ {r} PROVE Undisturbed(q)
    OBVIOUS
  <2>2. tx[q].made # None => tx[q].made \in Session /\ sessions[tx[q].made].state = "free"
    BY Facts DEF TxOk, SessionOk, Transaction
  <2>3. tx[q].made # None => sessions'[tx[q].made].state = "free"
    BY <2>2 DEF SessionsOk
  <2>4. \A n \in Session : sessions[n].state = "free" => sessions'[n].state # "live"
    BY DEF SessionsOk
  <2>5. QED
    BY <2>3, <2>4 DEF Undisturbed, SessionsOk, LinksOk
<1>6. RowInv'
  <2>1. \A n \in Session : sessions[n].state # "free" =>
            sessions[n].family \in Session /\ sessions[sessions[n].family].state # "free"
    BY DEF IInv, RowInv, TypeOK, SessionRow
  <2>2. \A n \in Session : IF sessions'[n].state = "free" THEN sessions'[n] = NoSession
                           ELSE sessions'[sessions'[n].family].state # "free"
    BY <1>1, <1>2, <2>1 DEF SessionsOk
  <2>3. QED
    BY <2>2 DEF RowInv, LinksOk
<1>7. OneLivePerFamily'
  <2>1. \A n \in Session : sessions'[n].state = "live" =>
            sessions[n].state = "live" /\ sessions'[n].family = sessions[n].family
    BY DEF SessionsOk
  <2>2. QED
    BY <2>1 DEF OneLivePerFamily, IInv
<1>8. LinkWorksOnce'
  BY DEF LinkWorksOnce, LinksOk
<1>9. QED
  BY <1>3, <1>4, <1>5, <1>6, <1>7, <1>8, Ending

\* The sessions a revocation has locked are its own.
LEMMA Locked ==
    ASSUME IInv, NEW r \in Request
    PROVE  \A n \in Session \intersect (tx[r].cut \union tx[r].scan) : sessions[n].state # "free"
           /\ (n \in tx[r].cut => n \in tx[r].held)
BY Facts DEF TxOk, RevocationOk

LEMMA RevokedRow ==
    ASSUME NEW old \in SessionRow
    PROVE  LET new == [old EXCEPT !.state = "revoked"] IN
           /\ new \in SessionRow /\ new.state = "revoked" /\ new.user = old.user
           /\ new.family = old.family /\ new.raced = old.raced /\ new.era = old.era
           /\ new.reused = old.reused
BY DEF SessionRow

LEMMA ReusedRow ==
    ASSUME NEW old \in SessionRow
    PROVE  LET new == [old EXCEPT !.reused = TRUE] IN
           /\ new \in SessionRow /\ new.state = old.state /\ new.user = old.user
           /\ new.family = old.family /\ new.raced = old.raced
BY DEF SessionRow

LEMMA VersionedRow ==
    ASSUME NEW old \in UserRow, NEW version \in Nat, NEW new,
           new = [old EXCEPT !.version = version]
    PROVE  /\ new \in UserRow /\ new.status = old.status /\ new.verified = old.verified
           /\ new.era = old.era
BY DEF UserRow

LEMMA GoneRow ==
    ASSUME NEW old \in SessionRow
    PROVE  LET new == [old EXCEPT !.state = "gone"] IN
           /\ new \in SessionRow /\ new.state = "gone" /\ new.user = old.user
           /\ new.family = old.family /\ new.raced = old.raced /\ new.reused = old.reused
BY DEF SessionRow

LEMMA DeletedRow ==
    ASSUME NEW old \in UserRow
    PROVE  LET new == [old EXCEPT !.status = "deleted"] IN
           /\ new \in UserRow /\ new.status = "deleted" /\ new.verified = old.verified
           /\ new.era = old.era
BY DEF UserRow

LEMMA EndedRow ==
    ASSUME NEW old \in UserRow, NEW version \in Nat, NEW era \in Nat, NEW new,
           new = [old EXCEPT !.version = version, !.era = era]
    PROVE  /\ new \in UserRow /\ new.status = old.status /\ new.verified = old.verified
           /\ new.era = era
BY DEF UserRow

\* The commit of a revocation of all sessions of a user.
LEMMA Ended ==
    ASSUME IInv, NEW r \in Request, tx' = [tx EXCEPT ![r] = Idle], Revokes(tx[r]),
           tx[r].op # "refresh", tx[r].scan = {}, tx[r].user \in User,
           NEW row \in UserRow, AllRevoked(r, row),
           users[tx[r].user].status # "free" => row.status # "free",
           Exists(tx[r].user) => row.status \in {"active", "deletion_pending"},
           users[tx[r].user].verified => row.verified,
           LinksOk(r), UNCHANGED <<links, workload>>
    PROVE  IInv'
<1> DEFINE u == tx[r].user
<1>1. tx[r] \in Transaction /\ RevocationOk(tx[r])
  BY Facts DEF TxOk
<1>2. users[u].era \in Nat /\ tx[r].version \in Nat
  BY <1>1 DEF IInv, TypeOK, UserRow, Transaction
<1>3. /\ users'[u] \in UserRow /\ users'[u].status = row.status
      /\ users'[u].verified = row.verified
      /\ \A v \in User \ {u} : users'[v] = users[v]
      /\ users' \in [User -> UserRow]
  <2> DEFINE new == [row EXCEPT !.version = tx[r].version + 1, !.era = users[u].era + 1]
  <2>1. new \in UserRow /\ new.status = row.status /\ new.verified = row.verified
    <3>1. row \in UserRow /\ users[u].era + 1 \in Nat /\ tx[r].version + 1 \in Nat
      BY <1>2
    <3>2. new = [row EXCEPT !.version = tx[r].version + 1, !.era = users[u].era + 1]
      OBVIOUS
    <3> HIDE DEF new
    <3>3. QED
      BY <3>1, <3>2, EndedRow
  <2>2. users' = [users EXCEPT ![u] = new]
    BY DEF AllRevoked
  <2> HIDE DEF new
  <2>3. QED
    BY <2>1, <2>2 DEF IInv, TypeOK
<1>4. \A n \in Session :
         sessions'[n] = IF n \in tx[r].cut THEN [sessions[n] EXCEPT !.state = "revoked"]
                                           ELSE sessions[n]
  BY DEF AllRevoked, RevokedIn
<1>5. \A n \in Session :
         /\ sessions'[n] \in SessionRow /\ sessions'[n].user = sessions[n].user
         /\ sessions'[n].family = sessions[n].family /\ sessions'[n].raced = sessions[n].raced
         /\ sessions'[n].era = sessions[n].era /\ sessions'[n].reused = sessions[n].reused
         /\ sessions'[n].state = IF n \in tx[r].cut THEN "revoked" ELSE sessions[n].state
  <2>1. SUFFICES ASSUME NEW n \in Session
                 PROVE  /\ sessions'[n] \in SessionRow /\ sessions'[n].user = sessions[n].user
                        /\ sessions'[n].family = sessions[n].family
                        /\ sessions'[n].raced = sessions[n].raced
                        /\ sessions'[n].era = sessions[n].era
                        /\ sessions'[n].reused = sessions[n].reused
                        /\ sessions'[n].state = IF n \in tx[r].cut THEN "revoked"
                                                ELSE sessions[n].state
    OBVIOUS
  <2>2. sessions[n] \in SessionRow
    BY DEF IInv, TypeOK
  <2>3. QED
    BY <1>4, <2>2, RevokedRow
<1>6. SessionsOk(r)
  <2>1. sessions' \in [Session -> SessionRow]
    BY <1>5 DEF AllRevoked, RevokedIn
  <2>2. \A n \in Session : sessions[n].state = "free" => n \notin tx[r].cut
    BY Locked
  <2>3. \A n \in Session \intersect tx[r].cut, q \in Request \ {r} : n \notin tx[q].held
    BY Locked DEF IInv, ApartInv
  <2>4. QED
    BY <1>4, <1>5, <2>1, <2>2, <2>3 DEF SessionsOk
<1>7. \A q \in Request \ {r} : tx[q].raced \/ tx[q] = Idle
  BY DEF IInv, ApartInv
<1>8. RevocationEndsSessions'
  <2>1. SUFFICES ASSUME NEW n \in Session, sessions'[n].state = "live",
                        \/ sessions'[n].era < users'[sessions'[n].user].era
                        \/ \E m \in Session : sessions'[m].reused /\ sessions'[m].family = sessions'[n].family
                 PROVE  sessions'[n].raced
    BY DEF RevocationEndsSessions
  <2>2. n \notin tx[r].cut /\ sessions[n].state = "live" /\ sessions[n].user \in User
    BY <1>5, <2>1 DEF IInv, TypeOK, SessionRow
  <2>3. CASE sessions[n].user = u
    <3>1. Concerns(tx[r], n)
      BY <2>3 DEF Concerns
    <3>2. sessions[n].raced
      BY <1>1, <2>2, <3>1 DEF RevocationOk
    <3>3. QED
      BY <1>5, <3>2
  <2>4. CASE sessions[n].user # u
    <3>1. users'[sessions[n].user] = users[sessions[n].user]
      BY <1>3, <2>2, <2>4
    <3>2. QED
      BY <1>5, <2>1, <2>2, <3>1 DEF RevocationEndsSessions, IInv
  <2>5. QED
    BY <2>3, <2>4
<1>9. LinkedIsVerified'
  BY <1>3 DEF LinkedIsVerified, Exists, IInv, TypeOK, LinkTable
<1>10. links' \in LinkTable
  BY DEF IInv, TypeOK
<1>11. \A v \in User : users[v].status # "free" /\ users[v].verified =>
                          users'[v].status # "free" /\ users'[v].verified
  BY <1>3
<1>12. QED
  BY <1>3, <1>6, <1>7, <1>8, <1>9, <1>10, <1>11, Closing

LEMMA StepCommitLogoutAll == ASSUME IInv, NEW r \in Request, CommitLogoutAll(r) PROVE IInv'
<1>1. /\ tx[r].op = "logoutAll" /\ tx[r].step = "lock" /\ tx[r].scan = {}
      /\ AllRevoked(r, users[tx[r].user]) /\ tx' = [tx EXCEPT ![r] = Idle]
      /\ UNCHANGED <<tokens, links, used, workload>>
  BY DEF CommitLogoutAll, At, End
<1>2. tx[r].user \in User
  BY <1>1, Facts DEF TxOk, PathOk, Loading
<1>3. users[tx[r].user] \in UserRow
  BY <1>2 DEF IInv, TypeOK
<1>4. Revokes(tx[r])
  BY <1>1 DEF Revokes, Revoker
<1>5. LinksOk(r)
  BY <1>1, LinksKept
<1>6. Exists(tx[r].user) => users[tx[r].user].status \in {"active", "deletion_pending"}
  BY DEF Exists
<1>7. QED
  BY <1>1, <1>2, <1>3, <1>4, <1>5, <1>6, Ended

LEMMA StepCommitReset == ASSUME IInv, NEW r \in Request, CommitReset(r) PROVE IInv'
<1> DEFINE row == [users[tx[r].user] EXCEPT !.password = TRUE]
<1>1. /\ tx[r].op = "reset" /\ tx[r].step = "lock" /\ tx[r].scan = {}
      /\ AllRevoked(r, row) /\ tx' = [tx EXCEPT ![r] = Idle]
      /\ Consumed(tx[r].key) /\ UNCHANGED <<links, workload>>
  BY DEF CommitReset, At, End
<1>2. tx[r].user \in User
  BY <1>1, Facts DEF TxOk, PathOk, Loading
<1>3. /\ row \in UserRow /\ row.status = users[tx[r].user].status
      /\ row.verified = users[tx[r].user].verified
  BY <1>2 DEF IInv, TypeOK, UserRow
<1>4. Revokes(tx[r]) /\ tx[r].op # "refresh"
  BY <1>1 DEF Revokes, Revoker
<1>5. LinksOk(r)
  <2>1. tx[r].op \in {"verify", "reset"} /\ tx[r].step # "token"
    BY <1>1
  <2>2. QED
    BY <1>1, <2>1, LinkConsumed
<1> HIDE DEF row
<1>6. Exists(tx[r].user) => row.status \in {"active", "deletion_pending"}
  BY <1>3 DEF Exists
<1>7. QED
  BY <1>1, <1>2, <1>3, <1>4, <1>5, <1>6, Ended

LEMMA StepAppleFails == ASSUME IInv, NEW r \in Request, AppleFails(r) PROVE IInv'
<1> DEFINE row == [users[tx[r].user] EXCEPT !.status = "deletion_pending"]
<1>1. /\ tx[r].op = "delete" /\ tx[r].step = "apple"
      /\ AllRevoked(r, row) /\ tx' = [tx EXCEPT ![r] = Idle]
      /\ UNCHANGED <<tokens, links, used, workload>>
  BY DEF AppleFails, At, End
<1>2. tx[r].user \in User /\ tx[r].scan = {}
  BY <1>1, Facts DEF TxOk, PathOk, Loading
<1>3. /\ row \in UserRow /\ row.status = "deletion_pending"
      /\ row.verified = users[tx[r].user].verified
  BY <1>2 DEF IInv, TypeOK, UserRow
<1>4. Revokes(tx[r]) /\ tx[r].op # "refresh"
  BY <1>1 DEF Revokes
<1>5. LinksOk(r)
  BY <1>1, LinksKept
<1> HIDE DEF row
<1>6. QED
  BY <1>1, <1>2, <1>3, <1>4, <1>5, Ended

\* Reuse ends the family of the token, which concerns all that is cut.
LEMMA StepCommitReuse == ASSUME IInv, NEW r \in Request, CommitReuse(r) PROVE IInv'
<1> DEFINE s == tx[r].key
           C == tx[r].cut \union {s}
<1>1. /\ tx[r].op = "refresh" /\ tx[r].step = "lock" /\ tx[r].scan = {}
      /\ sessions' = [n \in Session |->
            IF n \in C THEN [RevokedIn(tx[r].cut)[n] EXCEPT !.reused = TRUE] ELSE sessions[n]]
      /\ users' = IF tx[r].user \in tx[r].held
                  THEN [users EXCEPT ![tx[r].user].version = tx[r].version + 1] ELSE users
      /\ tx' = [tx EXCEPT ![r] = Idle] /\ UNCHANGED <<tokens, links, used, workload>>
  BY DEF CommitReuse, At, End
<1>2. tx[r] \in Transaction /\ PathOk(tx[r]) /\ SessionOk(tx[r]) /\ RevocationOk(tx[r])
  BY Facts DEF TxOk
<1>3. s \in Session /\ s \in tx[r].held /\ sessions[s].state = "revoked" /\ tx[r].user \in User
  BY <1>1, <1>2 DEF PathOk, SessionOk, Loading
<1>4. \A n \in C : n \in Session /\ n \in tx[r].held /\ sessions[n].state # "free"
                   /\ sessions[n].family = sessions[s].family
  BY <1>1, <1>2, <1>3 DEF RevocationOk, Concerns, Transaction
<1>5. \A n \in C : /\ sessions'[n] \in SessionRow /\ sessions'[n].state = "revoked"
                   /\ sessions'[n].user = sessions[n].user
                   /\ sessions'[n].family = sessions[n].family
                   /\ sessions'[n].raced = sessions[n].raced
  <2>1. SUFFICES ASSUME NEW n \in C
                 PROVE  /\ sessions'[n] \in SessionRow /\ sessions'[n].state = "revoked"
                        /\ sessions'[n].user = sessions[n].user
                        /\ sessions'[n].family = sessions[n].family
                        /\ sessions'[n].raced = sessions[n].raced
    OBVIOUS
  <2>2. n \in Session /\ sessions[n] \in SessionRow
    BY <1>4 DEF IInv, TypeOK
  <2> DEFINE old == RevokedIn(tx[r].cut)[n]
  <2>3. /\ old \in SessionRow /\ old.user = sessions[n].user /\ old.family = sessions[n].family
        /\ old.raced = sessions[n].raced /\ old.state = "revoked"
    <3>1. CASE n \in tx[r].cut
      <4>1. old = [sessions[n] EXCEPT !.state = "revoked"]
        BY <2>2, <3>1 DEF RevokedIn
      <4>2. QED
        BY <2>2, <4>1, RevokedRow, Zenon
    <3>2. CASE n \notin tx[r].cut
      BY <1>3, <2>2, <3>2 DEF RevokedIn
    <3>3. QED
      BY <3>1, <3>2
  <2>4. sessions'[n] = [old EXCEPT !.reused = TRUE]
    BY <1>1, <2>2
  <2> HIDE DEF old
  <2>5. QED
    BY <2>3, <2>4, ReusedRow, Zenon
<1>6. \A n \in Session \ C : sessions'[n] = sessions[n]
  BY <1>1
<1> HIDE DEF C
<1>7. SessionsOk(r)
  <2>1. sessions' \in [Session -> SessionRow]
    <3>1. \A n \in Session : sessions'[n] \in SessionRow
      BY <1>5, <1>6 DEF IInv, TypeOK
    <3>2. QED
      BY <1>1, <3>1
  <2>2. \A n \in C, q \in Request \ {r} : n \notin tx[q].held
    BY <1>4 DEF IInv, ApartInv
  <2>3. QED
    BY <1>4, <1>5, <1>6, <2>1, <2>2 DEF SessionsOk
<1>8. /\ users' \in [User -> UserRow]
      /\ \A v \in User : users'[v].era = users[v].era /\ users'[v].status = users[v].status
                         /\ users'[v].verified = users[v].verified
  <2>1. \A v \in User : users[v] \in UserRow /\ tx[r].version + 1 \in Nat
    BY <1>2 DEF Transaction, IInv, TypeOK
  <2>2. \A v \in User : users'[v] = users[v]
                        \/ users'[v] = [users[v] EXCEPT !.version = tx[r].version + 1]
    BY <1>1, <1>3 DEF IInv, TypeOK
  <2>3. \A v \in User : users'[v] \in UserRow /\ users'[v].era = users[v].era
                        /\ users'[v].status = users[v].status
                        /\ users'[v].verified = users[v].verified
    <3>1. SUFFICES ASSUME NEW v \in User
                   PROVE  /\ users'[v] \in UserRow /\ users'[v].era = users[v].era
                          /\ users'[v].status = users[v].status
                          /\ users'[v].verified = users[v].verified
      OBVIOUS
    <3>2. CASE users'[v] = users[v]
      BY <2>1, <3>2
    <3>3. CASE users'[v] = [users[v] EXCEPT !.version = tx[r].version + 1]
      <4>1. users[v] \in UserRow /\ tx[r].version + 1 \in Nat
        BY <2>1
      <4>2. QED
        BY <4>1, <3>3, VersionedRow
    <3>4. QED
      BY <2>2, <3>2, <3>3
  <2>4. DOMAIN users' = User /\ users' = [v \in User |-> users'[v]]
    BY <1>1 DEF IInv, TypeOK
  <2>5. QED
    BY <2>3, <2>4
<1>9. LinksOk(r)
  BY <1>1, LinksKept
<1>10. RevocationEndsSessions'
  <2>1. SUFFICES ASSUME NEW n \in Session, sessions'[n].state = "live",
                        \/ sessions'[n].era < users'[sessions'[n].user].era
                        \/ \E m \in Session : sessions'[m].reused /\ sessions'[m].family = sessions'[n].family
                 PROVE  sessions'[n].raced
    BY DEF RevocationEndsSessions
  <2>2. n \notin C /\ sessions'[n] = sessions[n] /\ sessions[n].state = "live"
    BY <1>5, <1>6, <2>1
  <2>3. sessions[n].user \in User
    BY <2>2 DEF IInv, TypeOK, SessionRow
  <2>4. CASE sessions[n].family = sessions[s].family
    <3>1. Concerns(tx[r], n) /\ Revokes(tx[r]) /\ n \notin tx[r].scan \union tx[r].cut
      BY <1>1, <2>2, <2>4 DEF Concerns, Revokes, Revoker, C
    <3>2. QED
      BY <1>2, <2>2, <3>1 DEF RevocationOk
  <2>5. CASE sessions[n].family # sessions[s].family
    <3>1. \A m \in Session : sessions'[m].reused /\ sessions'[m].family = sessions[n].family =>
              sessions[m].reused /\ sessions[m].family = sessions[n].family
      BY <1>4, <1>5, <1>6, <2>5
    <3>2. users'[sessions[n].user].era = users[sessions[n].user].era
      BY <1>8, <2>3
    <3>3. QED
      BY <2>1, <2>2, <3>1, <3>2 DEF RevocationEndsSessions, IInv
  <2>6. QED
    BY <2>4, <2>5
<1>11. LinkedIsVerified'
  BY <1>1, <1>8 DEF LinkedIsVerified, Exists, IInv, TypeOK, LinkTable
<1>12. links' \in LinkTable
  BY <1>1 DEF IInv, TypeOK
<1>13. \A v \in User : users'[v].era <= users[v].era
  BY <1>8 DEF IInv, TypeOK, UserRow
<1>14. \A v \in User : users[v].status # "free" /\ users[v].verified =>
                          users'[v].status # "free" /\ users'[v].verified
  BY <1>8
<1>15. QED
  BY <1>1, <1>7, <1>8, <1>9, <1>10, <1>11, <1>12, <1>13, <1>14, Closing

\* A deletion waits for who holds a row that goes with the account.
LEMMA StepCommitDelete == ASSUME IInv, NEW r \in Request, CommitDelete(r) PROVE IInv'
<1> DEFINE u == tx[r].user
<1>1. /\ tx[r].op = "delete" /\ tx[r].step = "commit"
      /\ \A q \in Request \ {r} : ~Pins(q, u)
      /\ users' = [users EXCEPT ![u].status = "deleted"]
      /\ sessions' = [s \in Session |-> IF sessions[s].user = u
                        THEN [sessions[s] EXCEPT !.state = "gone"] ELSE sessions[s]]
      /\ tokens' = [t \in Token |-> IF tokens[t].user = u
                        THEN [tokens[t] EXCEPT !.state = "gone"] ELSE tokens[t]]
      /\ links' = [i \in Subject |-> IF links[i] = u THEN None ELSE links[i]]
      /\ tx' = [tx EXCEPT ![r] = Idle] /\ UNCHANGED <<used, workload>>
  BY DEF CommitDelete, At, End
<1>2. u \in User /\ u # None
  BY <1>1, Facts, AccountsAssumption DEF TxOk, PathOk, Loading
<1>3. \A s \in Session : sessions[s].user = u =>
          /\ sessions'[s] \in SessionRow /\ sessions'[s].state = "gone"
          /\ sessions'[s].user = sessions[s].user /\ sessions'[s].family = sessions[s].family
          /\ sessions'[s].raced = sessions[s].raced /\ sessions'[s].reused = sessions[s].reused
  <2>1. SUFFICES ASSUME NEW s \in Session, sessions[s].user = u
                 PROVE  /\ sessions'[s] \in SessionRow /\ sessions'[s].state = "gone"
                        /\ sessions'[s].user = sessions[s].user
                        /\ sessions'[s].family = sessions[s].family
                        /\ sessions'[s].raced = sessions[s].raced
                        /\ sessions'[s].reused = sessions[s].reused
    OBVIOUS
  <2>2. sessions[s] \in SessionRow
    BY DEF IInv, TypeOK
  <2>3. sessions'[s] = [sessions[s] EXCEPT !.state = "gone"]
    BY <1>1, <2>1
  <2>4. QED
    BY <2>2, <2>3, GoneRow, Zenon
<1>4. \A s \in Session : sessions[s].user # u => sessions'[s] = sessions[s]
  BY <1>1
<1>5. \A s \in Session : sessions[s].state = "free" => sessions[s].user # u
  BY <1>2 DEF IInv, RowInv, NoSession
<1>6. SessionsOk(r)
  <2>1. sessions' \in [Session -> SessionRow]
    <3>1. \A s \in Session : sessions'[s] \in SessionRow
      BY <1>3, <1>4 DEF IInv, TypeOK
    <3>2. QED
      BY <1>1, <3>1
  <2>2. \A s \in Session, q \in Request \ {r} : sessions[s].user = u => s \notin tx[q].held
    BY <1>1 DEF Pins
  <2>3. QED
    BY <1>3, <1>4, <1>5, <2>1, <2>2 DEF SessionsOk
<1>7. LinksOk(r)
  <2>1. \A t \in Token : tokens[t] \in TokenRow
    BY DEF IInv, TypeOK
  <2>2. \A t \in Token : tokens[t].user = u => tokens'[t] = [tokens[t] EXCEPT !.state = "gone"]
    BY <1>1
  <2>3. \A t \in Token : tokens[t].user # u => tokens'[t] = tokens[t]
    BY <1>1
  <2>4. \A t \in Token : tokens[t].user = u =>
            tokens'[t] \in TokenRow /\ tokens'[t].state = "gone" /\ tokens'[t].user = u
    BY <2>1, <2>2 DEF TokenRow
  <2>5. tokens' \in [Token -> TokenRow]
    BY <1>1, <2>1, <2>3, <2>4
  <2>6. \A t \in Token, q \in Request \ {r} : tokens[t].user = u => t \notin tx[q].held
    BY <1>1 DEF Pins
  <2>7. used' \in [Token -> Nat] /\ \A t \in Token : used'[t] = used[t] /\ used[t] <= 1
    BY <1>1 DEF IInv, TypeOK, LinkWorksOnce
  <2>8. \A t \in Token : /\ tokens[t].state = "free" <=> tokens[t].user = None
                         /\ tokens[t].state \in {"free", "active"} => used[t] = 0
    BY DEF IInv, RowInv
  <2>9. QED
    BY <1>2, <2>3, <2>4, <2>5, <2>6, <2>7, <2>8 DEF LinksOk
<1>8. /\ users' \in [User -> UserRow]
      /\ \A v \in User : users'[v].era = users[v].era /\ users'[v].verified = users[v].verified
      /\ \A v \in User \ {u} : users'[v] = users[v]
      /\ users'[u].status = "deleted"
  <2>1. \A v \in User : users[v] \in UserRow
    BY DEF IInv, TypeOK
  <2>2. users'[u] = [users[u] EXCEPT !.status = "deleted"] /\ \A v \in User \ {u} : users'[v] = users[v]
    BY <1>1, <1>2 DEF IInv, TypeOK
  <2>3. /\ users'[u] \in UserRow /\ users'[u].era = users[u].era
        /\ users'[u].verified = users[u].verified /\ users'[u].status = "deleted"
    BY <1>2, <2>1, <2>2, DeletedRow, Zenon
  <2>4. users' = [v \in User |-> users'[v]]
    BY <1>1 DEF IInv, TypeOK
  <2>5. \A v \in User : users'[v] \in UserRow
    BY <2>1, <2>2, <2>3
  <2>6. QED
    BY <2>2, <2>3, <2>4, <2>5
<1> HIDE DEF u
<1>9. RevocationEndsSessions'
  <2>1. SUFFICES ASSUME NEW n \in Session, sessions'[n].state = "live",
                        \/ sessions'[n].era < users'[sessions'[n].user].era
                        \/ \E m \in Session : sessions'[m].reused /\ sessions'[m].family = sessions'[n].family
                 PROVE  sessions'[n].raced
    BY DEF RevocationEndsSessions
  <2>2. sessions'[n] = sessions[n] /\ sessions[n].state = "live"
    BY <1>3, <1>4, <2>1
  <2>3. sessions[n].user \in User
    BY <2>2 DEF IInv, TypeOK, SessionRow
  <2>4. users'[sessions[n].user].era = users[sessions[n].user].era
    BY <1>8, <2>3
  <2>5. \A m \in Session : sessions'[m].reused /\ sessions'[m].family = sessions[n].family =>
            sessions[m].reused /\ sessions[m].family = sessions[n].family
    BY <1>3, <1>4
  <2>6. QED
    BY <2>1, <2>2, <2>4, <2>5 DEF RevocationEndsSessions, IInv
<1>10. links' \in LinkTable
  <2>1. \A i \in Subject : links[i] \in User \union {None}
    BY DEF IInv, TypeOK, LinkTable
  <2>2. \A i \in Subject : links'[i] \in User \union {None}
    BY <1>1, <2>1
  <2>3. QED
    BY <1>1, <2>2 DEF LinkTable
<1>11. LinkedIsVerified'
  <2>1. \A i \in Subject : links'[i] # None =>
            links'[i] = links[i] /\ links[i] \in User \ {u}
    BY <1>1, <1>10 DEF IInv, TypeOK, LinkTable
  <2>2. \A i \in Subject : links'[i] # None => users'[links'[i]] = users[links[i]]
    BY <1>8, <2>1
  <2>3. \A i \in Subject : links[i] # None =>
            users[links[i]].status \in {"active", "deletion_pending"} /\ users[links[i]].verified
    BY DEF LinkedIsVerified, Exists, IInv
  <2>4. QED
    BY <2>1, <2>2, <2>3 DEF LinkedIsVerified, Exists
<1>12. \A v \in User : users'[v].era <= users[v].era
  BY <1>8 DEF IInv, TypeOK, UserRow
<1>13. \A v \in User : users[v].status # "free" /\ users[v].verified =>
                          users'[v].status # "free" /\ users'[v].verified
  BY <1>8
<1>14. QED
  BY <1>1, <1>6, <1>7, <1>8, <1>9, <1>10, <1>11, <1>12, <1>13, Closing

LEMMA StepExpireToken == ASSUME IInv, NEW x \in Token, ExpireToken(x) PROVE IInv'
<1>1. /\ tokens[x].state = "active" /\ \A q \in Request : x \notin tx[q].held
      /\ tokens' = [tokens EXCEPT ![x].state = "consumed"]
      /\ UNCHANGED <<users, sessions, links, used, tx, workload>>
  BY DEF ExpireToken
<1>2. /\ tokens' \in [Token -> TokenRow]
      /\ \A t \in Token : /\ tokens'[t].user = tokens[t].user
                          /\ tokens'[t].state = IF t = x THEN "consumed" ELSE tokens[t].state
  BY <1>1 DEF IInv, TypeOK, TokenRow
<1>3. TypeOK'
  BY <1>1, <1>2 DEF IInv, TypeOK
<1>4. Follow
  BY <1>1, <1>2 DEF Follow
<1>5. \A q \in Request : Undisturbed(q)
  <2>1. SUFFICES ASSUME NEW q \in Request PROVE Undisturbed(q)
    OBVIOUS
  <2>2. tx[q].made # None => sessions[tx[q].made].state = "free"
    BY Facts DEF TxOk, SessionOk
  <2>3. \A u \in User : users'[u].era <= users[u].era
    BY <1>1 DEF IInv, TypeOK, UserRow
  <2>4. QED
    BY <1>1, <1>2, <2>2, <2>3 DEF Undisturbed
<1>6. TxInv'
  <2>1. \A q \in Request : tx'[q] = tx[q]
    BY <1>1
  <2>2. \A q \in Request : TxOk(tx[q])'
    BY <1>3, <1>4, <1>5, <2>1, Frame
  <2>3. QED
    BY <2>2 DEF TxInv
<1>7. ApartInv'
  BY <1>1 DEF IInv, ApartInv, Revokes
<1>8. RowInv'
  BY <1>1, <1>2 DEF IInv, RowInv
<1>9. OneLivePerFamily' /\ RevocationEndsSessions' /\ LinkWorksOnce' /\ LinkedIsVerified'
  BY <1>1 DEF IInv, OneLivePerFamily, RevocationEndsSessions, LinkWorksOnce, LinkedIsVerified,
     Exists
<1>10. QED
  BY <1>3, <1>6, <1>7, <1>8, <1>9 DEF IInv

LEMMA InitIInv == Init => IInv
<1>1. SUFFICES ASSUME Init PROVE IInv
  OBVIOUS
<1>2. /\ sessions = [s \in Session |-> NoSession]
      /\ tokens = [t \in Token |-> [state |-> "free", user |-> None, purpose |-> "verify_email"]]
      /\ links = [i \in Subject |-> None] /\ used = [t \in Token |-> 0]
      /\ tx = [r \in Request |-> Idle] /\ workload \in Workload
  BY <1>1 DEF Init
<1>3. users \in [User -> UserRow]
  <2>1. NoUser \in UserRow
    BY DEF NoUser, UserRow
  <2>2. \A e \in Email : Account(e, TRUE, TRUE) \in UserRow
    BY DEF Account, NoUser, UserRow
  <2>3. QED
    BY <1>1, <2>1, <2>2 DEF Init
<1>4. NoSession \in SessionRow /\ NoSession.state = "free"
  BY DEF NoSession, SessionRow
<1>5. TypeOK
  BY <1>2, <1>3, <1>4, IdleType DEF TypeOK, TokenRow, Purpose, LinkTable
<1>6. TxInv
  <2>1. \A r \in Request : tx[r] = Idle
    BY <1>2
  <2>2. QED
    BY <1>5, <2>1, IdleOk DEF TxInv
<1>7. ApartInv
  BY <1>2, IdleType DEF ApartInv
<1>8. RowInv
  BY <1>2, <1>4 DEF RowInv
<1>9. OneLivePerFamily /\ RevocationEndsSessions /\ LinkWorksOnce /\ LinkedIsVerified
  BY <1>2, <1>4 DEF OneLivePerFamily, RevocationEndsSessions, LinkWorksOnce, LinkedIsVerified
<1>10. QED
  BY <1>5, <1>6, <1>7, <1>8, <1>9 DEF IInv

LEMMA StepServe == ASSUME IInv, NEW r \in Request, Serve(r) PROVE IInv'
<1>1. CASE LockSession(r) \/ LockToken(r) \/ FlushUser(r) \/ Scan(r) \/ LockScanned(r)
  BY <1>1, StepLockSession, StepLockToken, StepFlushUser, StepScan, StepLockScanned
<1>2. CASE DecideRotation(r) \/ InsertReplacement(r) \/ CommitRotation(r) \/ CommitReuse(r)
  BY <1>2, StepDecideRotation, StepInsertReplacement, StepCommitRotation, StepCommitReuse
<1>3. CASE DecideLogout(r) \/ CommitLogoutAll(r)
  BY <1>3, StepDecideLogout, StepCommitLogoutAll
<1>4. CASE CheckAddress(r) \/ CommitRegister(r) \/ CheckLogin(r) \/ FindLink(r) \/ FindOwner(r)
  BY <1>4, StepCheckAddress, StepCommitRegister, StepCheckLogin, StepFindLink, StepFindOwner
<1>5. CASE CommitLogin(r) \/ CommitJoin(r) \/ CommitCreate(r)
  BY <1>5, StepCommitLogin, StepCommitJoin, StepCommitCreate
<1>6. CASE CheckRecipient(r) \/ ScanLinks(r) \/ CommitLink(r)
  BY <1>6, StepCheckRecipient, StepScanLinks, StepCommitLink
<1>7. CASE LinkOwner(r) \/ CommitVerify(r) \/ CommitReset(r)
  BY <1>7, StepLinkOwner, StepCommitVerify, StepCommitReset
<1>8. CASE StartDeletion(r) \/ SessionsRevoked(r) \/ AppleRevoked(r) \/ AppleFails(r)
           \/ CommitDelete(r)
  BY <1>8, StepStartDeletion, StepSessionsRevoked, StepAppleRevoked, StepAppleFails,
     StepCommitDelete
<1>9. QED
  BY <1>1, <1>2, <1>3, <1>4, <1>5, <1>6, <1>7, <1>8 DEF Serve

LEMMA StepIInv == IInv /\ [Next]_vars => IInv'
<1>1. SUFFICES ASSUME IInv, [Next]_vars PROVE IInv'
  OBVIOUS
<1>2. CASE \E r \in Request : Arrive(r)
  BY <1>1, <1>2, StepArrive
<1>3. CASE \E r \in Request : Serve(r)
  BY <1>1, <1>3, StepServe
<1>4. CASE \E r \in Request : DeadlockAbort(r)
  BY <1>1, <1>4, Failing DEF DeadlockAbort
<1>5. CASE \E t \in Token : ExpireToken(t)
  BY <1>1, <1>5, StepExpireToken
<1>6. CASE UNCHANGED vars
  <2>1. UNCHANGED <<users, sessions, tokens, links, used, tx, workload>>
    BY <1>6 DEF vars
  <2>2. TypeOK' /\ ApartInv' /\ RowInv'
    BY <1>1, <2>1 DEF IInv, TypeOK, ApartInv, RowInv, Revokes
  <2>3. TxInv'
    BY <1>1, <2>1 DEF IInv, TxInv, TxOk, PathOk, SessionOk, LinkOk, LoginOk, RevocationOk,
       Concerns, Revokes
  <2>4. OneLivePerFamily' /\ RevocationEndsSessions' /\ LinkWorksOnce' /\ LinkedIsVerified'
    BY <1>1, <2>1 DEF IInv, OneLivePerFamily, RevocationEndsSessions, LinkWorksOnce,
       LinkedIsVerified, Exists
  <2>5. QED
    BY <2>2, <2>3, <2>4 DEF IInv
<1>7. QED
  BY <1>1, <1>2, <1>3, <1>4, <1>5, <1>6 DEF Next

\* Whatever the requests and however their locks, reads and commits
\* interleave, what the transactions of SessionService, AuthService and
\* OAuthLoginService have locked and read stays true until they commit.
THEOREM AccountsInvariance == Spec => []IInv
<1>1. QED
  BY InitIInv, StepIInv, PTL DEF Spec

\* The rows of users, sessions, links and transactions keep their types.
THEOREM AccountTypes == Spec => []TypeOK
<1>1. IInv => TypeOK
  BY DEF IInv
<1>2. QED
  BY <1>1, AccountsInvariance, PTL

\* A family of refresh tokens never has two that can be rotated, for any
\* number of rotations, reuses, logouts, resets and deletions at once.
THEOREM OneLiveEach == Spec => []OneLivePerFamily
<1>1. IInv => OneLivePerFamily
  BY DEF IInv
<1>2. QED
  BY <1>1, AccountsInvariance, PTL

\* revoke_user_sessions and revoke_family end every session but those that
\* were being issued while they ran.
THEOREM RevocationsEnd == Spec => []RevocationEndsSessions
<1>1. IInv => RevocationEndsSessions
  BY DEF IInv
<1>2. QED
  BY <1>1, AccountsInvariance, PTL

\* No number of requests with the same link makes it succeed twice.
THEOREM LinksWorkOnce == Spec => []LinkWorksOnce
<1>1. IInv => LinkWorksOnce
  BY DEF IInv
<1>2. QED
  BY <1>1, AccountsInvariance, PTL

\* OAuthLoginService ties an identity to an existing, verified account only,
\* whatever commits between its reads and its commit.
THEOREM IdentitiesAreVerified == Spec => []LinkedIsVerified
<1>1. IInv => LinkedIsVerified
  BY DEF IInv
<1>2. QED
  BY <1>1, AccountsInvariance, PTL
=============================================================================
