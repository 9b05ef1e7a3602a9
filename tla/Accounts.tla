------------------------------ MODULE Accounts ------------------------------
(***************************************************************************)
(* Accounts and their sessions: registration, the links sent by e-mail,    *)
(* password and OAuth logins, refresh-token rotation with reuse detection, *)
(* logout, password reset and account deletion (AuthService,               *)
(* OAuthLoginService, SessionService and their routes).                    *)
(*                                                                         *)
(* A request is one READ COMMITTED transaction.  Its reads and the row     *)
(* locks it takes are steps of their own; its writes show when it commits. *)
(* A lock that is the last thing a transaction waits for is taken by the   *)
(* step that commits.  The ORM writes whole values: auth_version is        *)
(* written as the value read plus one.                                     *)
(*                                                                         *)
(* Left out: rate limits, wrong passwords and unknown tokens, which are    *)
(* refused without a write; the text of e-mails and pages; avatars; the    *)
(* status "suspended", which nothing sets.                                 *)
(***************************************************************************)
EXTENDS Integers, FiniteSets, TLC

CONSTANTS
    Request,    \* requests being served at the same time
    User,       \* primary keys of users, numbers that are given in order
    Email,      \* normalized e-mail addresses
    Session,    \* primary keys of refresh_sessions
    Token,      \* primary keys of one_time_tokens
    Subject,    \* identities at the OAuth providers
    Apple,      \* the subjects that are Apple identities
    Address,    \* Address[i]: the address the provider vouches for
    None,
    Workload,   \* bound: the sets of operations that arrive together
    MaxVersion  \* bound: revocations of all sessions of a user

Operation == {"register", "login", "oauth", "refresh", "logout", "logoutAll",
              "verify", "resend", "forgot", "reset", "delete"}
Purpose == {"verify_email", "reset_password"}

\* What ends several sessions.
Revoker == {"refresh", "logoutAll", "reset", "delete"}

ASSUME AccountsAssumption ==
    /\ User \union Session \union Token \subseteq Nat
    /\ User \intersect Session = {} /\ User \intersect Token = {}
    /\ Session \intersect Token = {} /\ None \notin User \union Session
    /\ Apple \subseteq Subject
    /\ Address \in [Subject -> Email]
    /\ Workload \subseteq SUBSET Operation
    /\ MaxVersion \in Nat

VARIABLES
    users,      \* users[u]: the row of u
    sessions,   \* sessions[s]: the row of s, with what its access token says
    tokens,     \* tokens[t]: the row of t
    links,      \* links[i]: the user whose oauth_accounts row names i
    used,       \* used[t]: how many requests succeeded with link t
    tx,         \* tx[r]: the transaction r is in
    workload    \* the operations that arrive in this behaviour

db   == <<users, sessions, tokens, links, used>>
vars == <<users, sessions, tokens, links, used, tx, workload>>

Row == User \union Session \union Token

\* Columns of a user.  era counts the committed revocations of all sessions.
UserRow == [status: {"free", "active", "deletion_pending", "deleted"},
            email: Email \union {None}, verified: BOOLEAN, password: BOOLEAN,
            version: Nat, era: Nat]

\* version is the claim "av" of the access token issued with the session;
\* era and raced say under which era the login began and whether some
\* revocation was under way while the session was being issued.
SessionRow == [state: {"free", "live", "revoked", "gone"},
               user: User \union {None}, family: Session \union {None},
               reused: BOOLEAN, version: Nat, era: Nat,
               raced: BOOLEAN]

TokenRow == [state: {"free", "active", "consumed", "gone"},
             user: User \union {None}, purpose: Purpose]

\* A provider identity belongs to one user at most.
LinkTable == [Subject -> User \union {None}]

\* step names the statement the transaction executes next, held its row
\* locks, scan the rows a running UPDATE has still to lock, and cut the
\* sessions it has revoked.
Transaction ==
    [op: Operation \union {"idle"},
     step: {"idle", "session", "user", "link", "email", "token", "insert",
            "flush", "scan", "lock", "apple", "join", "create", "commit"},
     key: Session \union Token \union Subject \union Email \union {None},
     user: User \union {None}, made: Session \union {None},
     version: Nat, era: Nat, raced: BOOLEAN,
     held: SUBSET Row, scan: SUBSET (Session \union Token), cut: SUBSET Session]

Idle == [op |-> "idle", step |-> "idle", key |-> None, user |-> None,
         made |-> None, version |-> 0, era |-> 0, raced |-> FALSE,
         held |-> {}, scan |-> {}, cut |-> {}]

TypeOK ==
    /\ users \in [User -> UserRow]
    /\ sessions \in [Session -> SessionRow]
    /\ tokens \in [Token -> TokenRow]
    /\ \A s \in Session : sessions[s].state # "free" =>
                            sessions[s].user # None /\ sessions[s].family # None
    /\ links \in LinkTable
    /\ used \in [Token -> Nat]
    /\ tx \in [Request -> Transaction]
    /\ workload \in Workload

NoUser == [status |-> "free", email |-> None, verified |-> FALSE,
           password |-> FALSE, version |-> 0, era |-> 0]
NoSession == [state |-> "free", user |-> None, family |-> None,
              reused |-> FALSE, version |-> 0, era |-> 0,
              raced |-> FALSE]

Account(e, verified, password) ==
    [NoUser EXCEPT !.status = "active", !.email = e, !.verified = verified,
                   !.password = password, !.version = 1]

\* Keys are random; which free one a row gets makes no difference.
One(S) == CHOOSE k \in S : TRUE

\* Either nobody has registered, or one verified account exists.
Init ==
    /\ \/ users = [u \in User |-> NoUser]
       \/ \E e \in Email :
             users = [u \in User |-> IF u = One(User) THEN Account(e, TRUE, TRUE)
                                     ELSE NoUser]
    /\ sessions = [s \in Session |-> NoSession]
    /\ tokens = [t \in Token |-> [state |-> "free", user |-> None,
                                  purpose |-> "verify_email"]]
    /\ links = [i \in Subject |-> None]
    /\ used = [t \in Token |-> 0]
    /\ tx = [r \in Request |-> Idle]
    /\ workload \in Workload

-----------------------------------------------------------------------------
(* The database.                                                           *)

Exists(u) == users[u].status \in {"active", "deletion_pending"}
Active(u) == users[u].status = "active"
OfEmail(e) == {u \in User : Exists(u) /\ users[u].email = e}

Free(r, row) == \A q \in Request \ {r} : row \notin tx[q].held

\* An uncommitted row that references u keeps the row of u from being
\* deleted, and a child row of u that is locked delays the cascade.
Pins(q, u) == \/ tx[q].made # None /\ tx[q].user = u
              \/ \E s \in Session : sessions[s].user = u /\ s \in tx[q].held
              \/ \E t \in Token : tokens[t].user = u /\ t \in tx[q].held

At(r, op, step) == tx[r].op \in op /\ tx[r].step = step

\* The transaction goes on without any change others can see.
Go(r, t) == tx' = [tx EXCEPT ![r] = t] /\ UNCHANGED <<db, workload>>

\* It ends: the locks go and the answer is sent.
End(r)  == tx' = [tx EXCEPT ![r] = Idle] /\ UNCHANGED workload
Fail(r) == End(r) /\ UNCHANGED db

\* A revocation of several sessions takes place between the moment its
\* UPDATE looks at the table and its commit.
Revokes(t) == \/ t.op \in Revoker /\ t.step = "lock"
              \/ t.op = "delete" /\ t.step \in {"apple", "commit"}

FreeUsers    == {u \in User : users[u].status = "free"}
FreeTokens   == {t \in Token : tokens[t].state = "free"}
FreeSessions == {s \in Session : sessions[s].state = "free"
                                 /\ \A q \in Request : tx[q].made # s}

\* Bound: a request that may insert a row finds a key for it, then and later.
Enough(free, ops) ==
    Cardinality(free) > Cardinality({q \in Request : tx[q].op \in ops})
SessionLeft == Enough(FreeSessions, {"login", "oauth", "refresh"})
TokenLeft   == Enough(FreeTokens, {"register", "resend", "forgot"})
UserLeft    == Enough(FreeUsers, {"register", "oauth"})
VersionLeft(u) == users[u].era < MaxVersion

Begin(r, op, step, key) ==
    /\ tx[r] = Idle
    /\ op \in workload
    /\ Go(r, [Idle EXCEPT !.op = op, !.step = step, !.key = key,
                          !.raced = \E q \in Request : Revokes(tx[q])])

\* r cannot go on before q ends.
Waits(r, q) ==
    LET t == tx[r] IN
    q # r /\
    CASE t.step \in {"session", "token"} -> t.key \in tx[q].held
      [] t.step = "flush" -> t.user \in tx[q].held
      [] t.step \in {"commit", "join"} /\ t.op # "delete" -> t.user \in tx[q].held
      [] t.step = "commit" /\ t.op = "delete" -> Pins(q, t.user)
      [] t.step = "lock" ->
            /\ t.scan \intersect tx[q].held # {}
            /\ t.op \in {"resend", "forgot"} \/ \A s \in t.scan : ~Free(r, s)
      [] OTHER -> FALSE

\* PostgreSQL ends a deadlock by aborting one of its transactions; the
\* handler answers 500 and the session is rolled back.
DeadlockAbort(r) ==
    /\ \E cycle \in SUBSET Request :
          r \in cycle /\ \A p \in cycle : \E q \in cycle : Waits(p, q)
    /\ Fail(r)

-----------------------------------------------------------------------------
(* What the operations share.                                              *)

\* Mutant of LockSession: the session is read without FOR UPDATE.
PeekSession(r) ==
    /\ tx[r].step = "session"
    /\ IF sessions[tx[r].key].state = "gone" THEN Fail(r)
       ELSE Go(r, [tx[r] EXCEPT !.step = "user"])

\* SessionRepository.get_by_hash_for_update.
LockSession(r) ==
    LET s == tx[r].key IN
    /\ tx[r].step = "session"
    /\ Free(r, s)
    /\ IF sessions[s].state = "gone" THEN Fail(r)
       ELSE Go(r, [tx[r] EXCEPT !.step = "user", !.held = @ \union {s}])

\* Mutant of LockToken: the link is looked up without FOR UPDATE.
PeekToken(r) ==
    /\ tx[r].step = "token"
    /\ IF tokens[tx[r].key].state # "active" THEN Fail(r)
       ELSE Go(r, [tx[r] EXCEPT !.step = "user"])

\* OneTimeTokenRepository.consume_active_for_update: the row is checked
\* again once its lock is granted.
LockToken(r) ==
    LET t == tx[r].key IN
    /\ tx[r].step = "token"
    /\ Free(r, t)
    /\ IF tokens[t].state # "active" THEN Fail(r)
       ELSE Go(r, [tx[r] EXCEPT !.step = "user", !.held = @ \union {t}])

\* The ORM flushes the changed user before it runs the next UPDATE.  A row
\* that is gone makes the flush fail.
FlushUser(r) ==
    /\ tx[r].step = "flush"
    /\ Free(r, tx[r].user)
    /\ IF ~Exists(tx[r].user) THEN Fail(r)
       ELSE Go(r, [tx[r] EXCEPT !.step = "scan", !.held = @ \union {tx[r].user}])

\* Mutant of Scope: only the session that was presented is revoked.
OnlyPresented(r) == {s \in Session : s = tx[r].key /\ sessions[s].state = "live"}

\* The sessions revoke_family and revoke_user_sessions update.
Scope(r) ==
    {s \in Session :
        /\ sessions[s].state = "live"
        /\ IF tx[r].op = "refresh"
           THEN sessions[s].family = sessions[tx[r].key].family
           ELSE sessions[s].user = tx[r].user}

\* The UPDATE looks at the committed rows: a session somebody is still
\* inserting is not among them.
Scan(r) ==
    /\ At(r, Revoker, "scan")
    /\ tx' = [q \in Request |->
                 IF q = r
                 THEN [tx[r] EXCEPT !.step = "lock", !.scan = Scope(r)]
                 ELSE [tx[q] EXCEPT !.raced = @ \/ tx[q] # Idle]]
    /\ UNCHANGED <<db, workload>>

\* It locks them one after the other and checks each again.
LockScanned(r) ==
    /\ tx[r].step = "lock"
    /\ \E s \in tx[r].scan \intersect Session :
          /\ Free(r, s)
          /\ Go(r, [tx[r] EXCEPT !.scan = @ \ {s}, !.held = @ \union {s},
                        !.cut = IF sessions[s].state = "live"
                                THEN @ \union {s} ELSE @])

RevokedIn(S) == [s \in Session |-> IF s \in S
                                   THEN [sessions[s] EXCEPT !.state = "revoked"]
                                   ELSE sessions[s]]

\* SessionService.issue: the row of a new session and the access token.
Issued(u, family, version, era, raced) ==
    [NoSession EXCEPT !.state = "live", !.user = u, !.family = family,
                      !.version = version, !.era = era, !.raced = raced]

-----------------------------------------------------------------------------
(* Refresh sessions.                                                       *)

Presentable == {s \in Session : sessions[s].state \in {"live", "revoked"}}

Refresh(r) ==
    /\ SessionLeft
    /\ \E s \in Presentable : Begin(r, "refresh", "session", s)

\* rotate reads the user and decides: a revoked token is reuse, the first
\* use of which also writes the user; one that has expired is retired; a
\* live one is replaced.
DecideRotation(r) ==
    LET s == tx[r].key
        u == sessions[s].user
        Then(step) == Go(r, [tx[r] EXCEPT !.step = step, !.user = u,
                                          !.version = users[u].version])
    IN /\ At(r, {"refresh"}, "user")
       /\ \/ ~Active(u) /\ Fail(r)
          \/ /\ Active(u)
             /\ sessions[s].state = "revoked"
             /\ Then(IF sessions[s].reused THEN "scan" ELSE "flush")
          \/ /\ Active(u)
             /\ sessions[s].state = "live"
             /\ Then("insert")
          \/ /\ Active(u)
             /\ sessions[s].state = "live"
             /\ sessions' = RevokedIn({s})
             /\ End(r)
             /\ UNCHANGED <<users, tokens, links, used>>

\* The replacement is inserted; its foreign key needs the user.
InsertReplacement(r) ==
    /\ At(r, {"refresh"}, "insert")
    /\ IF ~Exists(tx[r].user) THEN Fail(r)
       ELSE /\ FreeSessions # {}
            /\ Go(r, [tx[r] EXCEPT !.step = "commit", !.made = One(FreeSessions)])

\* Mutant of CommitRotation: the presented session stays usable.
KeepBoth(r) ==
    LET t == tx[r]  s == t.key IN
    /\ At(r, {"refresh"}, "commit")
    /\ Free(r, t.user)
    /\ sessions' = [sessions EXCEPT ![t.made] =
                      Issued(t.user, sessions[s].family, t.version,
                             sessions[s].era, sessions[s].raced \/ t.raced)]
    /\ End(r)
    /\ UNCHANGED <<users, tokens, links, used>>

\* last_login_at is flushed and the rotation committed.
CommitRotation(r) ==
    LET t == tx[r]  s == t.key IN
    /\ At(r, {"refresh"}, "commit")
    /\ Free(r, t.user)
    /\ sessions' = [RevokedIn({s}) EXCEPT ![t.made] =
                      Issued(t.user, sessions[s].family, t.version,
                             sessions[s].era, sessions[s].raced \/ t.raced)]
    /\ End(r)
    /\ UNCHANGED <<users, tokens, links, used>>

\* A reused token has taken its whole family with it.
CommitReuse(r) ==
    LET t == tx[r]  s == t.key IN
    /\ At(r, {"refresh"}, "lock")
    /\ t.scan = {}
    /\ sessions' = [n \in Session |->
                      IF n \in t.cut \union {s}
                      THEN [RevokedIn(t.cut)[n] EXCEPT !.reused = TRUE]
                      ELSE sessions[n]]
    /\ users' = IF t.user \in t.held
                THEN [users EXCEPT ![t.user].version = t.version + 1]
                ELSE users
    /\ End(r)
    /\ UNCHANGED <<tokens, links, used>>

Logout(r) ==
    \E s \in Presentable, op \in {"logout", "logoutAll"} :
        /\ op = "logoutAll" => VersionLeft(sessions[s].user)
        /\ Begin(r, op, "session", s)

DecideLogout(r) ==
    LET s == tx[r].key  u == sessions[s].user IN
    \/ /\ At(r, {"logout"}, "user")
       /\ sessions' = RevokedIn({s})
       /\ End(r)
       /\ UNCHANGED <<users, tokens, links, used>>
    \/ /\ At(r, {"logoutAll"}, "user")
       /\ Go(r, [tx[r] EXCEPT !.step = "flush", !.user = u,
                              !.version = users[u].version])

\* Every session the UPDATE found live is revoked and auth_version written.
AllRevoked(r, row) ==
    /\ sessions' = RevokedIn(tx[r].cut)
    /\ users' = [users EXCEPT ![tx[r].user] =
                    [row EXCEPT !.version = tx[r].version + 1,
                                !.era = users[tx[r].user].era + 1]]

CommitLogoutAll(r) ==
    /\ At(r, {"logoutAll"}, "lock")
    /\ tx[r].scan = {}
    /\ AllRevoked(r, users[tx[r].user])
    /\ End(r)
    /\ UNCHANGED <<tokens, links, used>>

\* A link expires on its own.
ExpireToken(t) ==
    /\ tokens[t].state = "active"
    /\ \A r \in Request : t \notin tx[r].held
    /\ tokens' = [tokens EXCEPT ![t].state = "consumed"]
    /\ UNCHANGED <<users, sessions, links, used, tx, workload>>

-----------------------------------------------------------------------------
(* Registration and logins.                                                *)

Register(r) ==
    /\ UserLeft /\ TokenLeft
    /\ \E e \in Email : Begin(r, "register", "email", e)

Login(r) ==
    /\ SessionLeft
    /\ \E e \in Email : Begin(r, "login", "email", e)

GoogleLogin(r) ==
    /\ SessionLeft /\ UserLeft
    /\ \E i \in Subject \ Apple : Begin(r, "oauth", "link", i)

AppleLogin(r) ==
    /\ SessionLeft /\ UserLeft
    /\ \E i \in Apple : Begin(r, "oauth", "link", i)

\* An address that is taken is answered as if it were not.
CheckAddress(r) ==
    /\ At(r, {"register"}, "email")
    /\ IF OfEmail(tx[r].key) # {} THEN Fail(r)
       ELSE Go(r, [tx[r] EXCEPT !.step = "create"])

NewToken(u, purpose, T) ==
    /\ FreeTokens # {}
    /\ tokens' = [t \in Token |->
          CASE t = One(FreeTokens) ->
                  [state |-> "active", user |-> u, purpose |-> purpose]
            [] t \in T /\ tokens[t].state = "active" ->
                  [tokens[t] EXCEPT !.state = "consumed"]
            [] OTHER -> tokens[t]]

\* The account and its verification link; the unique index on the address
\* turns the loser of a race away.
CommitRegister(r) ==
    /\ At(r, {"register"}, "create")
    /\ IF OfEmail(tx[r].key) # {} THEN Fail(r)
       ELSE LET u == One(FreeUsers) IN
               /\ FreeUsers # {}
               /\ users' = [users EXCEPT ![u] = Account(tx[r].key, FALSE, TRUE)]
               /\ NewToken(u, "verify_email", {})
               /\ End(r)
               /\ UNCHANGED <<sessions, links, used>>

Loaded(r, u, step) == [tx[r] EXCEPT !.user = u, !.version = users[u].version,
                                    !.era = users[u].era, !.step = step]

\* The password is right; the account has to be active and verified.
CheckLogin(r) ==
    /\ At(r, {"login"}, "email")
    /\ IF \E u \in OfEmail(tx[r].key) :
             Active(u) /\ users[u].verified /\ users[u].password
       THEN \E u \in OfEmail(tx[r].key) : Go(r, Loaded(r, u, "commit"))
       ELSE Fail(r)

\* An identity that has signed in before.
FindLink(r) ==
    LET u == links[tx[r].key] IN
    /\ At(r, {"oauth"}, "link")
    /\ IF u = None THEN Go(r, [tx[r] EXCEPT !.step = "email"])
       ELSE IF ~Active(u) THEN Fail(r)
       ELSE Go(r, Loaded(r, u, "commit"))

\* Mutant of FindOwner: an unverified account is linked all the same.
LinkAnyOwner(r) ==
    LET owner == OfEmail(Address[tx[r].key]) IN
    /\ At(r, {"oauth"}, "email")
    /\ IF owner = {} THEN Go(r, [tx[r] EXCEPT !.step = "create"])
       ELSE \E u \in owner : IF Active(u) THEN Go(r, Loaded(r, u, "join")) ELSE Fail(r)

\* A new identity joins the account of its address only if that account
\* has verified the address itself.
FindOwner(r) ==
    LET owner == OfEmail(Address[tx[r].key]) IN
    /\ At(r, {"oauth"}, "email")
    /\ IF owner = {} THEN Go(r, [tx[r] EXCEPT !.step = "create"])
       ELSE \E u \in owner : IF Active(u) /\ users[u].verified
                             THEN Go(r, Loaded(r, u, "join")) ELSE Fail(r)

\* issue for a login: a family of its own.
NewFamily(r, u, version, era) ==
    LET s == One(FreeSessions) IN
    /\ FreeSessions # {}
    /\ sessions' = [sessions EXCEPT ![s] = Issued(u, s, version, era, tx[r].raced)]

CommitLogin(r) ==
    LET t == tx[r] IN
    /\ At(r, {"login", "oauth"}, "commit")
    /\ Free(r, t.user)
    /\ IF ~Exists(t.user) THEN Fail(r)
       ELSE /\ NewFamily(r, t.user, t.version, t.era)
            /\ End(r)
            /\ UNCHANGED <<users, tokens, links, used>>

\* The identity is linked; a second link or a deleted account fails.
CommitJoin(r) ==
    LET t == tx[r] IN
    /\ At(r, {"oauth"}, "join")
    /\ Free(r, t.user)
    /\ IF ~Exists(t.user) \/ links[t.key] # None THEN Fail(r)
       ELSE /\ links' = [links EXCEPT ![t.key] = t.user]
            /\ NewFamily(r, t.user, t.version, t.era)
            /\ End(r)
            /\ UNCHANGED <<users, tokens, used>>

\* An account without a password, verified by its provider.
CommitCreate(r) ==
    LET i == tx[r].key IN
    /\ At(r, {"oauth"}, "create")
    /\ IF OfEmail(Address[i]) # {} \/ links[i] # None THEN Fail(r)
       ELSE LET u == One(FreeUsers) IN
               /\ FreeUsers # {}
               /\ users' = [users EXCEPT ![u] = Account(Address[i], TRUE, FALSE)]
               /\ links' = [links EXCEPT ![i] = u]
               /\ NewFamily(r, u, 1, 0)
               /\ End(r)
               /\ UNCHANGED <<tokens, used>>

-----------------------------------------------------------------------------
(* The links sent by e-mail.                                               *)

OfPurpose(p) == {t \in Token : tokens[t].state \in {"active", "consumed"}
                               /\ tokens[t].purpose = p}

VerifyEmail(r) ==
    \E t \in OfPurpose("verify_email") : Begin(r, "verify", "token", t)

ResetPassword(r) ==
    \E t \in OfPurpose("reset_password") :
        VersionLeft(tokens[t].user) /\ Begin(r, "reset", "token", t)

ResendVerification(r) ==
    TokenLeft /\ \E e \in Email : Begin(r, "resend", "email", e)

ForgotPassword(r) ==
    TokenLeft /\ \E e \in Email : Begin(r, "forgot", "email", e)

PurposeOf(op) == IF op = "resend" THEN "verify_email" ELSE "reset_password"

\* Only an unverified account gets a verification link, only one with a
\* password a reset link.
CheckRecipient(r) ==
    /\ At(r, {"resend", "forgot"}, "email")
    /\ IF \E u \in OfEmail(tx[r].key) : IF tx[r].op = "resend"
                                         THEN ~users[u].verified
                                         ELSE users[u].password
       THEN \E u \in OfEmail(tx[r].key) : Go(r, Loaded(r, u, "scan"))
       ELSE Fail(r)

\* invalidate_active finds the links in force ...
ScanLinks(r) ==
    /\ At(r, {"resend", "forgot"}, "scan")
    /\ Go(r, [tx[r] EXCEPT !.step = "lock", !.scan =
              {t \in Token : /\ tokens[t].state = "active"
                             /\ tokens[t].user = tx[r].user
                             /\ tokens[t].purpose = PurposeOf(tx[r].op)}])

\* ... and replaces them by a new one.
CommitLink(r) ==
    /\ At(r, {"resend", "forgot"}, "lock")
    /\ \A t \in tx[r].scan : Free(r, t)
    /\ IF ~Exists(tx[r].user) THEN Fail(r)
       ELSE /\ NewToken(tx[r].user, PurposeOf(tx[r].op), tx[r].scan)
            /\ End(r)
            /\ UNCHANGED <<users, sessions, links, used>>

LinkOwner(r) ==
    /\ At(r, {"verify", "reset"}, "user")
    /\ LET u == tokens[tx[r].key].user IN
       Go(r, Loaded(r, u, IF tx[r].op = "verify" THEN "commit" ELSE "flush"))

Consumed(t) ==
    /\ tokens' = [tokens EXCEPT ![t].state = "consumed"]
    /\ used' = [used EXCEPT ![t] = @ + 1]

CommitVerify(r) ==
    LET t == tx[r] IN
    /\ At(r, {"verify"}, "commit")
    /\ Free(r, t.user)
    /\ Consumed(t.key)
    /\ users' = [users EXCEPT ![t.user].verified = TRUE]
    /\ End(r)
    /\ UNCHANGED <<sessions, links>>

\* The new password ends all sessions.
CommitReset(r) ==
    LET t == tx[r] IN
    /\ At(r, {"reset"}, "lock")
    /\ t.scan = {}
    /\ Consumed(t.key)
    /\ AllRevoked(r, [users[t.user] EXCEPT !.password = TRUE])
    /\ End(r)
    /\ UNCHANGED links

-----------------------------------------------------------------------------
(* Deletion of the account.                                                *)

\* get_current_user: what an access token is worth.
Accepted(s) ==
    /\ sessions[s].state = "live"
    /\ Active(sessions[s].user)
    /\ users[sessions[s].user].version = sessions[s].version

DeleteMe(r) ==
    \E s \in Session :
        /\ Accepted(s)
        /\ VersionLeft(sessions[s].user)
        /\ Begin(r, "delete", "user", s)

\* The user is read by the request's dependency; the current password is
\* right.
StartDeletion(r) ==
    /\ At(r, {"delete"}, "user")
    /\ IF Accepted(tx[r].key)
       THEN Go(r, Loaded(r, sessions[tx[r].key].user, "flush"))
       ELSE Fail(r)

\* The sessions are revoked; an Apple identity has to be revoked at Apple.
SessionsRevoked(r) ==
    /\ At(r, {"delete"}, "lock")
    /\ tx[r].scan = {}
    /\ Go(r, [tx[r] EXCEPT !.step =
          IF \E i \in Apple : links[i] = tx[r].user THEN "apple" ELSE "commit"])

AppleRevoked(r) ==
    /\ At(r, {"delete"}, "apple")
    /\ Go(r, [tx[r] EXCEPT !.step = "commit"])

\* Apple does not answer: the account stays, closed, as deletion_pending.
AppleFails(r) ==
    /\ At(r, {"delete"}, "apple")
    /\ AllRevoked(r, [users[tx[r].user] EXCEPT !.status = "deletion_pending"])
    /\ End(r)
    /\ UNCHANGED <<tokens, links, used>>

\* The row goes and everything that references it.
CommitDelete(r) ==
    LET u == tx[r].user IN
    /\ At(r, {"delete"}, "commit")
    /\ \A q \in Request \ {r} : ~Pins(q, u)
    /\ users' = [users EXCEPT ![u].status = "deleted"]
    /\ sessions' = [s \in Session |-> IF sessions[s].user = u
                        THEN [sessions[s] EXCEPT !.state = "gone"]
                        ELSE sessions[s]]
    /\ tokens' = [t \in Token |-> IF tokens[t].user = u
                      THEN [tokens[t] EXCEPT !.state = "gone"] ELSE tokens[t]]
    /\ links' = [i \in Subject |-> IF links[i] = u THEN None ELSE links[i]]
    /\ End(r)
    /\ UNCHANGED used

-----------------------------------------------------------------------------
Arrive(r) ==
    \/ Register(r) \/ Login(r) \/ GoogleLogin(r) \/ AppleLogin(r)
    \/ Refresh(r) \/ Logout(r) \/ DeleteMe(r)
    \/ VerifyEmail(r) \/ ResendVerification(r) \/ ForgotPassword(r)
    \/ ResetPassword(r)

Serve(r) ==
    \/ LockSession(r) \/ LockToken(r) \/ FlushUser(r)
    \/ Scan(r) \/ LockScanned(r)
    \/ DecideRotation(r) \/ InsertReplacement(r) \/ CommitRotation(r)
    \/ CommitReuse(r)
    \/ DecideLogout(r) \/ CommitLogoutAll(r)
    \/ CheckAddress(r) \/ CommitRegister(r) \/ CheckLogin(r)
    \/ FindLink(r) \/ FindOwner(r)
    \/ CommitLogin(r) \/ CommitJoin(r) \/ CommitCreate(r)
    \/ CheckRecipient(r) \/ ScanLinks(r) \/ CommitLink(r)
    \/ LinkOwner(r) \/ CommitVerify(r) \/ CommitReset(r)
    \/ StartDeletion(r) \/ SessionsRevoked(r)
    \/ AppleRevoked(r) \/ AppleFails(r) \/ CommitDelete(r)

Next ==
    \/ \E r \in Request : Arrive(r) \/ Serve(r) \/ DeadlockAbort(r)
    \/ \E t \in Token : ExpireToken(t)

Spec == Init /\ [][Next]_vars

\* Row locks are granted in the order they were asked for, so a request
\* that can go on again and again does; deadlocks are found.
Fairness ==
    /\ \A r \in Request : SF_vars(Serve(r))
    /\ WF_vars(\E r \in Request : DeadlockAbort(r))

FairSpec == Spec /\ Fairness

\* A user who wants an account deleted keeps signing in and asking.
DeletionSpec ==
    /\ FairSpec
    /\ WF_vars(\E r \in Request : Login(r) \/ AppleLogin(r))
    /\ WF_vars(\E r \in Request : DeleteMe(r))

-----------------------------------------------------------------------------
\* However rotations of one token, reuse and revocations interleave, a
\* family of refresh tokens never has two that can be rotated.
OneLivePerFamily ==
    \A s, n \in Session :
        /\ sessions[s].state = "live" /\ sessions[n].state = "live"
        /\ sessions[s].family = sessions[n].family
        => s = n

\* A password reset and a logout from all devices end every session whose
\* login began before them, and a refresh token presented twice ends its
\* family; the only sessions to survive were being issued while the
\* revocation was under way.
RevocationEndsSessions ==
    \A n \in Session :
        /\ sessions[n].state = "live"
        /\ \/ sessions[n].era < users[sessions[n].user].era
           \/ \E s \in Session : sessions[s].reused /\ sessions[s].family = sessions[n].family
        => sessions[n].raced

\* A link sent by e-mail succeeds at most once, also when it is opened
\* twice at the same time.
LinkWorksOnce == \A t \in Token : used[t] <= 1

\* An identity at a provider is only ever tied to an existing account whose
\* address has been verified, in whatever order registrations, logins,
\* verifications and deletions commit.
LinkedIsVerified ==
    \A i \in Subject :
        links[i] # None => Exists(links[i]) /\ users[links[i]].verified

\* The answer to a deletion Apple has refused, "Silme islemi kisa sure
\* icinde tamamlanacaktir": the deletion is completed later.
DeletionCompletes ==
    \A u \in User :
        users[u].status = "deletion_pending" ~> users[u].status = "deleted"

-----------------------------------------------------------------------------
(* The inductive invariant.                                                *)

\* What has loaded its user.
Loading == {"idle", "session", "token", "link", "email", "user", "create"}

\* Which operation is at which step.
PathOk(t) ==
    /\ "idle" \in {t.op, t.step} => t = Idle
    /\ t.step = "session" => t.op \in {"refresh", "logout", "logoutAll"}
    /\ t.step = "token" => t.op \in {"verify", "reset"}
    /\ t.step = "user" => t.op \in Revoker \union {"logout", "verify"}
    /\ t.step = "insert" => t.op = "refresh"
    /\ t.step = "flush" => t.op \in Revoker
    /\ t.step \in {"scan", "lock"} => t.op \in Revoker \union {"resend", "forgot"}
    /\ t.step = "apple" => t.op = "delete"
    /\ t.step \in {"link", "join"} => t.op = "oauth"
    /\ t.step = "commit" => t.op \in {"refresh", "login", "oauth", "verify", "delete"}
    /\ t.step \notin Loading => t.user \in User
    /\ t.step # "lock" => t.scan = {}
    /\ t.step \notin {"lock", "apple", "commit"} => t.cut = {}

\* What an operation on a session knows of it: the row is locked and is as it
\* was found.
SessionOk(t) ==
    /\ t.op \in {"refresh", "logout", "logoutAll", "delete"} =>
          t.key \in Session /\ sessions[t.key].state # "free"
    /\ t.op \in {"refresh", "logout", "logoutAll"} /\ t.step # "session" => t.key \in t.held
    /\ t.op = "refresh" =>
          /\ t.step \notin Loading => t.user = sessions[t.key].user
          /\ t.step \in {"insert", "commit"} => sessions[t.key].state = "live"
          /\ t.step \in {"flush", "scan", "lock"} => sessions[t.key].state = "revoked"
          /\ t.step = "commit" => t.made # None
    /\ t.made # None => /\ t.op = "refresh" /\ t.step = "commit"
                        /\ sessions[t.made].state = "free"

\* A link that is being used is locked and has not been used before.
LinkOk(t) ==
    t.op \in {"verify", "reset"} =>
        /\ t.key \in Token /\ tokens[t.key].state # "free"
        /\ t.step # "token" => t.key \in t.held /\ tokens[t.key].state = "active"

\* Who is about to issue a session has seen every revocation, or was raced.
LoginOk(t) ==
    /\ t.op = "oauth" => t.key \in Subject
    /\ t.op \in {"register", "login", "resend", "forgot"} => t.key \in Email
    /\ t.op \in {"login", "oauth"} /\ t.step \in {"join", "commit"} =>
          t.era >= users[t.user].era \/ t.raced
    /\ t.step = "join" => users[t.user].status # "free" /\ users[t.user].verified

\* The sessions a transaction is to revoke.
Concerns(t, n) ==
    IF t.op = "refresh" THEN sessions[n].family = sessions[t.key].family
                        ELSE sessions[n].user = t.user

\* A revocation under way misses no session but those being issued beside it.
RevocationOk(t) ==
    /\ t.cut \subseteq t.held
    /\ \A n \in t.cut \union t.scan :
          n \in Session => sessions[n].state # "free" /\ Concerns(t, n)
    /\ t.op \in {"resend", "forgot"} => t.scan \intersect Session = {}
    /\ Revokes(t) => \A n \in Session :
          sessions[n].state = "live" /\ Concerns(t, n) =>
              n \in t.scan \union t.cut \/ sessions[n].raced

TxOk(t) == PathOk(t) /\ SessionOk(t) /\ LinkOk(t) /\ LoginOk(t) /\ RevocationOk(t)

TxInv == \A r \in Request : TxOk(tx[r])

\* A row is locked by one transaction, a key given to one, and whoever works
\* beside a revocation has been raced.
ApartInv ==
    \A r \in Request : \A q \in Request \ {r} :
        /\ tx[r].held \intersect tx[q].held = {}
        /\ tx[r].made # None => tx[r].made # tx[q].made
        /\ Revokes(tx[r]) /\ tx[q] # Idle => tx[q].raced

\* Rows that were inserted name rows that were inserted.
RowInv ==
    /\ \A n \in Session : IF sessions[n].state = "free" THEN sessions[n] = NoSession
                           ELSE sessions[sessions[n].family].state # "free"
    /\ \A t \in Token : /\ tokens[t].state = "free" <=> tokens[t].user = None
                        /\ tokens[t].state \in {"free", "active"} => used[t] = 0

IInv ==
    /\ TypeOK /\ TxInv /\ ApartInv /\ RowInv
    /\ OneLivePerFamily /\ RevocationEndsSessions /\ LinkWorksOnce /\ LinkedIsVerified
=============================================================================
