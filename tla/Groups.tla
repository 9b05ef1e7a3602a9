------------------------------- MODULE Groups -------------------------------
(***************************************************************************)
(* Groups, their members and roles, group and friend invitations, direct   *)
(* groups, and what the deletion of an account does to them (GroupService, *)
(* GroupRepository, GroupInvitationService, FriendInvitationService).      *)
(*                                                                         *)
(* A request is one READ COMMITTED transaction; accepting a friend's       *)
(* invitation may be two.  GroupService locks the group row and then reads *)
(* the members; acceptances and account deletions change members without   *)
(* that lock.  The ORM writes the columns it changed, by primary key, and  *)
(* fails when the row is gone.                                             *)
(*                                                                         *)
(* Left out: names, descriptions and currencies, activity rows, cache      *)
(* invalidation (DebtCache), refusals that write nothing, such as expired  *)
(* invitations and other people's e-mail addresses, and which member of a  *)
(* role joined first.  The deletion takes its row locks in one step.       *)
(***************************************************************************)
EXTENDS Integers, FiniteSets, TLC

CONSTANTS
    Request,     \* requests of a behaviour, each served once
    User,
    Group,       \* primary keys of groups
    Invitation,  \* primary keys of invitations
    None,
    Scenario     \* bound: what exists at first and which operations arrive

Role   == {"member", "admin", "owner"}
Locked == {"archive", "add", "remove", "role", "record"}
Operation == Locked \union {"create", "invite", "accept", "befriend",
                            "acceptFriend", "friendExpense", "mutate", "delete"}
Rank == [member |-> 1, admin |-> 2, owner |-> 3]

\* A row of group_members; "left" when left_at is set.
NoMember == [role |-> "member", state |-> "none"]
Member == {NoMember} \union [role: Role, state: {"in", "left"}]
In(role) == [role |-> role, state |-> "in"]

\* A row of group_invitations or friend_invitations.
InvitationRow == [kind: {"group", "friend"}, state: {"free", "open", "accepted"},
                  group: Group \union {None}, to: User \union {None},
                  from: User \union {None}, role: Role]

\* A fresh UUID: which key a new row gets does not matter.
Fresh(S) == CHOOSE k \in S : TRUE
First == Fresh(Group)

\* At first one group exists; it has an owner, and invitations are to it.
ASSUME GroupsAssumption ==
    /\ None \notin User \union Group \union Invitation \union Operation
    /\ Group # {} /\ Group \intersect Invitation = {}
    /\ \A s \in Scenario :
          /\ s.ops \subseteq Operation
          /\ s.members \in [User -> Member]
          /\ \E u \in User : s.members[u] = In("owner")
          /\ \A i \in DOMAIN s.sent :
                /\ s.sent[i] \in InvitationRow
                /\ s.sent[i].kind = "group" => s.sent[i].group = First

VARIABLES
    alive,        \* users whose row exists
    groups,       \* groups[g]: the row of g
    members,      \* members[g][u]: the row of u in g
    balance,      \* balance[g][u]: what the ledger of g says of u
    invitations,  \* invitations[i]: the row of i
    used,         \* used[i]: members the group invitation i has let in
    raced,        \* groups changed by a request that had not seen them last
    drift,        \* balances moved by offline mutations behind a check
    twins,        \* pairs that may have two direct groups
    lost,         \* invitations accepted without a friend to show for it
    tx,           \* tx[r]: the transaction of r
    workload      \* the operations that arrive in this behaviour

rows   == <<alive, groups, members, balance, invitations>>
ghosts == <<used, raced, drift, twins, lost>>
vars   == <<rows, ghosts, tx, workload>>

GroupRow == [state: {"free", "open", "archived"}, direct: BOOLEAN,
             by: User \union {None}]
\* seen is the membership the transaction has read, held its row locks,
\* plan what a deletion does with each group: nothing, promote a member, or
\* archive (the deleted user itself).
Transaction ==
    [op: Operation \union {None},
     step: {"new", "lock", "balance", "invitation", "pair", "make", "mark",
            "list", "plan", "commit", "done"},
     actor: User \union {None}, target: User \union {None},
     group: Group \union {None}, key: Invitation \union {None},
     role: Role, seen: [User -> Member], held: SUBSET (Group \union Invitation),
     plan: [Group -> User \union {None}], stale: SUBSET Group]

New == [op |-> None, step |-> "new", actor |-> None, target |-> None,
        group |-> None, key |-> None, role |-> "member",
        seen |-> [u \in User |-> NoMember], held |-> {},
        plan |-> [g \in Group |-> None], stale |-> {}]
Done == [New EXCEPT !.step = "done"]

Pair == {p \in SUBSET User : Cardinality(p) = 2}

TypeOK ==
    /\ alive \subseteq User
    /\ groups \in [Group -> GroupRow]
    /\ members \in [Group -> [User -> Member]]
    /\ balance \in [Group -> [User -> -1 .. 1]]
    /\ \A g \in Group, u \in User :
          members[g][u].state # "none" => u \in alive /\ groups[g].state # "free"
    /\ invitations \in [Invitation -> InvitationRow]
    /\ used \in [Invitation -> Nat]
    /\ raced \subseteq Group /\ drift \subseteq Group \X User
    /\ twins \subseteq Pair /\ lost \subseteq Invitation
    /\ tx \in [Request -> Transaction]
    /\ workload \subseteq Operation

-----------------------------------------------------------------------------

NoInvitation == [kind |-> "group", state |-> "free", group |-> None,
                 to |-> None, from |-> None, role |-> "member"]
GroupInvitation(g, to, from, role) ==
    [NoInvitation EXCEPT !.state = "open", !.group = g, !.to = to,
                         !.from = from, !.role = role]
FriendInvitation(to, from) ==
    [NoInvitation EXCEPT !.kind = "friend", !.state = "open", !.to = to,
                         !.from = from]

\* Who may ask whom to join as what.
MayInvite(role, invited) ==
    \/ role = "owner" /\ invited # "owner"
    \/ role = "admin" /\ invited = "member"

\* One group exists, invitations to it and of friends may be open.
Init ==
    /\ alive = User
    /\ \E s \in Scenario :
          /\ groups = [g \in Group |->
                [state |-> IF g = First THEN "open" ELSE "free", direct |-> FALSE,
                 by |-> IF g = First THEN CHOOSE u \in User : s.members[u] = In("owner")
                        ELSE None]]
          /\ members = [g \in Group |-> IF g = First THEN s.members
                                        ELSE [u \in User |-> NoMember]]
          /\ invitations = [i \in Invitation |-> IF i \in DOMAIN s.sent THEN s.sent[i]
                                                  ELSE NoInvitation]
          /\ workload = s.ops
    /\ balance = [g \in Group |-> [u \in User |-> 0]]
    /\ used = [i \in Invitation |-> 0]
    /\ raced = {} /\ drift = {} /\ twins = {} /\ lost = {}
    /\ tx = [r \in Request |-> New]

-----------------------------------------------------------------------------
(* The database.                                                           *)

Active(g) == {u \in User : members[g][u].state = "in"}
RoleOf(g, u) == IF u \in Active(g) THEN members[g][u].role ELSE "none"
Owners(m) == {u \in User : m[u] = In("owner")}
Open(g) == groups[g].state = "open"
Free(r, row) == \A q \in Request \ {r} : row \notin tx[q].held
FreeGroups == {g \in Group : groups[g].state = "free"}
FreeInvitations == {i \in Invitation : invitations[i].state = "free"}
At(r, op, step) == tx[r].op \in op /\ tx[r].step = step

Go(r, t)  == tx' = [tx EXCEPT ![r] = t] /\ UNCHANGED <<rows, ghosts, workload>>
Fail(r)   == Go(r, Done)
Close(r)  == tx' = [tx EXCEPT ![r] = Done] /\ UNCHANGED workload

Begin(r, op, step, actor, t) ==
    /\ tx[r] = New
    /\ op \in workload
    /\ actor \in alive
    /\ Go(r, [t EXCEPT !.op = op, !.step = step, !.actor = actor])

\* A commit that changes groups G or their members.  A transaction that is under way
\* no longer knows them, unless both sides take the group's lock; it races
\* when it writes what it decided before.
Changes(r, G, then) ==
    /\ tx' = [q \in Request |->
                IF q = r THEN then
                ELSE IF tx[q].step \in {"new", "done"} \/ {tx[q].op, tx[r].op} \subseteq Locked
                THEN tx[q] ELSE [tx[q] EXCEPT !.stale = @ \union G]]
    /\ raced' = raced \union (G \intersect tx[r].stale)
    /\ UNCHANGED workload

\* The process dies or the client's connection is cut: nothing uncommitted
\* stays.
Crash(r) == tx[r].step \notin {"new", "done"} /\ Fail(r)

-----------------------------------------------------------------------------
(* Groups and their members.                                               *)

\* A new group and its owner.
NewGroup(by, direct) == [state |-> "open", direct |-> direct, by |-> by]

Create(r) ==
    \E u \in alive :
        /\ tx[r] = New /\ "create" \in workload
        /\ FreeGroups # {}
        /\ LET g == Fresh(FreeGroups) IN
             /\ groups' = [groups EXCEPT ![g] = NewGroup(u, FALSE)]
             /\ members' = [members EXCEPT ![g][u] = In("owner")]
             /\ Changes(r, {g}, Done)
        /\ UNCHANGED <<alive, balance, invitations, used, drift, twins, lost>>

\* The routes.  Their dependencies read the role without a lock.
ArchiveGroup(r) == \E g \in Group : \E u \in Active(g) :
    Begin(r, "archive", "lock", u, [New EXCEPT !.group = g])
AddGroupMember(r) == \E g \in Group, v \in User, role \in Role : \E u \in Active(g) :
    /\ RoleOf(g, u) \in {"admin", "owner"}
    /\ Begin(r, "add", "lock", u, [New EXCEPT !.group = g, !.target = v, !.role = role])
LeaveGroup(r) == \E g \in Group : \E u \in Active(g) :
    Begin(r, "remove", "lock", u, [New EXCEPT !.group = g, !.target = u])
RemoveGroupMember(r) == \E g \in Group : \E u, v \in Active(g) :
    Begin(r, "remove", "lock", u, [New EXCEPT !.group = g, !.target = v])
UpdateGroupMemberRole(r) == \E g \in Group, role \in Role : \E u, v \in Active(g) :
    /\ RoleOf(g, u) = "owner"
    /\ Begin(r, "role", "lock", u, [New EXCEPT !.group = g, !.target = v, !.role = role])

\* create_group_expense and create_settlement: both move an amount from the
\* target to the actor.
Record(r) == \E g \in Group : \E u, v \in Active(g) :
    /\ u # v
    /\ Begin(r, "record", "lock", u, [New EXCEPT !.group = g, !.target = v])

\* What each operation asks of the group and the members it has read.
MayArchive(t, m) == m[t.actor].role = "owner" /\ Open(t.group)
MayAdd(t, m) ==
    /\ MayInvite(m[t.actor].role, t.role)
    /\ t.target \in alive
    /\ m[t.target].state # "in"
MayRemove(t, m) ==
    /\ m[t.target].state = "in"
    /\ t.actor # t.target => Rank[m[t.actor].role] > Rank[m[t.target].role]
    /\ Owners(m) # {t.target}
MayChangeRole(t, m) ==
    /\ m[t.actor].role = "owner"
    /\ m[t.target].state = "in" /\ m[t.target].role # t.role
    /\ Owners(m) # {t.target}
MayRecord(t, m) == Open(t.group) /\ m[t.target].state = "in"

Allowed(t, m) ==
    /\ m[t.actor].state = "in"
    /\ CASE t.op = "archive" -> MayArchive(t, m)
         [] t.op = "add"     -> MayAdd(t, m)
         [] t.op = "remove"  -> MayRemove(t, m)
         [] t.op = "role"    -> MayChangeRole(t, m)
         [] OTHER            -> MayRecord(t, m)

\* What a decided request does next.
Decided(r, held) ==
    LET t == tx[r]  m == members[t.group] IN
    IF Allowed(t, m)
    THEN Go(r, [t EXCEPT !.seen = m, !.held = held, !.stale = {},
                         !.step = IF t.op \in {"archive", "remove"}
                                  THEN "balance" ELSE "commit"])
    ELSE Fail(r)

\* Mutant of LockGroup: the group is read without FOR UPDATE.
ReadGroup(r) == tx[r].step = "lock" /\ Decided(r, {})

\* _get_authorized_group with for_update, and the checks that follow.
LockGroup(r) ==
    /\ tx[r].step = "lock"
    /\ Free(r, tx[r].group)
    /\ Decided(r, {tx[r].group})

\* The ledger lets the member go, or the group be archived.
Settled(r) ==
    LET t == tx[r] IN
    IF t.op = "archive" THEN \A u \in User : balance[t.group][u] = 0
    ELSE balance[t.group][t.target] = 0

ReadBalance(r) ==
    /\ tx[r].step = "balance"
    /\ IF Settled(r) THEN Go(r, [tx[r] EXCEPT !.step = "commit"]) ELSE Fail(r)

CommitArchive(r) ==
    /\ At(r, {"archive"}, "commit")
    /\ groups' = [groups EXCEPT ![tx[r].group].state = "archived"]
    /\ Changes(r, {tx[r].group}, Done)
    /\ UNCHANGED <<alive, members, balance, invitations, used, drift, twins, lost>>

\* The row add_member leaves: a former member's is used again, and its role
\* is written when it differs from the one that was read.
Joined(seen, now, role) ==
    IF seen.state = "none" \/ seen.role # role THEN In(role) ELSE In(now.role)

\* A new row needs a user, and no row of somebody faster; a former member's
\* row has to be there.
CanJoin(g, u, seen) ==
    /\ u \in alive
    /\ (seen.state = "none") = (members[g][u].state = "none")

\* Somebody new in a direct group makes its pairs ambiguous.
NewPairs(g, u) == IF groups[g].direct THEN {p \in Pair : u \in p} ELSE {}

CommitAdd(r) ==
    LET t == tx[r]  g == t.group  u == t.target IN
    /\ At(r, {"add"}, "commit")
    /\ IF ~CanJoin(g, u, t.seen[u]) THEN Fail(r)
       ELSE /\ members' = [members EXCEPT ![g][u] = Joined(t.seen[u], @, t.role)]
            /\ twins' = twins \union NewPairs(g, u)
            /\ Changes(r, {g}, Done)
            /\ UNCHANGED <<alive, groups, balance, invitations, used, drift, lost>>

CommitRemove(r) ==
    LET t == tx[r]  g == t.group  u == t.target IN
    /\ At(r, {"remove"}, "commit")
    /\ IF members[g][u].state = "none" THEN Fail(r)
       ELSE /\ members' = [members EXCEPT ![g][u].state = "left"]
            /\ Changes(r, {g}, Done)
            /\ UNCHANGED <<alive, groups, balance, invitations, used, drift,
                           twins, lost>>

\* A sole owner who makes somebody else owner becomes an admin.
HandsOver(t) ==
    t.role = "owner" /\ t.actor # t.target /\ Owners(t.seen) = {t.actor}

CommitRole(r) ==
    LET t == tx[r]  g == t.group
        Written == {t.target} \union IF HandsOver(t) THEN {t.actor} ELSE {}
    IN /\ At(r, {"role"}, "commit")
       /\ IF \E u \in Written : members[g][u].state = "none" THEN Fail(r)
          ELSE /\ members' = [members EXCEPT ![g] = [u \in User |->
                    IF u \notin Written THEN @[u]
                    ELSE [@[u] EXCEPT !.role = IF u = t.target THEN t.role ELSE "admin"]]]
               /\ Changes(r, {g}, Done)
               /\ UNCHANGED <<alive, groups, balance, invitations, used, drift,
                              twins, lost>>

\* A payment of one moves the balance of to up and that of from down.
Moved(b, to, from) == [b EXCEPT ![to] = @ + 1, ![from] = @ - 1]
\* Bound: balances stay within one.
CanMove(b, to, from) == b[to] < 1 /\ b[from] > -1

CommitRecord(r) ==
    LET t == tx[r]  g == t.group IN
    /\ At(r, {"record", "friendExpense"}, "commit")
    /\ CanMove(balance[g], t.actor, t.target)
    /\ balance' = [balance EXCEPT ![g] = Moved(@, t.actor, t.target)]
    /\ Close(r)
    /\ UNCHANGED <<alive, groups, members, invitations, ghosts>>

\* An offline update or deletion of an expense: it takes no group lock, and
\* an expense that is undone may be one of former members.
Mutate(r) ==
    \E g \in Group : \E u, v \in {w \in User : members[g][w].state # "none"} :
        LET checked == \E q \in Request :
                          At(q, {"archive", "remove"}, "commit") /\ tx[q].group = g
        IN /\ tx[r] = New /\ "mutate" \in workload
           /\ u # v /\ Active(g) # {}
           /\ CanMove(balance[g], u, v)
           /\ balance' = [balance EXCEPT ![g] = Moved(@, u, v)]
           /\ drift' = drift \union
                 {<<g, w>> : w \in {x \in {u, v} : checked \/ ~Open(g)
                                                   \/ x \notin Active(g)}}
           /\ Close(r)
           /\ UNCHANGED <<alive, groups, members, invitations, used, raced, twins, lost>>

-----------------------------------------------------------------------------
(* Invitations to a group.                                                 *)

InviteToGroup(r) == \E g \in Group, v \in User, role \in Role : \E u \in Active(g) :
    /\ MayInvite(RoleOf(g, u), role)
    /\ Begin(r, "invite", "commit", u,
             [New EXCEPT !.group = g, !.target = v, !.role = role])

\* The role of the actor is the one the route has read.
CommitInvite(r) ==
    LET t == tx[r] IN
    /\ At(r, {"invite"}, "commit")
    /\ FreeInvitations # {}
    /\ IF ~Open(t.group) \/ t.actor \notin alive THEN Fail(r)
       ELSE /\ invitations' = [invitations EXCEPT ![Fresh(FreeInvitations)] =
                                 GroupInvitation(t.group, t.target, t.actor, t.role)]
            /\ Close(r)
            /\ UNCHANGED <<alive, groups, members, balance, ghosts>>

\* The two routes: by the token of the e-mail, or by the id of a pending one.
Present(r, op, kind) == \E i \in Invitation :
    /\ invitations[i].state # "free" /\ invitations[i].kind = kind
    /\ Begin(r, op, "invitation", invitations[i].to, [New EXCEPT !.key = i])
AcceptGroupInvitation(r) == Present(r, "accept", "group")
AcceptFriendInvitation(r) == Present(r, "acceptFriend", "friend")

\* Mutant of CheckInvitation: the invitation is read without FOR UPDATE.
PeekInvitation(r) ==
    LET i == tx[r].key  row == invitations[i]  g == row.group IN
    /\ At(r, {"accept"}, "invitation")
    /\ IF row.state # "open" \/ ~Open(g) \/ tx[r].actor \in Active(g) THEN Fail(r)
       ELSE Go(r, [tx[r] EXCEPT !.step = "commit", !.group = g,
                                !.role = row.role, !.seen = members[g]])

\* The invitation is locked; the group and the membership are only read.
CheckInvitation(r) ==
    LET i == tx[r].key  row == invitations[i]  g == row.group IN
    /\ At(r, {"accept"}, "invitation")
    /\ Free(r, i)
    /\ IF row.state # "open" \/ ~Open(g) \/ tx[r].actor \in Active(g) THEN Fail(r)
       ELSE Go(r, [tx[r] EXCEPT !.step = "commit", !.group = g, !.held = {i},
                                !.role = row.role, !.seen = members[g], !.stale = {}])

\* A new row refers to the group, so it waits for the group's lock.
CommitAccept(r) ==
    LET t == tx[r]  g == t.group  u == t.actor IN
    /\ At(r, {"accept"}, "commit")
    /\ t.seen[u].state # "none" \/ Free(r, g)
    /\ IF ~CanJoin(g, u, t.seen[u]) THEN Fail(r)
       ELSE /\ members' = [members EXCEPT ![g][u] = Joined(t.seen[u], @, t.role)]
            /\ invitations' = [invitations EXCEPT ![t.key].state = "accepted"]
            /\ used' = [used EXCEPT ![t.key] = @ + 1]
            /\ twins' = twins \union NewPairs(g, u)
            /\ Changes(r, {g}, Done)
            /\ UNCHANGED <<alive, groups, balance, drift, lost>>

-----------------------------------------------------------------------------
(* Friends and their direct groups.                                        *)

Befriend(r) == \E u \in alive, v \in User :
    /\ tx[r] = New /\ "befriend" \in workload
    /\ FreeInvitations # {}
    /\ invitations' = [invitations EXCEPT ![Fresh(FreeInvitations)] =
                          FriendInvitation(v, u)]
    /\ Close(r)
    /\ UNCHANGED <<alive, groups, members, balance, ghosts>>

\* Mutant of DirectGroups: only groups the first of the two has founded.
FoundedBy(u, v) ==
    {g \in Group : groups[g].direct /\ {u, v} \subseteq Active(g) /\ groups[g].by = u}

\* get_direct_group: archived ones are found as well.
DirectGroups(u, v) == {g \in Group : groups[g].direct /\ {u, v} \subseteq Active(g)}

LockFriendInvitation(r) ==
    LET i == tx[r].key  row == invitations[i] IN
    /\ At(r, {"acceptFriend"}, "invitation")
    /\ Free(r, i)
    /\ IF row.state # "open" \/ row.from \notin alive \ {tx[r].actor} THEN Fail(r)
       ELSE Go(r, [tx[r] EXCEPT !.step = "pair", !.target = row.from, !.held = {i}])

\* An expense with a friend opens the direct group when there is none.
CreateFriendExpense(r) == \E u, v \in alive :
    /\ u # v
    /\ Begin(r, "friendExpense", "pair", u, [New EXCEPT !.target = v])

\* The inviter, or the one who shares the expense, founds the group.
Founder(t) == IF t.op = "acceptFriend" THEN t.target ELSE t.actor
Guest(t)   == IF t.op = "acceptFriend" THEN t.actor ELSE t.target
AfterPair(t) == IF t.op = "acceptFriend" THEN "mark" ELSE "lock"

\* get_or_create_direct_group looks for a group of the two ...
FindDirectGroup(r) ==
    LET found == DirectGroups(Founder(tx[r]), Guest(tx[r])) IN
    /\ tx[r].step = "pair"
    /\ \/ \E g \in found : Go(r, [tx[r] EXCEPT !.step = AfterPair(tx[r]), !.group = g])
       \/ found = {} /\ Go(r, [tx[r] EXCEPT !.step = "make"])

\* ... and makes one in a transaction of its own: the commit also ends the
\* locks of the caller.
MakeDirectGroup(r) ==
    LET t == tx[r]  u == Founder(t)  v == Guest(t)
        others == {q \in Request \ {r} : tx[q].step = "make"
                                         /\ {tx[q].actor, tx[q].target} = {u, v}}
    IN /\ t.step = "make"
       /\ FreeGroups # {}
       /\ IF ~({u, v} \subseteq alive) THEN Fail(r)
          ELSE LET g == Fresh(FreeGroups) IN
               /\ groups' = [groups EXCEPT ![g] = NewGroup(u, TRUE)]
               /\ members' = [members EXCEPT ![g] =
                                 [@ EXCEPT ![u] = In("owner"), ![v] = In("member")]]
               /\ twins' = twins \union IF others # {} THEN {{u, v}} ELSE {}
               /\ Changes(r, {g}, [t EXCEPT !.step = AfterPair(t), !.group = g,
                                           !.held = {}])
               /\ UNCHANGED <<alive, balance, invitations, used, drift, lost>>

MarkAccepted(r) ==
    LET t == tx[r] IN
    /\ At(r, {"acceptFriend"}, "mark")
    /\ Free(r, t.key)
    /\ IF t.actor \notin alive THEN Fail(r)
       ELSE /\ invitations' = [invitations EXCEPT ![t.key].state = "accepted"]
            /\ tx' = [tx EXCEPT ![r].step = "list", ![r].held = {}]
            /\ UNCHANGED <<alive, groups, members, balance, ghosts, workload>>

\* list_friends shows the open direct groups with somebody else in them.
Listed(g, u) == Open(g) /\ u \in Active(g) /\ Active(g) # {u}

\* The answer needs the new friend's entry; without one the handler raises.
AnswerAccepted(r) ==
    LET t == tx[r] IN
    /\ At(r, {"acceptFriend"}, "list")
    /\ lost' = IF Listed(t.group, t.actor) \/ t.group \in t.stale THEN lost
               ELSE lost \union {t.key}
    /\ Close(r)
    /\ UNCHANGED <<rows, used, raced, drift, twins>>

-----------------------------------------------------------------------------
(* Deletion of an account.                                                 *)

DeleteAccount(r) == \E u \in alive : Begin(r, "delete", "plan", u, New)

\* Whom prepare_for_user_deletion makes owner: admins come before members
\* and members before other owners, who need no write.  Without anybody
\* the group is archived.
Heir(g, u) ==
    LET candidates == Active(g) \ {u}
        of(role)   == {v \in candidates : members[g][v].role = role}
        best       == IF of("admin") # {} THEN of("admin") ELSE of("member")
    IN IF ~Open(g) \/ RoleOf(g, u) # "owner" THEN {None}
       ELSE IF candidates = {} THEN {u}
       ELSE IF best = {} THEN {None} ELSE best

PlanDeletion(r) ==
    /\ tx[r].step = "plan"
    /\ \E plan \in [Group -> User \union {None}] :
          /\ \A g \in Group : plan[g] \in Heir(g, tx[r].actor)
          /\ Go(r, [tx[r] EXCEPT !.step = "commit", !.plan = plan, !.stale = {}])

\* The plan is written and the user goes, with the rows of its memberships.
CommitDelete(r) ==
    LET u == tx[r].actor  plan == tx[r].plan
        promoted == {g \in Group : plan[g] \notin {None, u}}
        closed   == {g \in Group : plan[g] = u}
    IN /\ At(r, {"delete"}, "commit")
       /\ \A g \in closed \union {h \in Group : groups[h].by = u} : Free(r, g)
       /\ \A i \in Invitation : invitations[i].from = u => Free(r, i)
       /\ IF u \notin alive \/ \E g \in promoted : members[g][plan[g]].state = "none"
          THEN Fail(r)
          ELSE /\ alive' = alive \ {u}
               /\ groups' = [g \in Group |->
                     [groups[g] EXCEPT !.state = IF g \in closed THEN "archived" ELSE @,
                                       !.by = IF @ = u THEN None ELSE @]]
               /\ members' = [g \in Group |-> [v \in User |->
                     CASE v = u -> NoMember
                       [] g \in promoted /\ v = plan[g] ->
                            [members[g][v] EXCEPT !.role = "owner"]
                       [] OTHER -> members[g][v]]]
               /\ invitations' = [i \in Invitation |->
                     [invitations[i] EXCEPT !.from = IF @ = u THEN None ELSE @]]
               /\ Changes(r, {g \in Group : members[g][u].state # "none"}, Done)
               /\ UNCHANGED <<balance, used, drift, twins, lost>>

-----------------------------------------------------------------------------
Step(r) ==
    \/ Create(r) \/ ArchiveGroup(r) \/ AddGroupMember(r) \/ LeaveGroup(r)
    \/ RemoveGroupMember(r) \/ UpdateGroupMemberRole(r) \/ Record(r) \/ Mutate(r)
    \/ LockGroup(r) \/ ReadBalance(r) \/ CommitArchive(r) \/ CommitAdd(r)
    \/ CommitRemove(r) \/ CommitRole(r) \/ CommitRecord(r)
    \/ InviteToGroup(r) \/ CommitInvite(r) \/ AcceptGroupInvitation(r)
    \/ CheckInvitation(r) \/ CommitAccept(r)
    \/ Befriend(r) \/ AcceptFriendInvitation(r) \/ LockFriendInvitation(r)
    \/ CreateFriendExpense(r) \/ FindDirectGroup(r) \/ MakeDirectGroup(r)
    \/ MarkAccepted(r) \/ AnswerAccepted(r)
    \/ DeleteAccount(r) \/ PlanDeletion(r) \/ CommitDelete(r)
    \/ Crash(r)

Next == \E r \in Request : Step(r)
Spec == Init /\ [][Next]_vars

-----------------------------------------------------------------------------
(* A group is never without an owner: the last one cannot leave, be        *)
(* removed or be demoted, and a deleted one is replaced.  This is what the *)
(* API contract promises (docs/group_api_contract.md).                     *)
GroupHasOwner == \A g \in Group : Open(g) => Owners(members[g]) # {}

(* The owner is lost only where an acceptance or an account deletion,      *)
(* which do not lock the group, overlapped another change of its members   *)
(* (the creation of the group is one).                                     *)
OwnerLostOnlyInRace == \A g \in Group : Open(g) /\ g \notin raced => Owners(members[g]) # {}

(* Whoever has left a group, and everybody in an archived one, is settled: *)
(* no expense or settlement is recorded between the look at the balances   *)
(* and the departure.  Offline mutations, which take no group lock, and a  *)
(* deletion that archives a group somebody has just joined, are the        *)
(* exceptions.                                                             *)
DepartureIsSettled ==
    \A g \in Group, u \in alive :
        (\/ members[g][u].state = "left"
         \/ members[g][u].state = "in" /\ ~Open(g) /\ g \notin raced)
        => (balance[g][u] = 0 \/ <<g, u>> \in drift)

(* A group invitation lets one member in, however often and however close  *)
(* together it is presented: it does not bring back a removed member.      *)
InvitationWorksOnce == \A i \in Invitation : used[i] <= 1

(* Two users have one direct group, which holds their balance, whichever   *)
(* of them invites, and whether an expense or an invitation opens it,      *)
(* unless two requests make one at the same time or somebody comes into a  *)
(* direct group by another way.                                            *)
OneDirectGroup ==
    \A p \in Pair \ twins :
        Cardinality({g \in Group : groups[g].direct /\ p \subseteq Active(g)}) <= 1

(* An accepted friend has an entry in the list of friends, unless somebody *)
(* changes the direct group before it is answered: the handler calls a     *)
(* missing entry impossible.                                               *)
AcceptedFriendIsListed == lost = {}
=============================================================================
