----------------------------- MODULE GroupsProofs -----------------------------
(***************************************************************************)
(* The safety properties of Groups, for any set of users, groups,          *)
(* invitations and requests: an inductive invariant says what each         *)
(* transaction under way still knows of the group it has read.             *)
(***************************************************************************)
EXTENDS Groups, FiniteSetTheorems, TLAPS

-----------------------------------------------------------------------------
(* What holds of a transaction alone.                                      *)

Grouped == Locked \union {"friendExpense"}

\* The steps of the operations, with the rows they name, the lock of their group
\* and what they have decided from the members they saw.
Placed(t) ==
    /\ t.step \in {"new", "done"} => t.held = {}
    /\ t.step = "lock" => t.op \in Grouped
    /\ t.step = "balance" => t.op \in {"archive", "remove"}
    /\ t.step = "plan" => t.op = "delete"
    /\ t.step \in {"pair", "make"} =>
          /\ t.op \in {"acceptFriend", "friendExpense"}
          /\ t.actor \in User /\ t.target \in User /\ t.actor # t.target
    /\ t.step \notin {"new", "done"} => t.actor \in User
    /\ t.op \in {"accept", "acceptFriend"} /\ t.step \notin {"new", "done"} =>
          t.key \in Invitation
    /\ t.op \in Grouped /\ t.step \in {"lock", "balance", "commit"} =>
          t.group \in Group /\ (t.op # "archive" => t.target \in User)
    /\ t.op \in {"invite", "accept"} /\ t.step = "commit" => t.group \in Group
    /\ t.op \in Grouped /\ t.step \in {"balance", "commit"} => t.group \in t.held
    /\ t.op = "accept" /\ t.step = "commit" => t.key \in t.held

Judged(t) ==
    /\ t.op = "add" /\ t.step = "commit" => t.seen[t.target].state # "in"
    /\ t.op = "remove" /\ t.step \in {"balance", "commit"} => Owners(t.seen) # {t.target}
    /\ t.op = "role" /\ t.step = "commit" =>
          Owners(t.seen) # {t.target} /\ t.seen[t.target].state = "in"
    /\ t.op = "accept" /\ t.step = "commit" => t.seen[t.actor].state # "in"

-----------------------------------------------------------------------------
(* What a transaction knows of the database.                               *)

Even(g, u) == balance[g][u] = 0 \/ <<g, u>> \in drift

\* The group it has seen is as it was, or is marked stale.
SeenOk(t) ==
    t.op \in Locked \union {"accept"} /\ t.step \in {"balance", "commit"} =>
        t.group \in t.stale \/ members[t.group] = t.seen

\* The plan is still the one it would make, group by group.
PlanOk(t) ==
    t.op = "delete" /\ t.step = "commit" /\ t.actor \in alive =>
        \A g \in Group : /\ g \in t.stale \/ t.plan[g] \in Heir(g, t.actor)
                         /\ t.plan[g] # None => members[g][t.actor].state # "none"

\* Those who may go have been found settled.
SettledOk(t) ==
    /\ t.op = "remove" /\ t.step = "commit" => Even(t.group, t.target)
    /\ t.op = "archive" /\ t.step = "commit" => \A u \in User : Even(t.group, u)

\* Those who pay are members of an open group.
RecordOk(t) ==
    t.op \in {"record", "friendExpense"} /\ t.step = "commit" =>
        /\ Open(t.group)
        /\ \A u \in {t.actor, t.target} : u \in alive => members[t.group][u].state = "in"

\* The invitation is still open, and two who make a direct group have none.
AcceptOk(t) == t.op = "accept" /\ t.step = "commit" => invitations[t.key].state = "open"
MakeOk(t) ==
    t.step = "make" =>
        {t.actor, t.target} \in twins \/ DirectGroups(t.actor, t.target) = {}

\* The rows it names exist.
GroupOk(t) == t.group \in Group => groups[t.group].state # "free"
KeyOk(t) ==
    t.op \in {"accept", "acceptFriend"} /\ t.step \notin {"new", "done"} =>
        /\ invitations[t.key].state # "free"
        /\ t.op = "accept" => invitations[t.key].kind = "group"

TxOk(t) ==
    /\ Placed(t) /\ Judged(t)
    /\ GroupOk(t) /\ KeyOk(t) /\ SeenOk(t) /\ PlanOk(t) /\ SettledOk(t)
    /\ RecordOk(t) /\ AcceptOk(t) /\ MakeOk(t)

-----------------------------------------------------------------------------
(* The inductive invariant.                                                *)

TxInv == \A r \in Request : TxOk(tx[r])

\* No two transactions lock a row.
LockInv == \A q, r \in Request : q # r => tx[q].held \intersect tx[r].held = {}

\* Everybody who is not a member of an open group is settled, also those
\* who have never been one.
SettledInv ==
    \A g \in Group, u \in alive :
        (\/ members[g][u].state # "in"
         \/ ~Open(g) /\ g \notin raced)
        => Even(g, u)

\* An invitation that is not accepted has let nobody in.
UsedInv ==
    \A i \in Invitation : /\ used[i] <= 1
                          /\ invitations[i].state # "accepted" => used[i] = 0
SentInv ==
    \A i \in Invitation :
        invitations[i].kind = "group" /\ invitations[i].state # "free"
            => invitations[i].group \in Group

\* Two direct groups of a pair are one.
PairInv ==
    \A p \in Pair \ twins : \A g, h \in Group :
        /\ groups[g].direct /\ p \subseteq Active(g)
        /\ groups[h].direct /\ p \subseteq Active(h)
        => g = h

\* The types of everything but the transactions.
RowsOk ==
    /\ alive \subseteq User
    /\ groups \in [Group -> GroupRow]
    /\ members \in [Group -> [User -> Member]]
    /\ balance \in [Group -> [User -> -1 .. 1]]
    /\ \A g \in Group, u \in User :
          members[g][u].state # "none" => u \in alive /\ groups[g].state # "free"
    /\ invitations \in [Invitation -> InvitationRow]
    /\ used \in [Invitation -> Nat]
    /\ raced \subseteq Group /\ drift \subseteq Group \X User
    /\ twins \subseteq Pair /\ lost \subseteq Invitation
    /\ workload \subseteq Operation

IInv == TypeOK /\ TxInv /\ LockInv /\ OwnerLostOnlyInRace /\ SettledInv
        /\ UsedInv /\ SentInv /\ PairInv

-----------------------------------------------------------------------------
(* What a step does to the transactions it does not take.                  *)

\* Transaction q is told that groups G changed, or takes part in their locks.
Kept(q, r, G) ==
    \/ tx'[q] = [tx[q] EXCEPT !.stale = tx[q].stale \union G]
    \/ /\ tx'[q] = tx[q]
       /\ \/ G = {} \/ tx[q].step \in {"new", "done"}
          \/ {tx[q].op, tx[r].op} \subseteq Locked

Single(u, v) == {u, v} \in twins \/ DirectGroups(u, v) = {}

\* The rows of groups G change, and nothing a lock of another protects.
Frame(r, G) ==
    /\ alive' \subseteq alive
    /\ \A g \in Group : groups[g].state # "free" => groups'[g].state # "free"
    /\ \A g \in Group \ G : /\ members'[g] = members[g]
                             /\ groups'[g].state = groups[g].state
    /\ tx[r].op \in Locked => G \subseteq tx[r].held
    /\ \A g \in Group, u \in alive' :
          members[g][u].state # "none" => members'[g][u].state # "none"
    /\ \A q \in Request \ {r}, g \in Group : g \in tx[q].held =>
          /\ Open(g) => Open(g)'
          /\ \A u \in alive' : members[g][u].state = "in" => members'[g][u].state = "in"
          /\ \A u \in User :
                /\ tx[q].op \in {"archive", "remove"} /\ tx[q].step = "commit"
                /\ tx[q].group = g /\ Even(g, u)
                => Even(g, u)'
    /\ \A i \in Invitation : invitations[i].state # "free" =>
          invitations'[i].state # "free" /\ invitations'[i].kind = invitations[i].kind
    /\ \A q \in Request \ {r}, i \in Invitation :
          i \in tx[q].held /\ invitations[i].state = "open" => invitations'[i].state = "open"
    /\ \A q \in Request \ {r}, u, v \in User :
          tx[q].step = "make" /\ tx[q].actor = u /\ tx[q].target = v /\ u # v /\ Single(u, v)
             => Single(u, v)'

LEMMA TypeParts == TypeOK <=> RowsOk /\ tx \in [Request -> Transaction]
BY DEF TypeOK, RowsOk

LEMMA Known ==
    ASSUME IInv, NEW r \in Request
    PROVE  tx[r] \in Transaction /\ TxOk(tx[r]) /\ RowsOk
BY TypeParts DEF IInv, TypeOK, TxInv

LEMMA NewType ==
    /\ New \in Transaction /\ New.step = "new" /\ New.op = None /\ New.held = {}
    /\ New.stale = {} /\ New.group = None
    /\ Done \in Transaction /\ Done.step = "done" /\ Done.op = None /\ Done.held = {}
    /\ Done.stale = {} /\ Done.group = None
BY DEF New, Done, Transaction, NoMember, Member, Role

LEMMA KeptFields ==
    ASSUME NEW t \in Transaction, NEW G \in SUBSET Group, NEW s,
           s = [t EXCEPT !.stale = t.stale \union G]
    PROVE  /\ s \in Transaction /\ s.stale = t.stale \union G
           /\ s.op = t.op /\ s.step = t.step /\ s.actor = t.actor /\ s.target = t.target
           /\ s.group = t.group /\ s.key = t.key /\ s.role = t.role /\ s.seen = t.seen
           /\ s.held = t.held /\ s.plan = t.plan
BY DEF Transaction

\* A transaction that is not taken still knows what it knew.
LEMMA OthersOk ==
    ASSUME IInv, NEW r \in Request, NEW q \in Request \ {r}, NEW G \in SUBSET Group,
           Kept(q, r, G), Frame(r, G), NEW s, s = tx'[q]
    PROVE  s \in Transaction /\ TxOk(s)' /\ s.held = tx[q].held
<1> DEFINE t == tx[q]
<1>1. t \in Transaction /\ TxOk(t)
  BY Known
<1>2. /\ s \in Transaction /\ t.stale \subseteq s.stale
      /\ s.op = t.op /\ s.step = t.step /\ s.actor = t.actor /\ s.target = t.target
      /\ s.group = t.group /\ s.key = t.key /\ s.role = t.role /\ s.seen = t.seen
      /\ s.held = t.held /\ s.plan = t.plan
  <2>1. CASE s = t
    BY <1>1, <2>1
  <2>2. CASE s = [t EXCEPT !.stale = t.stale \union G]
    <3> HIDE DEF t
    <3>1. QED
      BY <1>1, <2>2, KeptFields
  <2>3. QED
    BY <2>1, <2>2 DEF Kept
<1>3. \/ G \subseteq s.stale \/ t.step \in {"new", "done"}
      \/ {t.op, tx[r].op} \subseteq Locked
  BY <1>1, KeptFields DEF Kept
<1> HIDE DEF t
<1>4. Placed(s) /\ Judged(s)
  BY <1>1, <1>2 DEF TxOk, Placed, Judged
<1>5. GroupOk(s)' /\ KeyOk(s)'
  BY <1>1, <1>2 DEF TxOk, Placed, GroupOk, KeyOk, Frame
<1>6. SeenOk(s)'
  <2>1. SUFFICES ASSUME s.op \in Locked \union {"accept"}, s.step \in {"balance", "commit"},
                        s.group \notin s.stale
                 PROVE  members'[s.group] = s.seen
    BY DEF SeenOk
  <2>2. t.group \in Group /\ members[t.group] = t.seen
    BY <1>1, <1>2, <2>1 DEF TxOk, Placed, SeenOk, Locked, Grouped
  <2>3. t.group \notin G
    <3>1. CASE G \subseteq s.stale
      BY <1>2, <2>1, <3>1
    <3>2. CASE {t.op, tx[r].op} \subseteq Locked
      <4>1. t.group \in t.held
        BY <1>1, <1>2, <2>1, <3>2 DEF TxOk, Placed, Grouped
      <4>2. G \subseteq tx[r].held /\ t.held \intersect tx[r].held = {}
        BY <3>2 DEF Frame, IInv, LockInv, t
      <4>3. QED
        BY <4>1, <4>2
    <3>3. QED
      BY <1>2, <1>3, <2>1, <3>1, <3>2
  <2>4. QED
    BY <1>2, <2>2, <2>3 DEF Frame
<1>7. PlanOk(s)'
  <2>1. SUFFICES ASSUME s.op = "delete", s.step = "commit", s.actor \in alive', NEW g \in Group
                 PROVE  /\ g \in s.stale \/ s.plan[g] \in Heir(g, s.actor)'
                        /\ s.plan[g] # None => members'[g][s.actor].state # "none"
    BY DEF PlanOk
  <2>2. /\ g \in t.stale \/ t.plan[g] \in Heir(g, t.actor)
        /\ t.plan[g] # None => members[g][t.actor].state # "none"
    BY <1>1, <1>2, <2>1 DEF TxOk, PlanOk, Frame
  <2>3. G \subseteq s.stale
    BY <1>2, <1>3, <2>1 DEF Locked
  <2>4. CASE g \in G \/ g \in t.stale
    BY <1>2, <2>1, <2>2, <2>3, <2>4 DEF Frame
  <2>5. CASE g \notin G /\ g \notin t.stale
    <3>1. members'[g] = members[g] /\ groups'[g].state = groups[g].state
      BY <2>5 DEF Frame
    <3>2. Heir(g, s.actor)' = Heir(g, s.actor)
      BY <3>1 DEF Heir, Active, RoleOf, Open
    <3>3. QED
      BY <1>2, <2>2, <2>5, <3>1, <3>2
  <2>6. QED
    BY <2>4, <2>5
<1>8. SettledOk(s)'
  BY <1>1, <1>2 DEF TxOk, SettledOk, Placed, Grouped, Locked, Frame, t
<1>9. RecordOk(s)'
  BY <1>1, <1>2 DEF TxOk, RecordOk, Placed, Grouped, Locked, Frame, t
<1>10. AcceptOk(s)'
  BY <1>1, <1>2 DEF TxOk, AcceptOk, Placed, Frame, t
<1>11. MakeOk(s)'
  <2>1. SUFFICES ASSUME s.step = "make"
                 PROVE  Single(s.actor, s.target)'
    BY DEF MakeOk, Single
  <2>2. /\ s.actor \in User /\ s.target \in User /\ s.actor # s.target
        /\ Single(s.actor, s.target)
    BY <1>1, <1>2, <2>1 DEF TxOk, Placed, MakeOk, Single
  <2>3. tx[q].step = "make" /\ tx[q].actor = s.actor /\ tx[q].target = s.target
    BY <1>2, <2>1 DEF t
  <2>4. QED
    BY <2>2, <2>3 DEF Frame, Single
<1>12. QED
  BY <1>2, <1>4, <1>5, <1>6, <1>7, <1>8, <1>9, <1>10, <1>11 DEF TxOk, t

LEMMA Committing ==
    ASSUME IInv, NEW r \in Request, NEW t \in Transaction, NEW G \in SUBSET Group,
           tx' = [q \in Request |-> tx'[q]], tx'[r] = t, TxOk(t)',
           \A q \in Request \ {r} : t.held \intersect tx[q].held = {},
           \A q \in Request \ {r} : Kept(q, r, G),
           Frame(r, G), RowsOk',
           OwnerLostOnlyInRace', SettledInv', UsedInv', SentInv', PairInv'
    PROVE  IInv'
<1>1. ASSUME NEW q \in Request \ {r}
      PROVE  tx'[q] \in Transaction /\ TxOk(tx[q])' /\ tx'[q].held = tx[q].held
  <2>1. PICK s : s = tx'[q]
    OBVIOUS
  <2>2. s \in Transaction /\ TxOk(s)' /\ s.held = tx[q].held
    BY <2>1, OthersOk
  <2>3. QED
    BY <2>1, <2>2
<1>2. tx' \in [Request -> Transaction]
  BY <1>1
<1>3. TypeOK'
  BY <1>2 DEF TypeOK, RowsOk
<1>4. TxInv'
  <2>1. SUFFICES ASSUME NEW q \in Request PROVE TxOk(tx[q])'
    BY DEF TxInv
  <2>2. CASE q = r
    BY <2>2
  <2>3. CASE q # r
    BY <1>1, <2>3
  <2>4. QED
    BY <2>2, <2>3
<1>5. LockInv'
  BY <1>1 DEF IInv, LockInv
<1>6. QED
  BY <1>3, <1>4, <1>5 DEF IInv

\* A step that only moves its transaction.
LEMMA Moving ==
    ASSUME IInv, NEW r \in Request, NEW t \in Transaction, Go(r, t), TxOk(t),
           \A q \in Request \ {r} : t.held \intersect tx[q].held = {}
    PROVE  IInv'
<1>1. /\ tx' = [tx EXCEPT ![r] = t] /\ tx \in [Request -> Transaction]
      /\ UNCHANGED <<alive, groups, members, balance, invitations, used, raced, drift, twins,
                     lost, workload>>
  BY DEF Go, IInv, TypeOK, rows, ghosts
<1>2. /\ tx' = [q \in Request |-> tx'[q]] /\ tx'[r] = t
      /\ \A q \in Request \ {r} : Kept(q, r, {})
  BY <1>1 DEF Kept
<1>3. TxOk(t)'
  <2>1. Placed(t)' /\ Judged(t)' /\ GroupOk(t)' /\ KeyOk(t)' /\ SeenOk(t)' /\ AcceptOk(t)'
    BY <1>1 DEF TxOk, Placed, Judged, GroupOk, KeyOk, SeenOk, AcceptOk
  <2>2. PlanOk(t)'
    <3>1. \A g \in Group : Heir(g, t.actor)' = Heir(g, t.actor)
      BY <1>1 DEF Heir, Active, RoleOf, Open
    <3>2. QED
      BY <1>1, <3>1 DEF TxOk, PlanOk
  <2>3. SettledOk(t)' /\ RecordOk(t)'
    BY <1>1 DEF TxOk, SettledOk, RecordOk, Even, Open
  <2>4. MakeOk(t)'
    BY <1>1 DEF TxOk, MakeOk, DirectGroups, Active
  <2>5. QED
    BY <2>1, <2>2, <2>3, <2>4 DEF TxOk
<1>4. Frame(r, {})
  BY <1>1 DEF Frame, Open, Even, Single, DirectGroups, Active
<1>5. RowsOk'
  BY <1>1, TypeParts DEF IInv, RowsOk
<1>6. OwnerLostOnlyInRace' /\ SettledInv' /\ UsedInv' /\ SentInv' /\ PairInv'
  BY <1>1 DEF IInv, OwnerLostOnlyInRace, SettledInv, UsedInv, SentInv, PairInv, Open, Even, Active
<1>7. QED
  BY <1>2, <1>3, <1>4, <1>5, <1>6, Committing

LEMMA DoneOk == TxOk(Done) /\ TxOk(Done)'
<1>1. Done.step = "done" /\ Done.held = {} /\ Done.group \notin Group
  BY NewType, GroupsAssumption
<1>2. Placed(Done) /\ Judged(Done)
  BY <1>1 DEF Placed, Judged
<1>3. /\ GroupOk(Done) /\ KeyOk(Done) /\ SeenOk(Done) /\ PlanOk(Done) /\ SettledOk(Done)
      /\ RecordOk(Done) /\ AcceptOk(Done) /\ MakeOk(Done)
  BY <1>1 DEF GroupOk, KeyOk, SeenOk, PlanOk, SettledOk, RecordOk, AcceptOk, MakeOk
<1>4. /\ GroupOk(Done)' /\ KeyOk(Done)' /\ SeenOk(Done)' /\ PlanOk(Done)' /\ SettledOk(Done)'
      /\ RecordOk(Done)' /\ AcceptOk(Done)' /\ MakeOk(Done)'
  BY <1>1 DEF GroupOk, KeyOk, SeenOk, PlanOk, SettledOk, RecordOk, AcceptOk, MakeOk
<1>5. QED
  BY <1>2, <1>3, <1>4 DEF TxOk

LEMMA StepFail == ASSUME IInv, NEW r \in Request, Fail(r) PROVE IInv'
<1>1. Go(r, Done)
  BY DEF Fail
<1>2. QED
  BY <1>1, NewType, DoneOk, Moving

-----------------------------------------------------------------------------
(* The routes: a transaction begins.                                       *)

LEMMA Starting ==
    ASSUME IInv, NEW r \in Request, NEW base \in Transaction, NEW op \in Operation,
           NEW actor, NEW step \in {"lock", "commit", "invitation", "pair", "plan"},
           Begin(r, op, step, actor, base),
           base.held = {}, base.group \in Group => groups[base.group].state # "free",
           \/ /\ step = "lock" /\ op \in Locked /\ base.group \in Group
              /\ op = "archive" \/ base.target \in User
           \/ /\ step = "pair" /\ op = "friendExpense"
              /\ base.target \in User /\ base.target # actor
           \/ step = "commit" /\ op = "invite" /\ base.group \in Group
           \/ /\ step = "invitation" /\ op \in {"accept", "acceptFriend"}
              /\ base.key \in Invitation
              /\ invitations[base.key].state # "free"
              /\ op = "accept" => invitations[base.key].kind = "group"
           \/ step = "plan" /\ op = "delete"
    PROVE  IInv'
<1> DEFINE t == [base EXCEPT !.op = op, !.step = step, !.actor = actor]
<1>1. Go(r, t) /\ actor \in User /\ t = [base EXCEPT !.op = op, !.step = step, !.actor = actor]
  BY DEF Begin, IInv, TypeOK
<1> HIDE DEF t
<1>2. /\ t \in Transaction /\ t.op = op /\ t.step = step /\ t.actor = actor
      /\ t.group = base.group /\ t.target = base.target /\ t.key = base.key /\ t.held = {}
  BY <1>1 DEF Transaction
<1>3. Placed(t) /\ Judged(t)
  BY <1>1, <1>2 DEF Placed, Judged, Grouped, Locked
<1>4. GroupOk(t) /\ KeyOk(t)
  <2>1. GroupOk(t)
    BY <1>2 DEF GroupOk
  <2>2. op \in {"accept", "acceptFriend"} =>
            /\ step = "invitation" /\ invitations[base.key].state # "free"
            /\ op = "accept" => invitations[base.key].kind = "group"
    BY DEF Locked
  <2>3. KeyOk(t)
    BY <1>2, <2>2 DEF KeyOk
  <2>4. QED
    BY <2>1, <2>3
<1>5. t.step \notin {"balance", "make"} /\ (t.step = "commit" => t.op = "invite")
  BY <1>2
<1>6. SeenOk(t) /\ PlanOk(t) /\ SettledOk(t) /\ RecordOk(t) /\ AcceptOk(t) /\ MakeOk(t)
  BY <1>5 DEF SeenOk, PlanOk, SettledOk, RecordOk, AcceptOk, MakeOk, Locked
<1>7. \A q \in Request \ {r} : t.held \intersect tx[q].held = {}
  BY <1>2
<1>8. QED
  BY <1>1, <1>2, <1>3, <1>4, <1>6, <1>7, Moving DEF TxOk

LEMMA Named ==
    /\ Locked \subseteq Operation /\ Locked = {"archive", "add", "remove", "role", "record"}
    /\ {"invite", "accept", "acceptFriend", "friendExpense", "delete"} \subseteq Operation
BY DEF Locked, Operation

LEMMA ActiveType ==
    ASSUME IInv, NEW g \in Group, NEW u \in Active(g)
    PROVE  u \in User /\ u \in alive /\ groups[g].state # "free"
BY DEF Active, IInv, TypeOK

LEMMA StepArchiveGroup == ASSUME IInv, NEW r \in Request, ArchiveGroup(r) PROVE IInv'
<1>1. PICK g \in Group : \E u \in Active(g) :
          Begin(r, "archive", "lock", u, [New EXCEPT !.group = g])
  BY DEF ArchiveGroup
<1>2. PICK u \in Active(g) : Begin(r, "archive", "lock", u, [New EXCEPT !.group = g])
  BY <1>1
<1>3. u \in User /\ groups[g].state # "free"
  BY ActiveType
<1> DEFINE b == [New EXCEPT !.group = g]
<1>4. b = [New EXCEPT !.group = g]
  OBVIOUS
<1> HIDE DEF b
<1>5. b \in Transaction /\ b.group = g /\ b.held = {}
  BY <1>3, <1>4, NewType DEF Transaction
<1>6. Begin(r, "archive", "lock", u, b)
  BY <1>2, <1>4
<1>7. QED
  BY <1>3, <1>5, <1>6, Named, Starting

LEMMA StepAddGroupMember == ASSUME IInv, NEW r \in Request, AddGroupMember(r) PROVE IInv'
<1>1. PICK g \in Group, v \in User, role \in Role : \E u \in Active(g) :
          Begin(r, "add", "lock", u, [New EXCEPT !.group = g, !.target = v, !.role = role])
  BY DEF AddGroupMember
<1>2. PICK u \in Active(g) :
          Begin(r, "add", "lock", u, [New EXCEPT !.group = g, !.target = v, !.role = role])
  BY <1>1
<1>3. u \in User /\ groups[g].state # "free"
  BY ActiveType
<1> DEFINE b == [New EXCEPT !.group = g, !.target = v, !.role = role]
<1>4. b = [New EXCEPT !.group = g, !.target = v, !.role = role]
  OBVIOUS
<1> HIDE DEF b
<1>5. b \in Transaction /\ b.group = g /\ b.target = v /\ b.held = {}
  BY <1>3, <1>4, NewType DEF Transaction
<1>6. Begin(r, "add", "lock", u, b)
  BY <1>2, <1>4
<1>7. QED
  BY <1>3, <1>5, <1>6, Named, Starting

LEMMA StepLeaveGroup == ASSUME IInv, NEW r \in Request, LeaveGroup(r) PROVE IInv'
<1>1. PICK g \in Group : \E u \in Active(g) :
          Begin(r, "remove", "lock", u, [New EXCEPT !.group = g, !.target = u])
  BY DEF LeaveGroup
<1>2. PICK u \in Active(g) :
          Begin(r, "remove", "lock", u, [New EXCEPT !.group = g, !.target = u])
  BY <1>1
<1>3. u \in User /\ groups[g].state # "free"
  BY ActiveType
<1> DEFINE b == [New EXCEPT !.group = g, !.target = u]
<1>4. b = [New EXCEPT !.group = g, !.target = u]
  OBVIOUS
<1> HIDE DEF b
<1>5. b \in Transaction /\ b.group = g /\ b.target = u /\ b.held = {}
  BY <1>3, <1>4, NewType DEF Transaction
<1>6. Begin(r, "remove", "lock", u, b)
  BY <1>2, <1>4
<1>7. QED
  BY <1>3, <1>5, <1>6, Named, Starting

LEMMA StepRemoveGroupMember == ASSUME IInv, NEW r \in Request, RemoveGroupMember(r) PROVE IInv'
<1>1. PICK g \in Group : \E u, v \in Active(g) :
          Begin(r, "remove", "lock", u, [New EXCEPT !.group = g, !.target = v])
  BY DEF RemoveGroupMember
<1>2. PICK u \in Active(g), v \in Active(g) :
          Begin(r, "remove", "lock", u, [New EXCEPT !.group = g, !.target = v])
  BY <1>1
<1>3. u \in User /\ groups[g].state # "free" /\ v \in User
  BY ActiveType
<1> DEFINE b == [New EXCEPT !.group = g, !.target = v]
<1>4. b = [New EXCEPT !.group = g, !.target = v]
  OBVIOUS
<1> HIDE DEF b
<1>5. b \in Transaction /\ b.group = g /\ b.target = v /\ b.held = {}
  BY <1>3, <1>4, NewType DEF Transaction
<1>6. Begin(r, "remove", "lock", u, b)
  BY <1>2, <1>4
<1>7. QED
  BY <1>3, <1>5, <1>6, Named, Starting

LEMMA StepUpdateGroupMemberRole ==
    ASSUME IInv, NEW r \in Request, UpdateGroupMemberRole(r) PROVE IInv'
<1>1. PICK g \in Group, role \in Role : \E u, v \in Active(g) :
          Begin(r, "role", "lock", u, [New EXCEPT !.group = g, !.target = v, !.role = role])
  BY DEF UpdateGroupMemberRole
<1>2. PICK u \in Active(g), v \in Active(g) :
          Begin(r, "role", "lock", u, [New EXCEPT !.group = g, !.target = v, !.role = role])
  BY <1>1
<1>3. u \in User /\ groups[g].state # "free" /\ v \in User
  BY ActiveType
<1> DEFINE b == [New EXCEPT !.group = g, !.target = v, !.role = role]
<1>4. b = [New EXCEPT !.group = g, !.target = v, !.role = role]
  OBVIOUS
<1> HIDE DEF b
<1>5. b \in Transaction /\ b.group = g /\ b.target = v /\ b.held = {}
  BY <1>3, <1>4, NewType DEF Transaction
<1>6. Begin(r, "role", "lock", u, b)
  BY <1>2, <1>4
<1>7. QED
  BY <1>3, <1>5, <1>6, Named, Starting

LEMMA StepRecord == ASSUME IInv, NEW r \in Request, Record(r) PROVE IInv'
<1>1. PICK g \in Group : \E u, v \in Active(g) :
          Begin(r, "record", "lock", u, [New EXCEPT !.group = g, !.target = v])
  BY DEF Record
<1>2. PICK u \in Active(g), v \in Active(g) :
          Begin(r, "record", "lock", u, [New EXCEPT !.group = g, !.target = v])
  BY <1>1
<1>3. u \in User /\ groups[g].state # "free" /\ v \in User
  BY ActiveType
<1> DEFINE b == [New EXCEPT !.group = g, !.target = v]
<1>4. b = [New EXCEPT !.group = g, !.target = v]
  OBVIOUS
<1> HIDE DEF b
<1>5. b \in Transaction /\ b.group = g /\ b.target = v /\ b.held = {}
  BY <1>3, <1>4, NewType DEF Transaction
<1>6. Begin(r, "record", "lock", u, b)
  BY <1>2, <1>4
<1>7. QED
  BY <1>3, <1>5, <1>6, Named, Starting

LEMMA StepInviteToGroup == ASSUME IInv, NEW r \in Request, InviteToGroup(r) PROVE IInv'
<1>1. PICK g \in Group, v \in User, role \in Role : \E u \in Active(g) :
          Begin(r, "invite", "commit", u, [New EXCEPT !.group = g, !.target = v, !.role = role])
  BY DEF InviteToGroup
<1>2. PICK u \in Active(g) :
          Begin(r, "invite", "commit", u, [New EXCEPT !.group = g, !.target = v, !.role = role])
  BY <1>1
<1>3. u \in User /\ groups[g].state # "free"
  BY ActiveType
<1> DEFINE b == [New EXCEPT !.group = g, !.target = v, !.role = role]
<1>4. b = [New EXCEPT !.group = g, !.target = v, !.role = role]
  OBVIOUS
<1> HIDE DEF b
<1>5. b \in Transaction /\ b.group = g /\ b.target = v /\ b.held = {}
  BY <1>3, <1>4, NewType DEF Transaction
<1>6. Begin(r, "invite", "commit", u, b)
  BY <1>2, <1>4
<1>7. QED
  BY <1>3, <1>5, <1>6, Named, Starting

LEMMA Presenting ==
    ASSUME IInv, NEW r \in Request, NEW op \in {"accept", "acceptFriend"},
           NEW kind, op = "accept" => kind = "group", Present(r, op, kind)
    PROVE  IInv'
<1>1. PICK i \in Invitation :
          /\ invitations[i].state # "free" /\ invitations[i].kind = kind
          /\ Begin(r, op, "invitation", invitations[i].to, [New EXCEPT !.key = i])
  BY DEF Present
<1> DEFINE b == [New EXCEPT !.key = i]
<1>2. b \in Transaction /\ b.key = i /\ b.group = None /\ b.held = {}
  BY NewType DEF Transaction
<1>3. Begin(r, op, "invitation", invitations[i].to, b)
  BY <1>1
<1> HIDE DEF b
<1>4. QED
  BY <1>1, <1>2, <1>3, Named, GroupsAssumption, Starting

LEMMA StepCreateFriendExpense == ASSUME IInv, NEW r \in Request, CreateFriendExpense(r) PROVE IInv'
<1>1. PICK u \in alive, v \in alive :
          u # v /\ Begin(r, "friendExpense", "pair", u, [New EXCEPT !.target = v])
  BY DEF CreateFriendExpense
<1>2. v \in User
  BY DEF IInv, TypeOK
<1> DEFINE b == [New EXCEPT !.target = v]
<1>3. b \in Transaction /\ b.target = v /\ b.group = None /\ b.held = {}
  BY <1>2, NewType DEF Transaction
<1>4. Begin(r, "friendExpense", "pair", u, b)
  BY <1>1
<1> HIDE DEF b
<1>5. QED
  BY <1>1, <1>2, <1>3, <1>4, Named, GroupsAssumption, Starting

LEMMA StepDeleteAccount == ASSUME IInv, NEW r \in Request, DeleteAccount(r) PROVE IInv'
<1>1. PICK u \in alive : Begin(r, "delete", "plan", u, New)
  BY DEF DeleteAccount
<1>2. QED
  BY <1>1, Named, NewType, GroupsAssumption, Starting

LEMMA StepAcceptInvitation ==
    ASSUME IInv, NEW r \in Request, AcceptGroupInvitation(r) \/ AcceptFriendInvitation(r)
    PROVE  IInv'
BY Presenting DEF AcceptGroupInvitation, AcceptFriendInvitation

-----------------------------------------------------------------------------
(* A transaction reads, locks and decides.                                 *)

LEMMA StepLockGroup == ASSUME IInv, NEW r \in Request, LockGroup(r) PROVE IInv'
<1> DEFINE t == tx[r]
           m == members[t.group]
           step == IF t.op \in {"archive", "remove"} THEN "balance" ELSE "commit"
           u == [t EXCEPT !.seen = m, !.held = {t.group}, !.stale = {}, !.step = step]
<1>1. CASE Fail(r)
  BY <1>1, StepFail
<1>2. CASE Allowed(t, m) /\ Go(r, u)
  <2>1. /\ t \in Transaction /\ t.step = "lock" /\ t.op \in Grouped /\ t.group \in Group
        /\ t.op # "archive" => t.target \in User
        /\ t.actor \in User /\ GroupOk(t)
    BY Known DEF LockGroup, TxOk, Placed
  <2>2. m \in [User -> Member]
    BY <2>1 DEF IInv, TypeOK
  <2>3. Free(r, t.group) /\ Go(r, u)
    BY <1>2 DEF LockGroup
  <2>4. /\ m[t.actor].state = "in"
        /\ t.op = "add" => m[t.target].state # "in"
        /\ t.op = "remove" => Owners(m) # {t.target}
        /\ t.op = "role" => Owners(m) # {t.target} /\ m[t.target].state = "in"
        /\ t.op \in {"record", "friendExpense"} => Open(t.group) /\ m[t.target].state = "in"
    BY <1>2 DEF Allowed, MayAdd, MayRemove, MayChangeRole, MayRecord
  <2>5. step \in {"balance", "commit"} /\ (step = "balance" <=> t.op \in {"archive", "remove"})
    OBVIOUS
  <2>6. u = [t EXCEPT !.seen = m, !.held = {t.group}, !.stale = {}, !.step = step]
        /\ m = members[t.group]
    OBVIOUS
  <2> HIDE DEF t, u, m, step
  <2>7. /\ u \in Transaction /\ u.op = t.op /\ u.step = step /\ u.actor = t.actor
        /\ u.target = t.target /\ u.group = t.group /\ u.key = t.key /\ u.seen = m
        /\ u.held = {t.group} /\ u.stale = {}
    BY <2>1, <2>2, <2>5, <2>6 DEF Transaction
  <2>8. Placed(u) /\ Judged(u)
    BY <2>1, <2>4, <2>5, <2>7 DEF Placed, Judged, Grouped, Locked
  <2>9. /\ GroupOk(u) /\ KeyOk(u) /\ SeenOk(u) /\ PlanOk(u) /\ SettledOk(u)
        /\ RecordOk(u) /\ AcceptOk(u) /\ MakeOk(u)
    BY <2>1, <2>4, <2>5, <2>6, <2>7 DEF GroupOk, KeyOk, SeenOk, PlanOk, SettledOk, RecordOk,
       AcceptOk, MakeOk, Grouped, Locked
  <2>10. \A q \in Request \ {r} : u.held \intersect tx[q].held = {}
    BY <2>3, <2>7 DEF Free
  <2>11. QED
    BY <2>3, <2>7, <2>8, <2>9, <2>10, Moving DEF TxOk
<1>3. QED
  BY <1>1, <1>2 DEF LockGroup, Decided

LEMMA StepReadBalance == ASSUME IInv, NEW r \in Request, ReadBalance(r) PROVE IInv'
<1> DEFINE t == tx[r]
           u == [t EXCEPT !.step = "commit"]
<1>1. CASE Fail(r)
  BY <1>1, StepFail
<1>2. CASE Settled(r) /\ Go(r, u)
  <2>1. /\ t \in Transaction /\ TxOk(t) /\ t.step = "balance" /\ t.op \in {"archive", "remove"}
        /\ t.group \in Group /\ t.group \in t.held /\ t.actor \in User
        /\ t.op = "remove" => t.target \in User
    BY Known DEF ReadBalance, TxOk, Placed, Grouped, Locked
  <2>2. /\ t.op = "archive" => \A w \in User : Even(t.group, w)
        /\ t.op = "remove" => Even(t.group, t.target)
    BY <1>2, <2>1 DEF Settled, Even
  <2>3. u = [t EXCEPT !.step = "commit"] /\ Go(r, u)
    BY <1>2
  <2> HIDE DEF t, u
  <2>4. /\ u \in Transaction /\ u.op = t.op /\ u.step = "commit" /\ u.actor = t.actor
        /\ u.target = t.target /\ u.group = t.group /\ u.key = t.key /\ u.seen = t.seen
        /\ u.held = t.held /\ u.stale = t.stale
    BY <2>1, <2>3 DEF Transaction
  <2>5. Placed(u) /\ Judged(u)
    BY <2>1, <2>4 DEF TxOk, Placed, Judged, Grouped, Locked
  <2>6. /\ GroupOk(u) /\ KeyOk(u) /\ SeenOk(u) /\ PlanOk(u) /\ SettledOk(u)
        /\ RecordOk(u) /\ AcceptOk(u) /\ MakeOk(u)
    BY <2>1, <2>2, <2>4 DEF TxOk, GroupOk, KeyOk, SeenOk, PlanOk, SettledOk, RecordOk, AcceptOk,
       MakeOk, Locked
  <2>7. \A q \in Request \ {r} : u.held \intersect tx[q].held = {}
    BY <2>4 DEF t, IInv, LockInv
  <2>8. QED
    BY <2>3, <2>4, <2>5, <2>6, <2>7, Moving DEF TxOk
<1>3. QED
  BY <1>1, <1>2 DEF ReadBalance

LEMMA StepCheckInvitation == ASSUME IInv, NEW r \in Request, CheckInvitation(r) PROVE IInv'
<1> DEFINE t == tx[r]
           i == t.key
           row == invitations[i]
           g == row.group
           m == members[g]
           u == [t EXCEPT !.step = "commit", !.group = g, !.held = {i}, !.role = row.role,
                          !.seen = m, !.stale = {}]
<1>1. CASE Fail(r)
  BY <1>1, StepFail
<1>2. CASE row.state = "open" /\ Open(g) /\ t.actor \notin Active(g) /\ Go(r, u)
  <2>1. /\ t \in Transaction /\ t.step = "invitation" /\ t.op = "accept" /\ i \in Invitation
        /\ t.actor \in User /\ row.kind = "group" /\ row.state # "free"
    BY Known DEF CheckInvitation, At, TxOk, Placed, KeyOk
  <2>2. g \in Group /\ row.role \in Role
    BY <2>1 DEF IInv, SentInv, TypeOK, InvitationRow
  <2>3. m \in [User -> Member] /\ m[t.actor].state # "in" /\ groups[g].state = "open"
    BY <1>2, <2>1, <2>2 DEF IInv, TypeOK, Active, Open
  <2>4. Free(r, i) /\ row.state = "open" /\ Go(r, u) /\ m = members[g] /\ row = invitations[i]
    BY <1>2 DEF CheckInvitation
  <2>5. u = [t EXCEPT !.step = "commit", !.group = g, !.held = {i}, !.role = row.role,
                      !.seen = m, !.stale = {}]
    OBVIOUS
  <2>6. i = t.key
    OBVIOUS
  <2> HIDE DEF t, u, m, g, row, i
  <2>7. /\ u \in Transaction /\ u.op = "accept" /\ u.step = "commit" /\ u.actor = t.actor
        /\ u.group = g /\ u.key = i /\ u.seen = m /\ u.held = {i} /\ u.stale = {}
    BY <2>1, <2>2, <2>3, <2>5, <2>6 DEF Transaction
  <2>8. Placed(u) /\ Judged(u)
    BY <2>1, <2>2, <2>3, <2>7 DEF Placed, Judged, Grouped, Locked
  <2>9. GroupOk(u) /\ KeyOk(u) /\ SeenOk(u) /\ AcceptOk(u)
    BY <2>1, <2>2, <2>3, <2>4, <2>7 DEF GroupOk, KeyOk, SeenOk, AcceptOk
  <2>10. PlanOk(u) /\ SettledOk(u) /\ RecordOk(u) /\ MakeOk(u)
    BY <2>7 DEF PlanOk, SettledOk, RecordOk, MakeOk
  <2>11. \A q \in Request \ {r} : u.held \intersect tx[q].held = {}
    BY <2>4, <2>7 DEF Free
  <2>12. QED
    BY <2>4, <2>7, <2>8, <2>9, <2>10, <2>11, Moving DEF TxOk
<1>3. QED
  BY <1>1, <1>2 DEF CheckInvitation

LEMMA StepLockFriendInvitation ==
    ASSUME IInv, NEW r \in Request, LockFriendInvitation(r) PROVE IInv'
<1> DEFINE t == tx[r]
           i == t.key
           from == invitations[i].from
           u == [t EXCEPT !.step = "pair", !.target = from, !.held = {i}]
<1>1. CASE Fail(r)
  BY <1>1, StepFail
<1>2. CASE from \in alive \ {t.actor} /\ Go(r, u)
  <2>1. /\ t \in Transaction /\ t.step = "invitation" /\ t.op = "acceptFriend"
        /\ i \in Invitation /\ t.actor \in User /\ TxOk(t)
    BY Known DEF LockFriendInvitation, At, TxOk, Placed
  <2>2. from \in User /\ from # t.actor
    BY <1>2 DEF IInv, TypeOK
  <2>3. Free(r, i) /\ Go(r, u) /\ i = t.key
    BY <1>2 DEF LockFriendInvitation
  <2>4. u = [t EXCEPT !.step = "pair", !.target = from, !.held = {i}]
    OBVIOUS
  <2> HIDE DEF t, u, i, from
  <2>5. /\ u \in Transaction /\ u.op = "acceptFriend" /\ u.step = "pair" /\ u.actor = t.actor
        /\ u.target = from /\ u.group = t.group /\ u.key = i /\ u.held = {i}
    BY <2>1, <2>2, <2>3, <2>4 DEF Transaction
  <2>6. Placed(u) /\ Judged(u)
    BY <2>1, <2>2, <2>5 DEF Placed, Judged, Grouped, Locked
  <2>7. GroupOk(u) /\ KeyOk(u)
    BY <2>1, <2>3, <2>5 DEF TxOk, GroupOk, KeyOk
  <2>8. SeenOk(u) /\ PlanOk(u) /\ SettledOk(u) /\ RecordOk(u) /\ AcceptOk(u) /\ MakeOk(u)
    BY <2>5 DEF SeenOk, PlanOk, SettledOk, RecordOk, AcceptOk, MakeOk
  <2>9. \A q \in Request \ {r} : u.held \intersect tx[q].held = {}
    BY <2>3, <2>5 DEF Free
  <2>10. QED
    BY <2>3, <2>5, <2>6, <2>7, <2>8, <2>9, Moving DEF TxOk
<1>3. QED
  BY <1>1, <1>2 DEF LockFriendInvitation

\* The steps of a transaction that looks for a direct group.
LEMMA Pairing ==
    ASSUME IInv, NEW r \in Request, tx[r].step \in {"pair", "make"}
    PROVE  /\ tx[r] \in Transaction /\ TxOk(tx[r])
           /\ tx[r].op \in {"acceptFriend", "friendExpense"}
           /\ tx[r].actor \in User /\ tx[r].target \in User /\ tx[r].actor # tx[r].target
           /\ Founder(tx[r]) \in User /\ Guest(tx[r]) \in User
           /\ Founder(tx[r]) # Guest(tx[r])
           /\ {Founder(tx[r]), Guest(tx[r])} = {tx[r].actor, tx[r].target}
           /\ AfterPair(tx[r]) \in {"mark", "lock"}
           /\ AfterPair(tx[r]) = "lock" => tx[r].op = "friendExpense"
BY Known DEF TxOk, Placed, Founder, Guest, AfterPair

LEMMA StepFindDirectGroup == ASSUME IInv, NEW r \in Request, FindDirectGroup(r) PROVE IInv'
<1> DEFINE t == tx[r]
           found == DirectGroups(Founder(t), Guest(t))
<1>1. /\ t \in Transaction /\ TxOk(t) /\ t.step = "pair"
      /\ t.op \in {"acceptFriend", "friendExpense"}
      /\ t.actor \in User /\ t.target \in User /\ t.actor # t.target
      /\ {Founder(t), Guest(t)} = {t.actor, t.target} /\ Founder(t) \in User
      /\ AfterPair(t) \in {"mark", "lock"}
      /\ AfterPair(t) = "lock" => t.op = "friendExpense"
  BY Pairing DEF FindDirectGroup
<1>2. ASSUME NEW g \in found, Go(r, [t EXCEPT !.step = AfterPair(t), !.group = g])
      PROVE  IInv'
  <2> DEFINE u == [t EXCEPT !.step = AfterPair(t), !.group = g]
  <2>1. g \in Group /\ groups[g].state # "free"
    BY <1>1 DEF DirectGroups, Active, IInv, TypeOK
  <2>2. Go(r, u) /\ u = [t EXCEPT !.step = AfterPair(t), !.group = g]
    BY <1>2
  <2> HIDE DEF t, u
  <2>3. /\ u \in Transaction /\ u.op = t.op /\ u.step = AfterPair(t) /\ u.actor = t.actor
        /\ u.target = t.target /\ u.group = g /\ u.key = t.key /\ u.held = t.held
    BY <1>1, <2>1, <2>2 DEF Transaction
  <2>4. Placed(u) /\ Judged(u)
    BY <1>1, <2>1, <2>3 DEF TxOk, Placed, Judged, Grouped
  <2>5. /\ GroupOk(u) /\ SeenOk(u) /\ PlanOk(u) /\ SettledOk(u) /\ RecordOk(u)
        /\ AcceptOk(u) /\ MakeOk(u)
    BY <1>1, <2>1, <2>3 DEF GroupOk, SeenOk, PlanOk, SettledOk, RecordOk, AcceptOk, MakeOk
  <2>6. KeyOk(u)
    BY <1>1, <2>3 DEF TxOk, KeyOk
  <2>7. \A q \in Request \ {r} : u.held \intersect tx[q].held = {}
    BY <2>3 DEF t, IInv, LockInv
  <2>8. QED
    BY <2>2, <2>3, <2>4, <2>5, <2>6, <2>7, Moving DEF TxOk
<1>3. ASSUME found = {}, Go(r, [t EXCEPT !.step = "make"])
      PROVE  IInv'
  <2> DEFINE u == [t EXCEPT !.step = "make"]
  <2>1. DirectGroups(t.actor, t.target) = {}
    BY <1>1, <1>3 DEF DirectGroups
  <2>2. Go(r, u) /\ u = [t EXCEPT !.step = "make"]
    BY <1>3
  <2> HIDE DEF t, u
  <2>3. /\ u \in Transaction /\ u.op = t.op /\ u.step = "make" /\ u.actor = t.actor
        /\ u.target = t.target /\ u.group = t.group /\ u.key = t.key /\ u.held = t.held
    BY <1>1, <2>2 DEF Transaction
  <2>4. Placed(u) /\ Judged(u)
    BY <1>1, <2>3 DEF TxOk, Placed, Judged, Grouped
  <2>5. /\ GroupOk(u) /\ KeyOk(u) /\ SeenOk(u) /\ PlanOk(u) /\ SettledOk(u) /\ RecordOk(u)
        /\ AcceptOk(u) /\ MakeOk(u)
    BY <1>1, <2>1, <2>3 DEF TxOk, GroupOk, KeyOk, SeenOk, PlanOk, SettledOk, RecordOk, AcceptOk, MakeOk
  <2>6. \A q \in Request \ {r} : u.held \intersect tx[q].held = {}
    BY <2>3 DEF t, IInv, LockInv
  <2>7. QED
    BY <2>2, <2>3, <2>4, <2>5, <2>6, Moving DEF TxOk
<1>4. QED
  BY <1>2, <1>3 DEF FindDirectGroup

\* Nothing is planned for a group that is not the owner's.
LEMMA HeirOfOwner ==
    ASSUME NEW g \in Group, NEW u, NEW h \in Heir(g, u), h # None
    PROVE  Open(g) /\ RoleOf(g, u) = "owner"
<1>1. SUFFICES ASSUME ~Open(g) \/ RoleOf(g, u) # "owner" PROVE FALSE
  OBVIOUS
<1>2. Heir(g, u) = {None}
  BY <1>1 DEF Heir
<1>3. QED
  BY <1>2

LEMMA StepPlanDeletion == ASSUME IInv, NEW r \in Request, PlanDeletion(r) PROVE IInv'
<1> DEFINE t == tx[r]
<1>1. PICK plan \in [Group -> User \union {None}] :
          /\ \A g \in Group : plan[g] \in Heir(g, t.actor)
          /\ Go(r, [t EXCEPT !.step = "commit", !.plan = plan, !.stale = {}])
  BY DEF PlanDeletion
<1> DEFINE u == [t EXCEPT !.step = "commit", !.plan = plan, !.stale = {}]
<1>2. t \in Transaction /\ TxOk(t) /\ t.op = "delete" /\ t.actor \in User /\ t.step = "plan"
  BY Known DEF PlanDeletion, TxOk, Placed
<1>3. ASSUME NEW g \in Group, plan[g] # None PROVE members[g][t.actor].state # "none"
  <2>1. RoleOf(g, t.actor) = "owner"
    BY <1>1, <1>3, HeirOfOwner
  <2>2. QED
    BY <2>1 DEF RoleOf, Active
<1>4. Go(r, u) /\ u = [t EXCEPT !.step = "commit", !.plan = plan, !.stale = {}]
  BY <1>1
<1> HIDE DEF u
<1>5. /\ u \in Transaction /\ u.op = "delete" /\ u.step = "commit" /\ u.actor = t.actor
      /\ u.group = t.group /\ u.held = t.held /\ u.plan = plan /\ u.stale = {}
  BY <1>2, <1>4 DEF Transaction
<1>6. Placed(u) /\ Judged(u)
  BY <1>2, <1>5 DEF Placed, Judged, Grouped, Locked
<1>7. GroupOk(u) /\ KeyOk(u) /\ SeenOk(u) /\ SettledOk(u) /\ RecordOk(u) /\ AcceptOk(u) /\ MakeOk(u)
  BY <1>2, <1>5 DEF TxOk, GroupOk, KeyOk, SeenOk, SettledOk, RecordOk, AcceptOk, MakeOk, Locked
<1>8. PlanOk(u)
  BY <1>1, <1>3, <1>5 DEF PlanOk
<1>9. \A q \in Request \ {r} : u.held \intersect tx[q].held = {}
  BY <1>5 DEF IInv, LockInv
<1>10. QED
  BY <1>4, <1>5, <1>6, <1>7, <1>8, <1>9, Moving DEF TxOk

-----------------------------------------------------------------------------
(* What the commits have in common.                                        *)

LEMMA PairType ==
    /\ \A u, v \in User : u # v => {u, v} \in Pair
    /\ \A p \in Pair : p # {}
    /\ \A p \in Pair, u, v \in User : p \subseteq {u, v} => p = {u, v}
<1>1. \A u, v : /\ IsFiniteSet({u, v})
                /\ Cardinality({u, v}) = IF u = v THEN 1 ELSE 2
  <2>1. SUFFICES ASSUME NEW u, NEW v
                 PROVE  IsFiniteSet({u, v}) /\ Cardinality({u, v}) = IF u = v THEN 1 ELSE 2
    OBVIOUS
  <2>2. IsFiniteSet({u}) /\ Cardinality({u}) = 1 /\ {u} \union {v} = {u, v}
    BY FS_Singleton
  <2>3. QED
    BY <2>2, FS_AddElement
<1>2. \A u, v \in User : u # v => {u, v} \in Pair
  BY <1>1 DEF Pair
<1>3. \A p \in Pair : p # {}
  BY FS_EmptySet DEF Pair
<1>4. ASSUME NEW p \in Pair, NEW u \in User, NEW v \in User, p \subseteq {u, v}
      PROVE  p = {u, v}
  <2> DEFINE S == {u, v}
  <2>1. IsFiniteSet(S) /\ Cardinality(S) \in {1, 2}
    <3>1. IsFiniteSet({u, v}) /\ Cardinality({u, v}) = IF u = v THEN 1 ELSE 2
      BY <1>1
    <3>2. QED
      BY <3>1
  <2>2. Cardinality(p) = 2
    BY DEF Pair
  <2>3. p \in SUBSET S
    BY <1>4
  <2> HIDE DEF S
  <2>4. Cardinality(p) <= Cardinality(S) /\ (Cardinality(S) = Cardinality(p) => S = p)
    BY <2>1, <2>3, FS_Subset
  <2>5. S = p
    BY <2>1, <2>2, <2>4
  <2>6. QED
    BY <2>5 DEF S
<1>5. QED
  BY <1>2, <1>3, <1>4

LEMMA ByChanges ==
    ASSUME IInv, NEW r \in Request, NEW G \in SUBSET Group, NEW t, Changes(r, G, t)
    PROVE  /\ tx' = [q \in Request |-> tx'[q]] /\ tx'[r] = t
           /\ \A q \in Request \ {r} : Kept(q, r, G)
           /\ raced' = raced \union (G \intersect tx[r].stale) /\ workload' = workload
BY DEF Changes, Kept

LEMMA ByClose ==
    ASSUME IInv, NEW r \in Request, Close(r)
    PROVE  /\ tx' = [q \in Request |-> tx'[q]] /\ tx'[r] = Done
           /\ \A q \in Request \ {r} : Kept(q, r, {})
           /\ workload' = workload
BY DEF Close, Kept, IInv, TypeOK

\* Nobody comes into a direct group but by making his pairs ambiguous.
LEMMA PairsKept ==
    ASSUME IInv, twins \subseteq twins',
           \A g \in Group, u \in User :
               groups'[g].direct /\ members'[g][u].state = "in" =>
                   \/ groups[g].direct /\ members[g][u].state = "in"
                   \/ \A p \in Pair : u \in p => p \in twins'
    PROVE  /\ PairInv'
           /\ \A u, v \in User : u # v /\ Single(u, v) => Single(u, v)'
<1>1. ASSUME NEW p \in Pair \ twins', NEW g \in Group, groups'[g].direct,
             \A u \in p : u \in User /\ members'[g][u].state = "in"
      PROVE  groups[g].direct /\ \A u \in p : members[g][u].state = "in"
  <2>1. \A u \in p : groups[g].direct /\ members[g][u].state = "in"
    BY <1>1
  <2>2. QED
    BY <2>1, PairType
<1>2. ASSUME NEW p \in Pair \ twins', NEW g \in Group, groups'[g].direct, p \subseteq Active(g)'
      PROVE  groups[g].direct /\ p \subseteq Active(g)
  <2>1. \A u \in p : u \in User /\ members'[g][u].state = "in"
    BY <1>2 DEF Active
  <2>2. QED
    BY <1>1, <1>2, <2>1 DEF Active
<1>3. PairInv'
  <2>1. SUFFICES ASSUME NEW p \in Pair \ twins', NEW g \in Group, NEW h \in Group,
                        groups'[g].direct, p \subseteq Active(g)',
                        groups'[h].direct, p \subseteq Active(h)'
                 PROVE  g = h
    BY DEF PairInv
  <2>2. p \in Pair \ twins
    OBVIOUS
  <2>3. /\ groups[g].direct /\ p \subseteq Active(g)
        /\ groups[h].direct /\ p \subseteq Active(h)
    BY <1>2, <2>1
  <2>4. QED
    BY <2>2, <2>3 DEF IInv, PairInv
<1>4. ASSUME NEW u \in User, NEW v \in User, u # v, Single(u, v)
      PROVE  Single(u, v)'
  <2>1. SUFFICES ASSUME {u, v} \notin twins'
                 PROVE  DirectGroups(u, v)' = {}
    BY DEF Single
  <2>2. SUFFICES ASSUME NEW g \in Group, groups'[g].direct, {u, v} \subseteq Active(g)'
                 PROVE  FALSE
    BY DEF DirectGroups
  <2>3. {u, v} \in Pair \ twins'
    BY <1>4, <2>1, PairType
  <2>4. groups[g].direct /\ {u, v} \subseteq Active(g)
    BY <1>2, <2>2, <2>3
  <2>5. DirectGroups(u, v) = {}
    BY <1>4, <2>1 DEF Single
  <2>6. QED
    BY <2>4, <2>5 DEF DirectGroups
<1>5. QED
  BY <1>3, <1>4

LEMMA ArchivedRow ==
    ASSUME NEW row \in GroupRow, NEW new, new = [row EXCEPT !.state = "archived"]
    PROVE  new \in GroupRow /\ new.state = "archived" /\ new.direct = row.direct
BY DEF GroupRow

LEMMA AcceptedRow ==
    ASSUME NEW row \in InvitationRow, NEW new, new = [row EXCEPT !.state = "accepted"]
    PROVE  /\ new \in InvitationRow /\ new.state = "accepted"
           /\ new.kind = row.kind /\ new.group = row.group
BY DEF InvitationRow

\* A commit that writes the row of one group, or those of its members.
Regroup(r, g, row) ==
    /\ Changes(r, {g}, Done)
    /\ \/ tx[r].op \in Locked /\ g \in tx[r].held
       \/ /\ tx[r].op \notin Locked /\ groups' = groups
          /\ \A u \in User : members[g][u].state = "in" => members'[g][u].state = "in"
    /\ UNCHANGED <<alive, balance, drift, lost>>
    /\ groups[g].state # "free"
    /\ groups' = groups \/ groups' = [groups EXCEPT ![g].state = "archived"]
    /\ members' = [members EXCEPT ![g] = row]
    /\ \A u \in User : /\ row[u].state # "none" => u \in alive
                       /\ members[g][u].state # "none" => row[u].state # "none"
    /\ twins \subseteq twins' /\ twins' \subseteq Pair
    /\ \A u \in User : row[u].state = "in" =>
          \/ members[g][u].state = "in"
          \/ groups[g].direct => \A p \in Pair : u \in p => p \in twins'
    /\ invitations' \in [Invitation -> InvitationRow] /\ used' \in [Invitation -> Nat]
    /\ \A i \in Invitation :
          /\ invitations[i].state # "free" =>
                invitations'[i].state # "free" /\ invitations'[i].kind = invitations[i].kind
          /\ \A q \in Request \ {r} : i \in tx[q].held /\ invitations[i].state = "open" =>
                invitations'[i].state = "open"
    /\ UsedInv' /\ SentInv'
    /\ groups'[g].state = "open" /\ g \notin raced /\ g \notin tx[r].stale
          /\ Owners(members[g]) # {} => Owners(row) # {}
    /\ \A u \in alive :
          row[u].state # "in" \/ (groups'[g].state # "open" /\ g \notin raced') =>
              \/ members[g][u].state # "in"
              \/ groups[g].state # "open" /\ g \notin raced
              \/ Even(g, u)

LEMMA Regrouping ==
    ASSUME IInv, NEW r \in Request, NEW g \in Group, NEW row \in [User -> Member],
           Regroup(r, g, row)
    PROVE  IInv'
<1> USE DEF Regroup
<1>1. /\ tx' = [q \in Request |-> tx'[q]] /\ tx'[r] = Done
      /\ \A q \in Request \ {r} : Kept(q, r, {g})
      /\ raced' = raced \union ({g} \intersect tx[r].stale) /\ workload' = workload
  BY ByChanges
<1>2. /\ groups \in [Group -> GroupRow] /\ members \in [Group -> [User -> Member]]
      /\ groups' \in [Group -> GroupRow] /\ members' \in [Group -> [User -> Member]]
      /\ members'[g] = row
      /\ \A h \in Group \ {g} : members'[h] = members[h] /\ groups'[h] = groups[h]
      /\ \A h \in Group : groups'[h].direct = groups[h].direct
      /\ groups'[g].state # "free"
  <2>1. groups \in [Group -> GroupRow] /\ members \in [Group -> [User -> Member]]
    BY DEF IInv, TypeOK
  <2>2. /\ members' \in [Group -> [User -> Member]] /\ members'[g] = row
        /\ \A h \in Group \ {g} : members'[h] = members[h]
    BY <2>1
  <2>3. /\ groups' \in [Group -> GroupRow] /\ groups'[g].state # "free"
        /\ groups'[g].direct = groups[g].direct
        /\ \A h \in Group \ {g} : groups'[h] = groups[h]
    <3>1. CASE groups' = groups
      BY <2>1, <3>1
    <3>2. CASE groups' = [groups EXCEPT ![g].state = "archived"]
      <4> DEFINE new == [groups[g] EXCEPT !.state = "archived"]
      <4>1. groups[g] \in GroupRow /\ new = [groups[g] EXCEPT !.state = "archived"]
        BY <2>1
      <4>2. groups' = [groups EXCEPT ![g] = new]
        BY <3>2
      <4> HIDE DEF new
      <4>3. new \in GroupRow /\ new.state = "archived" /\ new.direct = groups[g].direct
        BY <4>1, ArchivedRow
      <4>4. QED
        BY <2>1, <4>2, <4>3
    <3>3. QED
      BY <3>1, <3>2
  <2>4. QED
    BY <2>1, <2>2, <2>3
<1>3. \A q \in Request \ {r} : tx[r].op \in Locked => g \notin tx[q].held
  BY DEF IInv, LockInv
<1>4. PairInv' /\ \A u, v \in User : u # v /\ Single(u, v) => Single(u, v)'
  <2>1. \A h \in Group, u \in User :
            groups'[h].direct /\ members'[h][u].state = "in" =>
                \/ groups[h].direct /\ members[h][u].state = "in"
                \/ \A p \in Pair : u \in p => p \in twins'
    BY <1>2
  <2>2. QED
    BY <2>1, PairsKept
<1>5. Frame(r, {g})
  <2>1. /\ alive' \subseteq alive
        /\ \A h \in Group : groups[h].state # "free" => groups'[h].state # "free"
        /\ \A h \in Group \ {g} : /\ members'[h] = members[h]
                                  /\ groups'[h].state = groups[h].state
        /\ tx[r].op \in Locked => {g} \subseteq tx[r].held
        /\ \A h \in Group, u \in alive' :
              members[h][u].state # "none" => members'[h][u].state # "none"
    <3>1. alive \subseteq User
      BY DEF IInv, TypeOK
    <3>2. QED
      BY <1>2, <3>1
  <2>2. ASSUME NEW q \in Request \ {r}, NEW h \in Group, h \in tx[q].held
        PROVE  /\ Open(h) => Open(h)'
               /\ \A u \in alive' : members[h][u].state = "in" => members'[h][u].state = "in"
               /\ \A u \in User : Even(h, u) => Even(h, u)'
    <3>1. alive \subseteq User
      BY DEF IInv, TypeOK
    <3>2. QED
      BY <1>2, <1>3, <2>2, <3>1 DEF Open, Even
  <2>3. QED
    BY <1>4, <2>1, <2>2 DEF Frame
<1>6. RowsOk'
  <2>1. \A h \in Group, u \in User :
            members'[h][u].state # "none" => u \in alive' /\ groups'[h].state # "free"
    BY <1>2 DEF IInv, TypeOK
  <2>2. raced' \subseteq Group /\ lost' \subseteq Invitation
    BY <1>1 DEF IInv, TypeOK
  <2>3. QED
    BY <1>1, <1>2, <2>1, <2>2 DEF IInv, TypeOK, RowsOk
<1>7. OwnerLostOnlyInRace'
  <2>1. SUFFICES ASSUME NEW h \in Group, groups'[h].state = "open", h \notin raced'
                 PROVE  Owners(members'[h]) # {}
    BY DEF OwnerLostOnlyInRace, Open
  <2>2. CASE h # g
    BY <1>1, <1>2, <2>1, <2>2 DEF IInv, OwnerLostOnlyInRace, Open
  <2>3. CASE h = g
    <3>1. groups[g].state = "open" /\ g \notin raced /\ g \notin tx[r].stale
      BY <1>1, <1>2, <2>1, <2>3 DEF GroupRow
    <3>2. Owners(members[g]) # {}
      BY <3>1 DEF IInv, OwnerLostOnlyInRace, Open
    <3>3. QED
      BY <1>2, <2>1, <2>3, <3>1, <3>2
  <2>4. QED
    BY <2>2, <2>3
<1>8. SettledInv'
  <2>1. SUFFICES ASSUME NEW h \in Group, NEW u \in alive,
                        \/ members'[h][u].state # "in"
                        \/ groups'[h].state # "open" /\ h \notin raced'
                 PROVE  Even(h, u)
    BY DEF SettledInv, Open, Even
  <2>2. CASE h # g
    BY <1>1, <1>2, <2>1, <2>2 DEF IInv, SettledInv, Open
  <2>3. CASE h = g
    <3>1. \/ row[u].state # "in"
          \/ groups'[g].state # "open" /\ g \notin raced'
      BY <1>2, <2>1, <2>3
    <3>2. \/ members[g][u].state # "in"
          \/ groups[g].state # "open" /\ g \notin raced
          \/ Even(g, u)
      BY <3>1
    <3>3. members[g][u].state # "in" \/ (~Open(g) /\ g \notin raced) => Even(g, u)
      BY <3>1 DEF IInv, SettledInv
    <3>4. QED
      BY <2>3, <3>2, <3>3 DEF Open
  <2>4. QED
    BY <2>2, <2>3
<1>9. Done.held = {} /\ Done \in Transaction
  BY NewType
<1>10. QED
  BY <1>1, <1>4, <1>5, <1>6, <1>7, <1>8, <1>9, DoneOk, Committing


LEMMA StepCommitArchive == ASSUME IInv, NEW r \in Request, CommitArchive(r) PROVE IInv'
<1> DEFINE t == tx[r]
           g == t.group
           row == members[g]
<1>1. /\ t \in Transaction /\ TxOk(t) /\ t.op = "archive" /\ t.step = "commit"
      /\ t.op \in Locked /\ g \in Group /\ g \in t.held
  BY Known DEF CommitArchive, At, TxOk, Placed, Grouped, Locked
<1>2. groups[g].state # "free" /\ \A u \in User : Even(g, u)
  BY <1>1 DEF TxOk, GroupOk, SettledOk
<1>3. /\ members \in [Group -> [User -> Member]] /\ row \in [User -> Member]
      /\ members' = [members EXCEPT ![g] = row] /\ alive \subseteq User
      /\ groups \in [Group -> GroupRow]
      /\ \A u \in User : row[u].state # "none" => u \in alive
  BY <1>1 DEF CommitArchive, IInv, TypeOK
<1>4. groups'[g].state = "archived"
  BY <1>1, <1>3 DEF CommitArchive, GroupRow
<1>5. /\ twins' \subseteq Pair /\ invitations' \in [Invitation -> InvitationRow]
      /\ used' \in [Invitation -> Nat] /\ UsedInv' /\ SentInv'
  BY DEF CommitArchive, IInv, TypeOK, UsedInv, SentInv
<1>6. /\ UNCHANGED <<alive, balance, drift, lost, invitations, used, twins>>
      /\ groups' = [groups EXCEPT ![g].state = "archived"] /\ Changes(r, {g}, Done)
  BY DEF CommitArchive
<1> HIDE DEF t, g, row
<1>7. \/ tx[r].op \in Locked /\ g \in tx[r].held
      \/ /\ tx[r].op \notin Locked /\ groups' = groups
         /\ \A u \in User : members[g][u].state = "in" => members'[g][u].state = "in"
  BY <1>1 DEF t
<1>8. row = members[g]
  BY DEF row
<1>9. Regroup(r, g, row)
  BY <1>1, <1>2, <1>3, <1>4, <1>5, <1>6, <1>7, <1>8 DEF Regroup
<1>10. QED
  BY <1>1, <1>3, <1>9, Regrouping

\* Whoever joins is in, with the role that was given or had before.
LEMMA JoinedType ==
    ASSUME NEW seen \in Member, NEW now \in Member, NEW role \in Role
    PROVE  Joined(seen, now, role) \in Member /\ Joined(seen, now, role).state = "in"
<1>1. \A x \in Role : In(x) \in Member /\ In(x).state = "in"
  BY DEF In, Member
<1>2. now.role \in Role
  BY DEF Member, NoMember, Role
<1>3. QED
  BY <1>1, <1>2 DEF Joined

\* Somebody who is not in joins: the owners stay.
Joins(r, g, u, row) ==
    /\ row \in [User -> Member]
    /\ \A v \in User \ {u} : row[v] = members[g][v]
    /\ row[u].state = "in"
    /\ \A v \in User : row[v].state # "none" => v \in alive
    /\ \A v \in User : members[g][v].state # "none" => row[v].state # "none"
    /\ \A v \in User : members[g][v].state = "in" => row[v].state = "in"
    /\ g \notin tx[r].stale /\ Owners(members[g]) # {} => Owners(row) # {}

LEMMA Joining ==
    ASSUME IInv, NEW r \in Request, NEW g \in Group, NEW u \in User, NEW j \in Member,
           NEW row, row = [members[g] EXCEPT ![u] = j], j.state = "in",
           u \in alive, tx[r].seen[u].state # "in",
           g \in tx[r].stale \/ members[g] = tx[r].seen
    PROVE  Joins(r, g, u, row)
<1>1. members[g] \in [User -> Member] /\ \A v \in User : members[g][v].state # "none" => v \in alive
  BY DEF IInv, TypeOK
<1>2. /\ row \in [User -> Member] /\ row[u] = j
      /\ \A v \in User \ {u} : row[v] = members[g][v]
  BY <1>1
<1>3. ASSUME g \notin tx[r].stale, NEW o \in Owners(members[g])
      PROVE  Owners(row) # {}
  <2>1. o \in User /\ members[g][o] = In("owner") /\ members[g][o].state = "in"
    BY <1>3 DEF Owners, In
  <2>2. o # u
    BY <1>3, <2>1
  <2>3. QED
    BY <1>2, <2>1, <2>2 DEF Owners
<1>4. QED
  BY <1>1, <1>2, <1>3 DEF Joins

LEMMA StepCommitAdd == ASSUME IInv, NEW r \in Request, CommitAdd(r) PROVE IInv'
<1> DEFINE t == tx[r]
           g == t.group
           u == t.target
           j == Joined(t.seen[u], members[g][u], t.role)
           row == [members[g] EXCEPT ![u] = j]
<1>1. CASE ~CanJoin(g, u, t.seen[u])
  BY <1>1, StepFail DEF CommitAdd
<1>2. CASE CanJoin(g, u, t.seen[u])
  <2>1. /\ t \in Transaction /\ TxOk(t) /\ t.op = "add" /\ t.step = "commit"
        /\ t.op \in Locked /\ g \in Group /\ g \in t.held /\ u \in User
    BY Known DEF CommitAdd, At, TxOk, Placed, Grouped, Locked
  <2>2. /\ groups[g].state # "free" /\ t.seen[u].state # "in"
        /\ g \in t.stale \/ members[g] = t.seen
    BY <2>1 DEF TxOk, GroupOk, SeenOk, Judged
  <2>3. u \in alive
    BY <1>2 DEF CanJoin
  <2>4. members[g][u] \in Member /\ t.seen[u] \in Member /\ t.role \in Role
        /\ members \in [Group -> [User -> Member]]
    BY <2>1 DEF IInv, TypeOK, Transaction
  <2>5. j \in Member /\ j.state = "in"
    BY <2>4, JoinedType
  <2>6. /\ members' = [members EXCEPT ![g] = row]
        /\ twins' = twins \union NewPairs(g, u) /\ Changes(r, {g}, Done)
        /\ UNCHANGED <<alive, groups, balance, invitations, used, drift, lost>>
    BY <1>2, <2>1, <2>4 DEF CommitAdd
  <2>7. row = [members[g] EXCEPT ![u] = j]
    OBVIOUS
  <2> HIDE DEF j, row
  <2>8. Joins(r, g, u, row)
    <3> HIDE DEF g, u
    <3>1. QED
      BY <2>1, <2>2, <2>3, <2>5, <2>7, Joining
  <2>9. /\ twins \subseteq twins' /\ twins' \subseteq Pair
        /\ groups[g].direct => \A p \in Pair : u \in p => p \in twins'
    BY <2>6 DEF NewPairs, IInv, TypeOK
  <2>10. /\ invitations' \in [Invitation -> InvitationRow]
         /\ used' \in [Invitation -> Nat] /\ UsedInv' /\ SentInv'
    BY <2>6 DEF IInv, TypeOK, UsedInv, SentInv
  <2>11. \/ tx[r].op \in Locked /\ g \in tx[r].held
         \/ /\ tx[r].op \notin Locked /\ groups' = groups
            /\ \A v \in User : members[g][v].state = "in" => members'[g][v].state = "in"
    BY <2>1
  <2>12. \A v \in User : row[v].state = "in" =>
             \/ members[g][v].state = "in"
             \/ groups[g].direct => \A p \in Pair : v \in p => p \in twins'
    BY <2>8, <2>9 DEF Joins
  <2>13. \A v \in alive :
             row[v].state # "in" \/ (groups'[g].state # "open" /\ g \notin raced') =>
                 \/ members[g][v].state # "in"
                 \/ groups[g].state # "open" /\ g \notin raced
                 \/ Even(g, v)
    <3>1. alive \subseteq User /\ (g \notin raced' => g \notin raced)
      BY <2>6 DEF IInv, TypeOK, Changes
    <3>2. QED
      BY <2>6, <2>8, <3>1 DEF Joins
  <2> HIDE DEF t, g, u
  <2>14. Regroup(r, g, row)
    BY <2>2, <2>6, <2>8, <2>9, <2>10, <2>11, <2>12, <2>13 DEF Regroup, Joins
  <2>15. QED
    BY <2>1, <2>8, <2>14, Regrouping DEF Joins
<1>3. QED
  BY <1>1, <1>2

LEMMA StepCommitRemove == ASSUME IInv, NEW r \in Request, CommitRemove(r) PROVE IInv'
<1> DEFINE t == tx[r]
           g == t.group
           u == t.target
           j == [members[g][u] EXCEPT !.state = "left"]
           row == [members[g] EXCEPT ![u] = j]
<1>1. CASE members[g][u].state = "none"
  BY <1>1, StepFail DEF CommitRemove
<1>2. CASE members[g][u].state # "none"
  <2>1. /\ t \in Transaction /\ TxOk(t) /\ t.op = "remove" /\ t.step = "commit"
        /\ t.op \in Locked /\ g \in Group /\ g \in t.held /\ u \in User
    BY Known DEF CommitRemove, At, TxOk, Placed, Grouped, Locked
  <2>2. /\ groups[g].state # "free" /\ Owners(t.seen) # {u}
        /\ g \in t.stale \/ members[g] = t.seen
        /\ Even(g, u)
    BY <2>1 DEF TxOk, GroupOk, SeenOk, Judged, SettledOk
  <2>3. /\ members \in [Group -> [User -> Member]] /\ members[g] \in [User -> Member]
        /\ \A v \in User : members[g][v].state # "none" => v \in alive
    BY <2>1 DEF IInv, TypeOK
  <2>4. j \in Member /\ j.state = "left"
    BY <1>2, <2>1, <2>3 DEF Member, NoMember
  <2>5. /\ members' = [members EXCEPT ![g] = row] /\ Changes(r, {g}, Done)
        /\ UNCHANGED <<alive, groups, balance, invitations, used, drift, twins, lost>>
    BY <1>2, <2>1, <2>3 DEF CommitRemove
  <2>6. row = [members[g] EXCEPT ![u] = j]
    OBVIOUS
  <2> HIDE DEF j, row
  <2>7. /\ row \in [User -> Member] /\ row[u].state = "left"
        /\ \A v \in User \ {u} : row[v] = members[g][v]
    BY <2>1, <2>3, <2>4, <2>6
  <2>8. ASSUME g \notin t.stale, Owners(members[g]) # {}
        PROVE  Owners(row) # {}
    <3>1. PICK o \in Owners(members[g]) : o # u
      BY <2>2, <2>8
    <3>2. QED
      BY <2>7, <3>1 DEF Owners
  <2>9. /\ twins' \subseteq Pair /\ invitations' \in [Invitation -> InvitationRow]
        /\ used' \in [Invitation -> Nat] /\ UsedInv' /\ SentInv'
    BY <2>5 DEF IInv, TypeOK, UsedInv, SentInv
  <2>10. /\ alive \subseteq User /\ (g \notin raced' => g \notin raced)
    BY <2>5 DEF IInv, TypeOK, Changes
  <2>11. \A v \in alive :
             row[v].state # "in" \/ (groups'[g].state # "open" /\ g \notin raced') =>
                 \/ members[g][v].state # "in"
                 \/ groups[g].state # "open" /\ g \notin raced
                 \/ Even(g, v)
    BY <2>2, <2>5, <2>7, <2>10
  <2>12. /\ \A v \in User : /\ row[v].state # "none" => v \in alive
                            /\ members[g][v].state # "none" => row[v].state # "none"
         /\ \A v \in User : row[v].state = "in" => members[g][v].state = "in"
    BY <1>2, <2>3, <2>7
  <2>13. Regroup(r, g, row)
    BY <2>1, <2>2, <2>5, <2>8, <2>9, <2>11, <2>12 DEF Regroup
  <2>14. QED
    BY <2>1, <2>7, <2>13, Regrouping
<1>3. QED
  BY <1>1, <1>2

LEMMA StepCommitRole == ASSUME IInv, NEW r \in Request, CommitRole(r) PROVE IInv'
<1> DEFINE t == tx[r]
           g == t.group
           u == t.target
           Written == {u} \union IF HandsOver(t) THEN {t.actor} ELSE {}
           row == [v \in User |->
                      IF v \notin Written THEN members[g][v]
                      ELSE [members[g][v] EXCEPT !.role = IF v = u THEN t.role ELSE "admin"]]
<1>1. CASE \E v \in Written : members[g][v].state = "none"
  BY <1>1, StepFail DEF CommitRole
<1>2. CASE \A v \in Written : members[g][v].state # "none"
  <2>1. /\ t \in Transaction /\ TxOk(t) /\ t.op = "role" /\ t.step = "commit"
        /\ t.op \in Locked /\ g \in Group /\ g \in t.held /\ u \in User /\ t.role \in Role
    BY Known DEF CommitRole, At, TxOk, Placed, Grouped, Locked, Transaction
  <2>2. /\ groups[g].state # "free" /\ Owners(t.seen) # {u} /\ t.seen[u].state = "in"
        /\ g \in t.stale \/ members[g] = t.seen
    BY <2>1 DEF TxOk, GroupOk, SeenOk, Judged
  <2>3. /\ members \in [Group -> [User -> Member]] /\ members[g] \in [User -> Member]
        /\ \A v \in User : members[g][v].state # "none" => v \in alive
    BY <2>1 DEF IInv, TypeOK
  <2>4. /\ members' = [members EXCEPT ![g] = row] /\ Changes(r, {g}, Done)
        /\ UNCHANGED <<alive, groups, balance, invitations, used, drift, twins, lost>>
    BY <1>2, <2>1, <2>3 DEF CommitRole
  <2>5. ASSUME NEW v \in User
        PROVE  /\ row[v] \in Member /\ row[v].state = members[g][v].state
               /\ v \notin Written => row[v] = members[g][v]
               /\ v = u => row[v].role = t.role
    <3>1. CASE v \notin Written
      BY <2>3, <3>1
    <3>2. CASE v \in Written
      <4> DEFINE role == IF v = u THEN t.role ELSE "admin"
                 old == members[g][v]
      <4>1. old \in Member /\ old.state # "none" /\ role \in Role
        BY <1>2, <2>1, <2>3, <3>2 DEF Role
      <4>2. row[v] = [old EXCEPT !.role = role] /\ (v = u => role = t.role)
        BY <3>2
      <4> HIDE DEF old, role, row
      <4>3. old \in [role: Role, state: {"in", "left"}]
        BY <4>1 DEF Member, NoMember
      <4>4. row[v] \in Member /\ row[v].state = old.state /\ row[v].role = role
        BY <4>1, <4>2, <4>3 DEF Member
      <4>5. QED
        BY <3>2, <4>2, <4>4 DEF old
    <3>3. QED
      BY <3>1, <3>2
  <2>6. row \in [User -> Member]
    <3>1. row = [v \in User |-> row[v]]
      OBVIOUS
    <3> HIDE DEF row
    <3>2. QED
      BY <2>5, <3>1
  <2>7. ASSUME g \notin t.stale, Owners(members[g]) # {}
        PROVE  Owners(row) # {}
    <3>1. CASE t.role = "owner"
      <4>1. row[u].role = "owner" /\ row[u].state = "in" /\ row[u] \in Member
        BY <2>1, <2>2, <2>5, <2>7, <3>1
      <4>2. row[u] = In("owner")
        <5> HIDE DEF row
        <5>1. QED
          BY <4>1 DEF Member, NoMember, In
      <4>3. QED
        BY <2>1, <4>2 DEF Owners
    <3>2. CASE t.role # "owner"
      <4>1. Written = {u}
        BY <3>2 DEF HandsOver
      <4>2. PICK o \in Owners(members[g]) : o # u
        BY <2>2, <2>7
      <4>3. o \in User /\ row[o] = members[g][o]
        BY <2>5, <4>1, <4>2 DEF Owners
      <4>4. QED
        BY <4>2, <4>3 DEF Owners
    <3>3. QED
      BY <3>1, <3>2
  <2> HIDE DEF row
  <2>8. /\ twins' \subseteq Pair /\ invitations' \in [Invitation -> InvitationRow]
        /\ used' \in [Invitation -> Nat] /\ UsedInv' /\ SentInv'
    BY <2>4 DEF IInv, TypeOK, UsedInv, SentInv
  <2>9. /\ alive \subseteq User /\ (g \notin raced' => g \notin raced)
    BY <2>4 DEF IInv, TypeOK, Changes
  <2>10. \A v \in alive :
             row[v].state # "in" \/ (groups'[g].state # "open" /\ g \notin raced') =>
                 \/ members[g][v].state # "in"
                 \/ groups[g].state # "open" /\ g \notin raced
                 \/ Even(g, v)
    BY <2>4, <2>5, <2>9
  <2>11. Regroup(r, g, row)
    BY <2>1, <2>2, <2>3, <2>4, <2>5, <2>7, <2>8, <2>10 DEF Regroup
  <2>12. QED
    BY <2>1, <2>6, <2>11, Regrouping
<1>3. QED
  BY <1>1, <1>2

LEMMA StepCommitAccept == ASSUME IInv, NEW r \in Request, CommitAccept(r) PROVE IInv'
<1> DEFINE t == tx[r]
           g == t.group
           u == t.actor
           k == t.key
           j == Joined(t.seen[u], members[g][u], t.role)
           row == [members[g] EXCEPT ![u] = j]
<1>1. CASE ~CanJoin(g, u, t.seen[u])
  BY <1>1, StepFail DEF CommitAccept
<1>2. CASE CanJoin(g, u, t.seen[u])
  <2>1. /\ t \in Transaction /\ TxOk(t) /\ t.op = "accept" /\ t.step = "commit"
        /\ t.op \notin Locked /\ g \in Group /\ u \in User /\ k \in Invitation /\ k \in t.held
    BY Known DEF CommitAccept, At, TxOk, Placed, Grouped, Locked
  <2>2. /\ groups[g].state # "free" /\ t.seen[u].state # "in"
        /\ g \in t.stale \/ members[g] = t.seen
        /\ invitations[k].state = "open" /\ invitations[k].kind = "group"
    BY <2>1 DEF TxOk, GroupOk, KeyOk, SeenOk, Judged, AcceptOk
  <2>3. u \in alive
    BY <1>2 DEF CanJoin
  <2>4. members[g][u] \in Member /\ t.seen[u] \in Member /\ t.role \in Role
        /\ members \in [Group -> [User -> Member]]
        /\ invitations \in [Invitation -> InvitationRow] /\ used \in [Invitation -> Nat]
    BY <2>1 DEF IInv, TypeOK, Transaction
  <2>5. j \in Member /\ j.state = "in"
    BY <2>4, JoinedType
  <2>6. /\ members' = [members EXCEPT ![g] = row]
        /\ invitations' = [invitations EXCEPT ![k].state = "accepted"]
        /\ used' = [used EXCEPT ![k] = used[k] + 1]
        /\ twins' = twins \union NewPairs(g, u) /\ Changes(r, {g}, Done)
        /\ UNCHANGED <<alive, groups, balance, drift, lost>>
    BY <1>2, <2>1, <2>4 DEF CommitAccept
  <2>7. row = [members[g] EXCEPT ![u] = j]
    OBVIOUS
  <2> HIDE DEF j, row
  <2>8. Joins(r, g, u, row)
    <3> HIDE DEF g, u
    <3>1. QED
      BY <2>1, <2>2, <2>3, <2>5, <2>7, Joining
  <2>9. /\ twins \subseteq twins' /\ twins' \subseteq Pair
        /\ groups[g].direct => \A p \in Pair : u \in p => p \in twins'
    BY <2>6 DEF NewPairs, IInv, TypeOK
  <2>10. /\ invitations' \in [Invitation -> InvitationRow]
         /\ invitations'[k].state = "accepted" /\ invitations'[k].kind = "group"
         /\ invitations'[k].group = invitations[k].group
         /\ \A i \in Invitation \ {k} : invitations'[i] = invitations[i]
    <3> DEFINE new == [invitations[k] EXCEPT !.state = "accepted"]
    <3>1. invitations[k] \in InvitationRow /\ new = [invitations[k] EXCEPT !.state = "accepted"]
      BY <2>1, <2>4
    <3>2. invitations' = [invitations EXCEPT ![k] = new]
      BY <2>6
    <3> HIDE DEF new
    <3>3. /\ new \in InvitationRow /\ new.state = "accepted" /\ new.kind = "group"
          /\ new.group = invitations[k].group
      BY <2>2, <3>1, AcceptedRow
    <3> HIDE DEF k
    <3>4. QED
      BY <2>1, <2>4, <3>2, <3>3
  <2>11. used[k] = 0
    BY <2>1, <2>2 DEF IInv, UsedInv
  <2>12. /\ used' \in [Invitation -> Nat] /\ used'[k] = 1
         /\ \A i \in Invitation \ {k} : used'[i] = used[i]
    BY <2>1, <2>4, <2>6, <2>11
  <2>13. UsedInv' /\ SentInv'
    BY <2>1, <2>2, <2>10, <2>12 DEF IInv, UsedInv, SentInv
  <2>14. \A i \in Invitation :
             /\ invitations[i].state # "free" =>
                   invitations'[i].state # "free" /\ invitations'[i].kind = invitations[i].kind
             /\ \A q \in Request \ {r} : i \in tx[q].held /\ invitations[i].state = "open" =>
                   invitations'[i].state = "open"
    <3>1. \A q \in Request \ {r} : k \notin tx[q].held
      BY <2>1 DEF IInv, LockInv
    <3>2. QED
      BY <2>2, <2>10, <3>1
  <2>15. \A v \in alive :
             row[v].state # "in" \/ (groups'[g].state # "open" /\ g \notin raced') =>
                 \/ members[g][v].state # "in"
                 \/ groups[g].state # "open" /\ g \notin raced
                 \/ Even(g, v)
    <3>1. alive \subseteq User /\ (g \notin raced' => g \notin raced)
      BY <2>6 DEF IInv, TypeOK, Changes
    <3>2. QED
      BY <2>6, <2>8, <3>1 DEF Joins
  <2>16. /\ members'[g] = row /\ members[g] \in [User -> Member]
         /\ \A v \in User : row[v].state = "in" =>
                \/ members[g][v].state = "in"
                \/ groups[g].direct => \A p \in Pair : v \in p => p \in twins'
    BY <2>1, <2>4, <2>6, <2>8, <2>9 DEF Joins
  <2>17. /\ row \in [User -> Member]
         /\ \A v \in User : /\ row[v].state # "none" => v \in alive
                            /\ members[g][v].state # "none" => row[v].state # "none"
         /\ \A v \in User : members[g][v].state = "in" => members'[g][v].state = "in"
         /\ groups'[g].state = "open" /\ g \notin raced /\ g \notin tx[r].stale
               /\ Owners(members[g]) # {} => Owners(row) # {}
    BY <2>8, <2>16 DEF Joins
  <2> HIDE DEF g, u, k
  <2>18. Regroup(r, g, row)
    BY <2>1, <2>2, <2>6, <2>9, <2>10, <2>12, <2>13, <2>14, <2>15, <2>16, <2>17 DEF Regroup
  <2>19. QED
    BY <2>1, <2>17, <2>18, Regrouping
<1>3. QED
  BY <1>1, <1>2

-----------------------------------------------------------------------------
(* Commits that change no group and no member.                             *)

Writes(r, t) ==
    /\ tx' = [q \in Request |-> tx'[q]] /\ tx'[r] = t
    /\ \A q \in Request \ {r} : Kept(q, r, {})
    /\ UNCHANGED <<alive, groups, members, used, raced, twins, workload>>
    /\ balance' \in [Group -> [User -> -1 .. 1]]
    /\ drift' \subseteq Group \X User /\ lost' \subseteq Invitation
    /\ invitations' \in [Invitation -> InvitationRow]
    /\ \A g \in Group, u \in alive :
          (members[g][u].state # "in" \/ ~Open(g)) /\ Even(g, u) => Even(g, u)'
    /\ \A q \in Request \ {r}, g \in Group, u \in User :
          /\ g \in tx[q].held /\ tx[q].op \in {"archive", "remove"}
          /\ tx[q].step = "commit" /\ tx[q].group = g /\ Even(g, u)
          => Even(g, u)'
    /\ \A i \in Invitation :
          /\ invitations[i].state # "free" =>
                invitations'[i].state # "free" /\ invitations'[i].kind = invitations[i].kind
          /\ \A q \in Request \ {r} : i \in tx[q].held /\ invitations[i].state = "open" =>
                invitations'[i].state = "open"
    /\ UsedInv' /\ SentInv'

LEMMA Writing ==
    ASSUME IInv, NEW r \in Request, NEW t \in Transaction, Writes(r, t), TxOk(t)',
           \A q \in Request \ {r} : t.held \intersect tx[q].held = {}
    PROVE  IInv'
<1>1. UNCHANGED <<alive, groups, members, used, raced, twins, workload>>
  BY DEF Writes
<1>2. Frame(r, {})
  BY <1>1 DEF Writes, Frame, Open, Single, DirectGroups, Active
<1>3. RowsOk'
  BY <1>1, TypeParts DEF Writes, IInv, RowsOk
<1>4. OwnerLostOnlyInRace' /\ PairInv'
  BY <1>1 DEF IInv, OwnerLostOnlyInRace, PairInv, Open, Active
<1>5. SettledInv'
  <2>1. SUFFICES ASSUME NEW g \in Group, NEW u \in alive,
                        members[g][u].state # "in" \/ (~Open(g) /\ g \notin raced)
                 PROVE  Even(g, u)'
    BY <1>1 DEF SettledInv, Open
  <2>2. Even(g, u)
    BY <2>1 DEF IInv, SettledInv
  <2>3. QED
    BY <2>1, <2>2 DEF Writes
<1>6. /\ tx' = [q \in Request |-> tx'[q]] /\ tx'[r] = t
      /\ \A q \in Request \ {r} : Kept(q, r, {})
      /\ UsedInv' /\ SentInv'
  BY DEF Writes
<1>7. QED
  BY <1>2, <1>3, <1>4, <1>5, <1>6, Committing

LEMMA MovedType ==
    ASSUME NEW b \in [User -> -1 .. 1], NEW to \in User, NEW from \in User, CanMove(b, to, from)
    PROVE  /\ Moved(b, to, from) \in [User -> -1 .. 1]
           /\ \A u \in User \ {to, from} : Moved(b, to, from)[u] = b[u]
<1>1. CASE to = from
  BY <1>1 DEF Moved, CanMove
<1>2. CASE to # from
  BY <1>2 DEF Moved, CanMove
<1>3. QED
  BY <1>1, <1>2

LEMMA StepCommitRecord == ASSUME IInv, NEW r \in Request, CommitRecord(r) PROVE IInv'
<1> DEFINE t == tx[r]
           g == t.group
           b == Moved(balance[g], t.actor, t.target)
<1>1. /\ t \in Transaction /\ TxOk(t) /\ t.op \in {"record", "friendExpense"}
      /\ t.step = "commit" /\ g \in Group /\ g \in t.held
      /\ t.actor \in User /\ t.target \in User
  BY Known DEF CommitRecord, At, TxOk, Placed, Grouped, Locked
<1>2. /\ Open(g)
      /\ \A u \in {t.actor, t.target} : u \in alive => members[g][u].state = "in"
  BY <1>1 DEF TxOk, RecordOk
<1>3. balance \in [Group -> [User -> -1 .. 1]] /\ balance[g] \in [User -> -1 .. 1]
  BY <1>1 DEF IInv, TypeOK
<1>4. b \in [User -> -1 .. 1] /\ \A u \in User \ {t.actor, t.target} : b[u] = balance[g][u]
  BY <1>1, <1>3, MovedType DEF CommitRecord
<1>5. balance' = [balance EXCEPT ![g] = b]
  BY DEF CommitRecord
<1> HIDE DEF b
<1>6. /\ balance' \in [Group -> [User -> -1 .. 1]] /\ balance'[g] = b
      /\ \A h \in Group \ {g} : balance'[h] = balance[h]
  BY <1>1, <1>3, <1>4, <1>5
<1>7. /\ tx' = [q \in Request |-> tx'[q]] /\ tx'[r] = Done
      /\ \A q \in Request \ {r} : Kept(q, r, {})
      /\ UNCHANGED <<alive, groups, members, invitations, used, raced, drift, twins, lost, workload>>
  BY ByClose DEF CommitRecord, ghosts
<1>8. alive \subseteq User
  BY DEF IInv, TypeOK
<1>9. \A h \in Group, u \in alive :
          (members[h][u].state # "in" \/ ~Open(h)) /\ Even(h, u) => Even(h, u)'
  BY <1>1, <1>2, <1>4, <1>6, <1>7, <1>8 DEF Even
<1>10. \A q \in Request \ {r} : g \notin tx[q].held
  BY <1>1 DEF IInv, LockInv
<1>11. \A q \in Request \ {r}, h \in Group, u \in User :
           h \in tx[q].held /\ Even(h, u) => Even(h, u)'
  BY <1>6, <1>7, <1>10 DEF Even
<1>12. /\ drift' \subseteq Group \X User /\ lost' \subseteq Invitation
       /\ invitations' \in [Invitation -> InvitationRow] /\ UsedInv' /\ SentInv'
  BY <1>7 DEF IInv, TypeOK, UsedInv, SentInv
<1>13. Writes(r, Done)
  BY <1>6, <1>7, <1>9, <1>11, <1>12 DEF Writes
<1>14. QED
  BY <1>13, NewType, DoneOk, Writing

LEMMA StepMutate == ASSUME IInv, NEW r \in Request, Mutate(r) PROVE IInv'
<1>1. PICK g \in Group : \E u, v \in {w \in User : members[g][w].state # "none"} :
        LET checked == \E q \in Request :
                          At(q, {"archive", "remove"}, "commit") /\ tx[q].group = g
        IN /\ tx[r] = New /\ u # v
           /\ CanMove(balance[g], u, v)
           /\ balance' = [balance EXCEPT ![g] = Moved(@, u, v)]
           /\ drift' = drift \union
                 {<<g, w>> : w \in {x \in {u, v} : checked \/ ~Open(g)
                                                   \/ x \notin Active(g)}}
  BY DEF Mutate
<1> DEFINE checked == \E q \in Request :
                          At(q, {"archive", "remove"}, "commit") /\ tx[q].group = g
<1>2. PICK u \in User, v \in User :
           /\ u # v
           /\ CanMove(balance[g], u, v)
           /\ balance' = [balance EXCEPT ![g] = Moved(@, u, v)]
           /\ drift' = drift \union
                 {<<g, w>> : w \in {x \in {u, v} : checked \/ ~Open(g)
                                                   \/ x \notin Active(g)}}
  BY <1>1
<1> DEFINE b == Moved(balance[g], u, v)
<1>3. balance \in [Group -> [User -> -1 .. 1]] /\ balance[g] \in [User -> -1 .. 1]
      /\ drift \subseteq Group \X User /\ alive \subseteq User
  BY DEF IInv, TypeOK
<1>4. b \in [User -> -1 .. 1] /\ \A w \in User \ {u, v} : b[w] = balance[g][w]
  BY <1>2, <1>3, MovedType
<1>5. balance' = [balance EXCEPT ![g] = b]
  BY <1>2
<1> HIDE DEF b
<1>6. /\ balance' \in [Group -> [User -> -1 .. 1]] /\ balance'[g] = b
      /\ \A h \in Group \ {g} : balance'[h] = balance[h]
  BY <1>3, <1>4, <1>5
<1>7. /\ tx' = [q \in Request |-> tx'[q]] /\ tx'[r] = Done
      /\ \A q \in Request \ {r} : Kept(q, r, {})
      /\ UNCHANGED <<alive, groups, members, invitations, used, raced, twins, lost, workload>>
  BY ByClose DEF Mutate
<1>8. /\ drift \subseteq drift' /\ drift' \subseteq Group \X User
      /\ \A w \in {u, v} : checked \/ ~Open(g) \/ w \notin Active(g) => <<g, w>> \in drift'
  BY <1>2, <1>3
<1>9. \A h \in Group, w \in alive :
          (members[h][w].state # "in" \/ ~Open(h)) /\ Even(h, w) => Even(h, w)'
  BY <1>3, <1>4, <1>6, <1>8 DEF Even, Active
<1>10. \A q \in Request \ {r}, h \in Group, w \in User :
           /\ h \in tx[q].held /\ tx[q].op \in {"archive", "remove"}
           /\ tx[q].step = "commit" /\ tx[q].group = h /\ Even(h, w)
           => Even(h, w)'
  BY <1>4, <1>6, <1>8 DEF Even, At
<1>11. /\ lost' \subseteq Invitation
       /\ invitations' \in [Invitation -> InvitationRow] /\ UsedInv' /\ SentInv'
  BY <1>7 DEF IInv, TypeOK, UsedInv, SentInv
<1>12. Writes(r, Done)
  BY <1>6, <1>7, <1>8, <1>9, <1>10, <1>11 DEF Writes
<1>13. QED
  BY <1>12, NewType, DoneOk, Writing

\* A new invitation takes a row that was free.
LEMMA Inviting ==
    ASSUME IInv, NEW r \in Request, Close(r), FreeInvitations # {},
           UNCHANGED <<alive, groups, members, balance, ghosts>>,
           NEW row \in InvitationRow, row.state = "open",
           row.kind = "group" => row.group \in Group,
           invitations' = [invitations EXCEPT ![Fresh(FreeInvitations)] = row]
    PROVE  IInv'
<1> DEFINE k == Fresh(FreeInvitations)
<1>1. k \in Invitation /\ invitations[k].state = "free"
  <2>1. k \in FreeInvitations
    BY DEF Fresh
  <2>2. QED
    BY <2>1 DEF FreeInvitations
<1>2. invitations' = [invitations EXCEPT ![k] = row] /\ invitations \in [Invitation -> InvitationRow]
  BY DEF IInv, TypeOK
<1> HIDE DEF k
<1>3. /\ invitations' \in [Invitation -> InvitationRow] /\ invitations'[k] = row
      /\ \A i \in Invitation \ {k} : invitations'[i] = invitations[i]
  BY <1>1, <1>2
<1>4. /\ tx' = [q \in Request |-> tx'[q]] /\ tx'[r] = Done
      /\ \A q \in Request \ {r} : Kept(q, r, {})
      /\ UNCHANGED <<alive, groups, members, balance, used, raced, drift, twins, lost, workload>>
  BY ByClose DEF ghosts
<1>5. UsedInv' /\ SentInv'
  BY <1>1, <1>3, <1>4 DEF IInv, UsedInv, SentInv
<1>6. balance' \in [Group -> [User -> -1 .. 1]] /\ drift' \subseteq Group \X User
      /\ lost' \subseteq Invitation
  BY <1>4 DEF IInv, TypeOK
<1>7. \A i \in Invitation :
          /\ invitations[i].state # "free" =>
                invitations'[i].state # "free" /\ invitations'[i].kind = invitations[i].kind
          /\ \A q \in Request \ {r} : i \in tx[q].held /\ invitations[i].state = "open" =>
                invitations'[i].state = "open"
  BY <1>1, <1>3
<1>8. \A g \in Group : \A u : Even(g, u) => Even(g, u)'
  BY <1>4 DEF Even
<1>9. Writes(r, Done)
  BY <1>3, <1>4, <1>5, <1>6, <1>7, <1>8 DEF Writes
<1>10. QED
  BY <1>9, NewType, DoneOk, Writing

LEMMA StepCommitInvite == ASSUME IInv, NEW r \in Request, CommitInvite(r) PROVE IInv'
<1> DEFINE t == tx[r]
           row == GroupInvitation(t.group, t.target, t.actor, t.role)
<1>1. CASE Fail(r)
  BY <1>1, StepFail
<1>2. CASE ~Fail(r)
  <2>1. t \in Transaction /\ t.group \in Group
    BY Known DEF CommitInvite, At, TxOk, Placed
  <2>2. row \in InvitationRow /\ row.state = "open" /\ row.group = t.group
    BY <2>1 DEF GroupInvitation, NoInvitation, InvitationRow, Transaction
  <2>3. /\ Close(r) /\ FreeInvitations # {} /\ UNCHANGED <<alive, groups, members, balance, ghosts>>
        /\ invitations' = [invitations EXCEPT ![Fresh(FreeInvitations)] = row]
    BY <1>2 DEF CommitInvite
  <2> HIDE DEF row
  <2>4. QED
    BY <2>1, <2>2, <2>3, Inviting
<1>3. QED
  BY <1>1, <1>2

LEMMA StepBefriend == ASSUME IInv, NEW r \in Request, Befriend(r) PROVE IInv'
<1>1. PICK u \in alive, v \in User :
          invitations' = [invitations EXCEPT ![Fresh(FreeInvitations)] = FriendInvitation(v, u)]
  BY DEF Befriend
<1> DEFINE row == FriendInvitation(v, u)
<1>2. row \in InvitationRow /\ row.state = "open" /\ row.kind = "friend"
  BY DEF FriendInvitation, NoInvitation, InvitationRow, IInv, TypeOK, Role
<1>3. /\ Close(r) /\ FreeInvitations # {} /\ UNCHANGED <<alive, groups, members, balance, ghosts>>
      /\ invitations' = [invitations EXCEPT ![Fresh(FreeInvitations)] = row]
  BY <1>1 DEF Befriend
<1> HIDE DEF row
<1>4. QED
  BY <1>2, <1>3, Inviting

LEMMA StepMarkAccepted == ASSUME IInv, NEW r \in Request, MarkAccepted(r) PROVE IInv'
<1>1. CASE Fail(r)
  BY <1>1, StepFail
<1>2. CASE ~Fail(r)
  <2>1. /\ tx[r] \in Transaction /\ TxOk(tx[r]) /\ tx[r].op = "acceptFriend"
        /\ tx[r].step = "mark" /\ tx[r].key \in Invitation /\ tx[r].actor \in User
        /\ tx \in [Request -> Transaction] /\ invitations \in [Invitation -> InvitationRow]
    BY Known DEF MarkAccepted, At, TxOk, Placed, IInv, TypeOK
  <2>2. PICK k \in Invitation : k = tx[r].key
    BY <2>1
  <2>3. PICK s : s = [tx[r] EXCEPT !.step = "list", !.held = {}]
    OBVIOUS
  <2>4. /\ s \in Transaction /\ s.op = "acceptFriend" /\ s.step = "list" /\ s.held = {}
        /\ s.group = tx[r].group /\ s.key = k /\ s.actor \in User
    BY <2>1, <2>2, <2>3 DEF Transaction
  <2>5. PICK row : row = [invitations[k] EXCEPT !.state = "accepted"]
    OBVIOUS
  <2>6. /\ row \in InvitationRow /\ row.state = "accepted"
        /\ row.kind = invitations[k].kind /\ row.group = invitations[k].group
    BY <2>1, <2>5 DEF InvitationRow
  <2>7. /\ tx' = [tx EXCEPT ![r] = s] /\ invitations' = [invitations EXCEPT ![k] = row]
        /\ Free(r, k)
        /\ UNCHANGED <<alive, groups, members, balance, used, raced, drift, twins, lost, workload>>
    BY <1>2, <2>1, <2>2, <2>3, <2>5 DEF MarkAccepted, ghosts
  <2>8. /\ invitations' \in [Invitation -> InvitationRow] /\ invitations'[k] = row
        /\ \A i \in Invitation \ {k} : invitations'[i] = invitations[i]
    BY <2>1, <2>6, <2>7
  <2>9. /\ tx' = [q \in Request |-> tx'[q]] /\ tx'[r] = s
        /\ \A q \in Request \ {r} : Kept(q, r, {})
    BY <2>1, <2>7 DEF Kept
  <2>10. invitations[k].state # "free" /\ GroupOk(tx[r])
    BY <2>1, <2>2 DEF TxOk, KeyOk
  <2>11. UsedInv' /\ SentInv'
    BY <2>6, <2>7, <2>8, <2>10 DEF IInv, UsedInv, SentInv
  <2>12. balance' \in [Group -> [User -> -1 .. 1]] /\ drift' \subseteq Group \X User
         /\ lost' \subseteq Invitation
    BY <2>7 DEF IInv, TypeOK
  <2>13. \A i \in Invitation :
             /\ invitations[i].state # "free" =>
                   invitations'[i].state # "free" /\ invitations'[i].kind = invitations[i].kind
             /\ \A q \in Request \ {r} : i \in tx[q].held /\ invitations[i].state = "open" =>
                   invitations'[i].state = "open"
    BY <2>6, <2>7, <2>8 DEF Free
  <2>14. \A g \in Group : \A u : Even(g, u) => Even(g, u)'
    BY <2>7 DEF Even
  <2>15. Writes(r, s)
    BY <2>7, <2>8, <2>9, <2>11, <2>12, <2>13, <2>14 DEF Writes
  <2>16. Placed(s)' /\ Judged(s)'
    BY <2>4 DEF Placed, Judged, Grouped, Locked
  <2>17. GroupOk(s)' /\ KeyOk(s)'
    BY <2>4, <2>6, <2>7, <2>8, <2>10 DEF GroupOk, KeyOk
  <2>18. SeenOk(s)' /\ PlanOk(s)' /\ SettledOk(s)' /\ RecordOk(s)' /\ AcceptOk(s)' /\ MakeOk(s)'
    BY <2>4 DEF SeenOk, PlanOk, SettledOk, RecordOk, AcceptOk, MakeOk
  <2>19. TxOk(s)'
    BY <2>16, <2>17, <2>18 DEF TxOk
  <2>20. QED
    BY <2>4, <2>15, <2>19, Writing
<1>3. QED
  BY <1>1, <1>2

LEMMA StepAnswerAccepted == ASSUME IInv, NEW r \in Request, AnswerAccepted(r) PROVE IInv'
<1>1. /\ tx' = [q \in Request |-> tx'[q]] /\ tx'[r] = Done
      /\ workload' = workload
      /\ \A q \in Request \ {r} : Kept(q, r, {})
  BY ByClose DEF AnswerAccepted
<1>2. UNCHANGED <<alive, groups, members, balance, invitations, used, raced, drift, twins>>
      /\ alive \subseteq User
  BY DEF AnswerAccepted, rows, IInv, TypeOK
<1>3. tx[r].key \in Invitation
  BY Known DEF AnswerAccepted, At, TxOk, Placed
<1>4. lost' \subseteq Invitation
  BY <1>3 DEF AnswerAccepted, IInv, TypeOK
<1>5. balance' \in [Group -> [User -> -1 .. 1]] /\ drift' \subseteq Group \X User
      /\ invitations' \in [Invitation -> InvitationRow] /\ UsedInv' /\ SentInv'
  BY <1>2 DEF IInv, TypeOK, UsedInv, SentInv
<1>6. \A g \in Group : \A u : Even(g, u) => Even(g, u)'
  BY <1>2 DEF Even
<1>7. Writes(r, Done)
  BY <1>1, <1>2, <1>4, <1>5, <1>6 DEF Writes
<1>8. QED
  BY <1>7, NewType, DoneOk, Writing

-----------------------------------------------------------------------------
(* New groups and the deletion of an account.                              *)

\* A free row is nobody's, and no transaction under way needs it open.
LEMMA FreeGroup ==
    ASSUME IInv, NEW g, g = Fresh(FreeGroups), FreeGroups # {}
    PROVE  /\ g \in Group /\ groups[g].state = "free"
           /\ members[g] \in [User -> Member]
           /\ \A u \in User : members[g][u].state = "none"
           /\ \A u \in alive : Even(g, u)
<1>1. g \in FreeGroups
  BY DEF Fresh
<1>2. g \in Group /\ groups[g].state = "free"
  BY <1>1 DEF FreeGroups
<1>3. /\ members[g] \in [User -> Member] /\ alive \subseteq User
      /\ \A u \in User : members[g][u].state = "none"
  BY <1>2 DEF IInv, TypeOK
<1>4. \A u \in alive : Even(g, u)
  BY <1>2, <1>3 DEF IInv, SettledInv
<1>5. QED
  BY <1>2, <1>3, <1>4

\* A group opens, with members who have accounts and an owner among them.
Opens(r, g, row, group, t) ==
    /\ Changes(r, {g}, t)
    /\ tx[r].op \notin Locked
    /\ groups' = [groups EXCEPT ![g] = group] /\ group.state = "open"
    /\ members' = [members EXCEPT ![g] = row] /\ Owners(row) # {}
    /\ \A u \in User : row[u].state # "none" => u \in alive /\ row[u].state = "in"
    /\ twins \subseteq twins' /\ twins' \subseteq Pair
    /\ UNCHANGED <<alive, balance, invitations, used, drift, lost>>

LEMMA Opening ==
    ASSUME IInv, NEW r \in Request, NEW g \in Group, NEW row \in [User -> Member],
           NEW group \in GroupRow, NEW t \in Transaction, Opens(r, g, row, group, t),
           g = Fresh(FreeGroups), FreeGroups # {}, TxOk(t)', PairInv',
           \A q \in Request \ {r} : t.held \intersect tx[q].held = {},
           \A q \in Request \ {r}, u, v \in User :
               tx[q].step = "make" /\ tx[q].actor = u /\ tx[q].target = v /\ u # v /\ Single(u, v)
                   => Single(u, v)'
    PROVE  IInv'
<1>1. /\ tx' = [q \in Request |-> tx'[q]] /\ tx'[r] = t
      /\ \A q \in Request \ {r} : Kept(q, r, {g})
      /\ raced' = raced \union ({g} \intersect tx[r].stale) /\ workload' = workload
  BY ByChanges DEF Opens
<1>2. UNCHANGED <<alive, balance, invitations, used, drift, lost>>
  BY DEF Opens
<1>3. /\ groups[g].state = "free" /\ \A u \in User : members[g][u].state = "none"
      /\ \A u \in alive : Even(g, u)
  BY FreeGroup
<1>4. /\ groups \in [Group -> GroupRow] /\ members \in [Group -> [User -> Member]]
      /\ alive \subseteq User
  BY DEF IInv, TypeOK
<1>5. /\ groups' \in [Group -> GroupRow] /\ groups'[g].state = "open"
      /\ \A h \in Group \ {g} : groups'[h] = groups[h]
  BY <1>4 DEF Opens
<1>6. /\ members' \in [Group -> [User -> Member]] /\ members'[g] = row
      /\ \A h \in Group \ {g} : members'[h] = members[h]
  BY <1>4 DEF Opens
<1>7. Frame(r, {g})
  <2>1. /\ alive' \subseteq alive
        /\ \A h \in Group : groups[h].state # "free" => groups'[h].state # "free"
        /\ \A h \in Group \ {g} : /\ members'[h] = members[h]
                                  /\ groups'[h].state = groups[h].state
        /\ tx[r].op \notin Locked
        /\ \A h \in Group, u \in alive' :
              members[h][u].state # "none" => members'[h][u].state # "none"
    BY <1>2, <1>3, <1>4, <1>5, <1>6 DEF Opens
  <2>2. \A h \in Group : /\ Open(h) => Open(h)'
                         /\ \A u \in alive' : members[h][u].state = "in" => members'[h][u].state = "in"
                         /\ \A u \in User : Even(h, u) => Even(h, u)'
    BY <1>2, <1>3, <1>4, <1>5, <1>6 DEF Open, Even
  <2>3. QED
    BY <1>2, <2>1, <2>2 DEF Frame
<1>8. RowsOk'
  <2>1. \A h \in Group, u \in User :
            members'[h][u].state # "none" => u \in alive' /\ groups'[h].state # "free"
    BY <1>2, <1>5, <1>6 DEF Opens, IInv, TypeOK
  <2>2. /\ raced' \subseteq Group /\ twins' \subseteq Pair
        /\ balance' \in [Group -> [User -> -1 .. 1]]
        /\ invitations' \in [Invitation -> InvitationRow] /\ used' \in [Invitation -> Nat]
        /\ drift' \subseteq Group \X User /\ lost' \subseteq Invitation
        /\ alive' \subseteq User /\ workload' \subseteq Operation
    BY <1>1, <1>2 DEF Opens, IInv, TypeOK
  <2>3. QED
    BY <1>5, <1>6, <2>1, <2>2 DEF RowsOk
<1>9. OwnerLostOnlyInRace'
  BY <1>1, <1>5, <1>6 DEF Opens, IInv, OwnerLostOnlyInRace, Open
<1>10. SettledInv'
  <2>1. SUFFICES ASSUME NEW h \in Group, NEW u \in alive,
                        \/ members'[h][u].state # "in"
                        \/ groups'[h].state # "open" /\ h \notin raced'
                 PROVE  Even(h, u)
    BY <1>2 DEF SettledInv, Open, Even
  <2>2. CASE h = g
    BY <1>3, <2>2
  <2>3. CASE h # g
    BY <1>1, <1>5, <1>6, <2>1, <2>3 DEF IInv, SettledInv, Open
  <2>4. QED
    BY <2>2, <2>3
<1>11. UsedInv' /\ SentInv'
  BY <1>2 DEF IInv, UsedInv, SentInv
<1>12. QED
  BY <1>1, <1>7, <1>8, <1>9, <1>10, <1>11, Committing

LEMMA StepCreate == ASSUME IInv, NEW r \in Request, Create(r) PROVE IInv'
<1>1. PICK u \in alive :
          LET g == Fresh(FreeGroups) IN
          /\ groups' = [groups EXCEPT ![g] = NewGroup(u, FALSE)]
          /\ members' = [members EXCEPT ![g][u] = In("owner")]
          /\ Changes(r, {g}, Done)
  BY DEF Create
<1>2. PICK g : g = Fresh(FreeGroups)
  OBVIOUS
<1>3. FreeGroups # {} /\ tx[r] = New /\ tx[r].op \notin Locked
      /\ UNCHANGED <<alive, balance, invitations, used, drift, twins, lost>>
  BY NewType, GroupsAssumption DEF Create, Operation
<1>4. /\ g \in Group /\ groups[g].state = "free" /\ members[g] \in [User -> Member]
      /\ \A v \in User : members[g][v].state = "none"
  BY <1>2, <1>3, FreeGroup
<1>5. /\ u \in User /\ groups \in [Group -> GroupRow] /\ members \in [Group -> [User -> Member]]
      /\ twins \subseteq Pair
  BY DEF IInv, TypeOK
<1>6. PICK group : group = NewGroup(u, FALSE)
  OBVIOUS
<1>7. group \in GroupRow /\ group.state = "open" /\ group.direct = FALSE
  BY <1>5, <1>6 DEF NewGroup, GroupRow
<1>8. PICK row : row = [members[g] EXCEPT ![u] = In("owner")]
  OBVIOUS
<1>9. In("owner") \in Member /\ In("owner").state = "in"
  BY DEF In, Member, Role
<1>10. /\ row \in [User -> Member] /\ row[u] = In("owner")
       /\ \A v \in User \ {u} : row[v].state = "none"
  BY <1>4, <1>5, <1>8, <1>9
<1>11. groups' = [groups EXCEPT ![g] = group] /\ members' = [members EXCEPT ![g] = row]
       /\ Changes(r, {g}, Done)
  BY <1>1, <1>2, <1>6, <1>8
<1>12. Opens(r, g, row, group, Done)
  BY <1>3, <1>5, <1>7, <1>9, <1>10, <1>11 DEF Opens, Owners
<1>13. /\ PairInv'
       /\ \A v, w \in User : v # w /\ Single(v, w) => Single(v, w)'
  <2>1. \A h \in Group, v \in User :
            groups'[h].direct /\ members'[h][v].state = "in" =>
                groups[h].direct /\ members[h][v].state = "in"
    BY <1>4, <1>5, <1>7, <1>11
  <2>2. QED
    BY <1>3, <2>1, PairsKept
<1>14. QED
  BY <1>2, <1>3, <1>4, <1>7, <1>10, <1>12, <1>13, NewType, DoneOk, Opening

LEMMA StepMakeDirectGroup == ASSUME IInv, NEW r \in Request, MakeDirectGroup(r) PROVE IInv'
<1>1. CASE Fail(r)
  BY <1>1, StepFail
<1>2. CASE ~Fail(r)
  <2>1. /\ tx[r] \in Transaction /\ TxOk(tx[r]) /\ tx[r].step = "make"
        /\ tx[r].op \in {"acceptFriend", "friendExpense"} /\ tx[r].op \notin Locked
        /\ tx[r].actor \in User /\ tx[r].target \in User
        /\ tx[r].op = "acceptFriend" => tx[r].key \in Invitation
        /\ {Founder(tx[r]), Guest(tx[r])} = {tx[r].actor, tx[r].target}
        /\ AfterPair(tx[r]) \in {"mark", "lock"}
        /\ AfterPair(tx[r]) = "lock" => tx[r].op = "friendExpense"
    <3>1. tx[r].step = "make"
      BY DEF MakeDirectGroup
    <3>2. TxOk(tx[r]) /\ tx[r].op \in {"acceptFriend", "friendExpense"}
      BY <3>1, Pairing
    <3>3. tx[r].op = "acceptFriend" => tx[r].key \in Invitation
      BY <3>1, <3>2 DEF TxOk, Placed
    <3>4. QED
      BY <3>1, <3>2, <3>3, Pairing DEF Locked
  <2>2. PICK u \in User, v \in User : u = Founder(tx[r]) /\ v = Guest(tx[r]) /\ u # v
    BY <2>1, Pairing
  <2>3. PICK g : g = Fresh(FreeGroups)
    OBVIOUS
  <2>4. PICK others : others = {q \in Request \ {r} : tx[q].step = "make"
                                   /\ {tx[q].actor, tx[q].target} = {u, v}}
    OBVIOUS
  <2>5. PICK s : s = [tx[r] EXCEPT !.step = AfterPair(tx[r]), !.group = g, !.held = {}]
    OBVIOUS
  <2>6. /\ FreeGroups # {} /\ {u, v} \subseteq alive
        /\ groups' = [groups EXCEPT ![g] = NewGroup(u, TRUE)]
        /\ members' = [members EXCEPT ![g] =
                          [members[g] EXCEPT ![u] = In("owner"), ![v] = In("member")]]
        /\ twins' = twins \union IF others # {} THEN {{u, v}} ELSE {}
        /\ Changes(r, {g}, s)
        /\ UNCHANGED <<alive, balance, invitations, used, drift, lost>>
    <3>1. members \in [Group -> [User -> Member]] /\ (FreeGroups # {} => g \in Group)
      BY <2>3, FreeGroup DEF IInv, TypeOK
    <3>2. QED
      BY <1>2, <2>2, <2>3, <2>4, <2>5, <3>1 DEF MakeDirectGroup
  <2>7. /\ g \in Group /\ groups[g].state = "free" /\ members[g] \in [User -> Member]
        /\ \A w \in User : members[g][w].state = "none"
    BY <2>3, <2>6, FreeGroup
  <2>8. /\ groups \in [Group -> GroupRow] /\ members \in [Group -> [User -> Member]]
        /\ twins \subseteq Pair /\ {u, v} \in Pair
    BY <2>2, PairType DEF IInv, TypeOK
  <2>9. PICK group : group = NewGroup(u, TRUE)
    OBVIOUS
  <2>10. group \in GroupRow /\ group.state = "open"
    BY <2>9 DEF NewGroup, GroupRow
  <2>11. PICK row : row = [members[g] EXCEPT ![u] = In("owner"), ![v] = In("member")]
    OBVIOUS
  <2>12. /\ In("owner") \in Member /\ In("owner").state = "in"
         /\ In("member") \in Member /\ In("member").state = "in"
    BY DEF In, Member, Role
  <2>13. /\ row \in [User -> Member] /\ row[u] = In("owner") /\ row[v] = In("member")
         /\ \A w \in User \ {u, v} : row[w].state = "none"
    BY <2>2, <2>7, <2>11, <2>12
  <2>14. /\ groups' = [groups EXCEPT ![g] = group] /\ members' = [members EXCEPT ![g] = row]
         /\ groups'[g] = group /\ members'[g] = row
         /\ \A h \in Group \ {g} : groups'[h] = groups[h] /\ members'[h] = members[h]
    BY <2>6, <2>7, <2>8, <2>9, <2>11
  <2>15. twins \subseteq twins' /\ twins' \subseteq Pair /\ (others # {} => {u, v} \in twins')
    BY <2>6, <2>8
  <2>16. Opens(r, g, row, group, s)
    <3>1. /\ u \in Owners(row)
          /\ \A w \in User : row[w].state # "none" => w \in alive /\ row[w].state = "in"
      BY <2>6, <2>12, <2>13 DEF Owners
    <3>2. QED
      BY <2>1, <2>6, <2>10, <2>14, <2>15, <3>1 DEF Opens
  <2>17. /\ s \in Transaction /\ s.op = tx[r].op /\ s.step = AfterPair(tx[r])
         /\ s.actor \in User /\ s.target \in User /\ s.group = g /\ s.key = tx[r].key
         /\ s.held = {}
    BY <2>1, <2>5, <2>7 DEF Transaction
  <2>18. TxOk(s)'
    <3>1. Placed(s)' /\ Judged(s)'
      BY <2>1, <2>7, <2>17 DEF Placed, Judged, Grouped
    <3>2. GroupOk(s)'
      BY <2>10, <2>14, <2>17 DEF GroupOk
    <3>3. KeyOk(s)'
      BY <2>1, <2>6, <2>17 DEF TxOk, KeyOk
    <3>4. SeenOk(s)' /\ PlanOk(s)' /\ SettledOk(s)' /\ RecordOk(s)' /\ AcceptOk(s)' /\ MakeOk(s)'
      BY <2>1, <2>17 DEF SeenOk, PlanOk, SettledOk, RecordOk, AcceptOk, MakeOk
    <3>5. QED
      BY <3>1, <3>2, <3>3, <3>4 DEF TxOk
  <2>19. \A p \in Pair : p \subseteq Active(g)' => p = {u, v}
    <3>1. Active(g)' \subseteq {u, v}
      BY <2>13, <2>14 DEF Active
    <3>2. QED
      BY <3>1, PairType
  <2>20. \A h \in Group \ {g} : Active(h)' = Active(h) /\ groups'[h].direct = groups[h].direct
    BY <2>14 DEF Active
  <2>21. Single(u, v)
    BY <2>1, <2>2 DEF TxOk, MakeOk, Single, DirectGroups
  <2>22. PairInv'
    <3>1. SUFFICES ASSUME NEW p \in Pair \ twins', NEW h \in Group, NEW k \in Group,
                          groups'[h].direct, p \subseteq Active(h)',
                          groups'[k].direct, p \subseteq Active(k)'
                   PROVE  h = k
      BY DEF PairInv
    <3>2. p \in Pair \ twins
      BY <2>15
    <3>3. CASE h # g /\ k # g
      BY <2>20, <3>1, <3>2, <3>3 DEF IInv, PairInv
    <3>4. CASE h = g \/ k = g
      <4>1. p = {u, v}
        BY <2>19, <3>1, <3>4
      <4>2. DirectGroups(u, v) = {}
        BY <2>21, <3>2, <4>1 DEF Single
      <4>3. \A x \in Group \ {g} : ~(groups'[x].direct /\ p \subseteq Active(x)')
        BY <2>20, <4>1, <4>2 DEF DirectGroups
      <4>4. QED
        BY <3>1, <3>4, <4>3
    <3>5. QED
      BY <3>3, <3>4
  <2>23. ASSUME NEW q \in Request \ {r}, NEW a \in User, NEW b \in User,
                tx[q].step = "make", tx[q].actor = a, tx[q].target = b, a # b, Single(a, b)
         PROVE  Single(a, b)'
    <3>1. CASE {a, b} = {u, v}
      <4>1. q \in others
        BY <2>4, <2>23, <3>1
      <4>2. QED
        BY <2>15, <3>1, <4>1 DEF Single
    <3>2. CASE {a, b} # {u, v}
      <4>1. ~({a, b} \subseteq Active(g)')
        <5>1. {a, b} \in Pair
          BY <2>23, PairType
        <5>2. QED
          BY <2>19, <3>2, <5>1
      <4>2. {a, b} \in twins => {a, b} \in twins'
        BY <2>15
      <4>3. DirectGroups(a, b) = {} => DirectGroups(a, b)' = {}
        BY <2>20, <4>1 DEF DirectGroups
      <4>4. QED
        BY <2>23, <4>2, <4>3 DEF Single
    <3>3. QED
      BY <3>1, <3>2
  <2>24. \A q \in Request \ {r} : s.held \intersect tx[q].held = {}
    BY <2>17
  <2>25. QED
    BY <2>3, <2>6, <2>7, <2>10, <2>13, <2>16, <2>17, <2>18, <2>22, <2>23, <2>24, Opening
<1>3. QED
  BY <1>1, <1>2

LEMMA StepCommitDelete == ASSUME IInv, NEW r \in Request, CommitDelete(r) PROVE IInv'
<1> DEFINE u == tx[r].actor
           plan == tx[r].plan
           promoted == {g \in Group : plan[g] \notin {None, u}}
           closed == {g \in Group : plan[g] = u}
           G == {g \in Group : members[g][u].state # "none"}
<1>1. CASE Fail(r)
  BY <1>1, StepFail
<1>2. CASE ~Fail(r)
  <2>1. /\ tx[r] \in Transaction /\ TxOk(tx[r]) /\ tx[r].op = "delete" /\ tx[r].step = "commit"
        /\ tx[r].op \notin Locked /\ u \in User /\ plan \in [Group -> User \union {None}]
    BY Known DEF CommitDelete, At, TxOk, Placed, Locked, Transaction
  <2>2. /\ u \in alive /\ \A g \in closed : Free(r, g)
        /\ \A g \in promoted : members[g][plan[g]].state # "none"
    BY <1>2 DEF CommitDelete
  <2>3. alive' = alive \ {u} /\ UNCHANGED <<balance, used, drift, twins, lost>>
    BY <1>2 DEF CommitDelete
  <2>4. members' = [g \in Group |-> [v \in User |->
              CASE v = u -> NoMember
                [] g \in promoted /\ v = plan[g] -> [members[g][v] EXCEPT !.role = "owner"]
                [] OTHER -> members[g][v]]]
    BY <1>2 DEF CommitDelete
  <2>5. groups' = [g \in Group |->
              [groups[g] EXCEPT !.state = IF g \in closed THEN "archived" ELSE @,
                                !.by = IF @ = u THEN None ELSE @]]
    BY <1>2 DEF CommitDelete
  <2>6. invitations' = [i \in Invitation |->
              [invitations[i] EXCEPT !.from = IF @ = u THEN None ELSE @]]
    BY <1>2 DEF CommitDelete
  <2>7. Changes(r, G, Done)
    BY <1>2 DEF CommitDelete
  <2>8. /\ tx' = [q \in Request |-> tx'[q]] /\ tx'[r] = Done
        /\ \A q \in Request \ {r} : Kept(q, r, G)
        /\ raced' = raced \union (G \intersect tx[r].stale) /\ workload' = workload
    BY <2>7, ByChanges
  <2>9. \A g \in Group : /\ g \in tx[r].stale \/ plan[g] \in Heir(g, u)
                         /\ plan[g] # None => g \in G
    BY <2>1, <2>2, <2>3, <2>6, <2>7 DEF TxOk, PlanOk
  <2>10. /\ groups \in [Group -> GroupRow] /\ members \in [Group -> [User -> Member]]
         /\ invitations \in [Invitation -> InvitationRow] /\ alive \subseteq User
         /\ \A g \in Group, v \in User :
               members[g][v].state # "none" => v \in alive /\ groups[g].state # "free"
    BY DEF IInv, TypeOK
  <2>11. /\ closed \subseteq G /\ promoted \subseteq G /\ G \subseteq Group
         /\ \A g \in Group : /\ g \in closed <=> plan[g] = u
                             /\ g \in promoted <=> plan[g] \notin {None, u}
                             /\ g \in G <=> members[g][u].state # "none"
    BY <2>1, <2>9, GroupsAssumption
  <2> HIDE DEF u, plan, promoted, closed, G
  <2>12. ASSUME NEW g \in Group
         PROVE  /\ groups'[g] \in GroupRow /\ groups'[g].direct = groups[g].direct
                /\ g \in closed => groups'[g].state = "archived"
                /\ g \notin closed => groups'[g].state = groups[g].state
    <3>1. groups[g] \in GroupRow
      BY <2>10
    <3>2. PICK old : old = groups[g]
      OBVIOUS
    <3>3. groups'[g] = [old EXCEPT !.state = IF g \in closed THEN "archived" ELSE @,
                                   !.by = IF @ = u THEN None ELSE @]
      BY <2>5, <3>2
    <3>4. QED
      BY <3>1, <3>2, <3>3 DEF GroupRow
  <2>13. ASSUME NEW g \in Group, NEW v \in User
         PROVE  /\ members'[g][v] \in Member
                /\ v = u => members'[g][v] = NoMember
                /\ v # u => members'[g][v].state = members[g][v].state
                /\ v # u /\ g \notin promoted => members'[g][v] = members[g][v]
                /\ v # u => members'[g][v] = members[g][v] \/ members'[g][v].role = "owner"
                /\ v # u /\ g \in promoted /\ v = plan[g] => members'[g][v].role = "owner"
    <3>1. CASE v = u
      BY <2>1, <2>4, <2>11, <3>1 DEF Member
    <3>2. CASE v # u /\ g \in promoted /\ v = plan[g]
      <4>1. PICK old : old = members[g][v]
        OBVIOUS
      <4>2. old \in [role: Role, state: {"in", "left"}]
        BY <2>2, <2>10, <3>2, <4>1 DEF Member, NoMember
      <4>3. members'[g][v] = [old EXCEPT !.role = "owner"]
        BY <2>4, <3>2, <4>1
      <4>4. PICK new : new = members'[g][v]
        OBVIOUS
      <4>5. new \in Member /\ new.state = old.state /\ new.role = "owner"
        BY <4>2, <4>3, <4>4 DEF Member, Role
      <4>6. QED
        BY <3>2, <4>1, <4>4, <4>5
    <3>3. CASE v # u /\ ~(g \in promoted /\ v = plan[g])
      BY <2>4, <2>10, <3>3
    <3>4. QED
      BY <3>1, <3>2, <3>3
  <2>14. groups' \in [Group -> GroupRow] /\ members' \in [Group -> [User -> Member]]
    <3>1. groups' = [g \in Group |-> groups'[g]]
      BY <2>5
    <3>2. groups' \in [Group -> GroupRow]
      BY <2>12, <3>1
    <3>3. members' = [g \in Group |-> [v \in User |-> members'[g][v]]]
      BY <2>4
    <3>4. members' \in [Group -> [User -> Member]]
      BY <2>13, <3>3
    <3>5. QED
      BY <3>2, <3>4
  <2>15. ASSUME NEW i \in Invitation
         PROVE  /\ invitations'[i] \in InvitationRow
                /\ invitations'[i].state = invitations[i].state
                /\ invitations'[i].kind = invitations[i].kind
                /\ invitations'[i].group = invitations[i].group
    <3>1. invitations[i] \in InvitationRow
      BY <2>10
    <3>2. PICK old : old = invitations[i]
      OBVIOUS
    <3>3. invitations'[i] = [old EXCEPT !.from = IF @ = u THEN None ELSE @]
      BY <2>6, <3>2
    <3>4. QED
      BY <3>1, <3>2, <3>3 DEF InvitationRow
  <2>16. ASSUME NEW g \in Group \ G
         PROVE  members'[g] = members[g] /\ groups'[g].state = groups[g].state
    <3>1. members[g][u] = NoMember
      BY <2>1, <2>10, <2>11 DEF Member
    <3>2. \A v \in User : members'[g][v] = members[g][v]
      BY <2>11, <2>13, <3>1
    <3>3. members'[g] \in [User -> Member] /\ members[g] \in [User -> Member]
      BY <2>10, <2>14
    <3>4. members'[g] = members[g]
      BY <3>2, <3>3
    <3>5. QED
      BY <2>11, <2>12, <3>4
  <2>17. /\ PairInv'
         /\ \A v, w \in User : v # w /\ Single(v, w) => Single(v, w)'
    <3>1. \A g \in Group, v \in User :
              groups'[g].direct /\ members'[g][v].state = "in" =>
                  groups[g].direct /\ members[g][v].state = "in"
      BY <2>12, <2>13 DEF NoMember
    <3>2. twins \subseteq twins'
      BY <2>3
    <3>3. QED
      BY <3>1, <3>2, PairsKept
  <2>18. Frame(r, G)
    <3>1. /\ alive' \subseteq alive
          /\ \A g \in Group : groups[g].state # "free" => groups'[g].state # "free"
          /\ tx[r].op \notin Locked
          /\ \A g \in Group, v \in alive' :
                /\ members[g][v].state # "none" => members'[g][v].state # "none"
                /\ members[g][v].state = "in" => members'[g][v].state = "in"
      BY <2>1, <2>3, <2>10, <2>12, <2>13
    <3>2. \A q \in Request \ {r}, g \in Group : g \in tx[q].held /\ Open(g) => Open(g)'
      BY <2>2, <2>12 DEF Open, Free
    <3>3. \A g \in Group, v \in User : Even(g, v) => Even(g, v)'
      BY <2>3 DEF Even
    <3>4. \A i \in Invitation :
              /\ invitations'[i].state = invitations[i].state
              /\ invitations'[i].kind = invitations[i].kind
      BY <2>15
    <3>5. QED
      BY <2>16, <2>17, <3>1, <3>2, <3>3, <3>4 DEF Frame
  <2>19. RowsOk'
    <3>1. \A g \in Group, v \in User :
              members'[g][v].state # "none" => v \in alive' /\ groups'[g].state # "free"
      BY <2>3, <2>10, <2>12, <2>13 DEF NoMember
    <3>2. invitations' = [i \in Invitation |-> invitations'[i]]
      BY <2>6
    <3>3. invitations' \in [Invitation -> InvitationRow]
      BY <2>15, <3>2
    <3>4. QED
      BY <2>3, <2>8, <2>11, <2>14, <3>1, <3>3 DEF RowsOk, IInv, TypeOK
  \* What the plan still says of a group that has not changed.
  <2>20. ASSUME NEW g \in Group, g \in G, g \notin raced', Open(g)
         PROVE  /\ g \in closed => Active(g) \ {u} = {}
                /\ g \notin closed => Owners(members'[g]) # {}
    <3>1. plan[g] \in Heir(g, u) /\ g \notin raced
      BY <2>8, <2>9, <2>20
    <3>2. PICK o \in Owners(members[g]) : TRUE
      BY <2>20, <3>1 DEF IInv, OwnerLostOnlyInRace
    <3>3. o \in User /\ members[g][o] = In("owner") /\ o \in Active(g)
      BY <3>2 DEF Owners, Active, In
    <3>4. plan[g] = u => Active(g) \ {u} = {}
      BY <2>1, <2>20, <3>1, GroupsAssumption DEF Heir
    <3>5. ASSUME Owners(members[g]) = {u}, plan[g] # u PROVE Owners(members'[g]) # {}
      <4>1. RoleOf(g, u) = "owner"
        BY <3>2, <3>3, <3>5 DEF RoleOf, In
      <4>2. ASSUME NEW v \in Active(g) \ {u}
            PROVE  members[g][v].role \in {"admin", "member"}
        <5>1. v \in User /\ members[g][v].state = "in" /\ members[g][v] \in Member
          BY <2>10 DEF Active
        <5>2. members[g][v] # In("owner")
          BY <3>5, <5>1 DEF Owners
        <5>3. PICK x \in Member : x = members[g][v]
          BY <5>1
        <5>4. x.role \in Role /\ x.role # "owner"
          BY <5>1, <5>2, <5>3 DEF Member, NoMember, In
        <5>5. QED
          BY <5>3, <5>4 DEF Role
      <4>3. plan[g] \in Active(g) \ {u}
        BY <2>20, <3>1, <3>5, <4>1, <4>2 DEF Heir
      <4>4. plan[g] \in User /\ plan[g] # None /\ g \in promoted
        BY <2>11, <4>3, GroupsAssumption DEF Active
      <4>5. members'[g][plan[g]].state = "in" /\ members'[g][plan[g]].role = "owner"
        BY <2>13, <4>3, <4>4 DEF Active
      <4>6. members'[g][plan[g]] = In("owner")
        <5>1. PICK x \in Member : x = members'[g][plan[g]]
          BY <2>13, <4>4
        <5>2. QED
          BY <4>5, <5>1 DEF Member, NoMember, In
      <4>7. QED
        BY <4>4, <4>6 DEF Owners
    <3>6. Owners(members[g]) = {u} \/ \E w \in Owners(members[g]) : w # u
      BY <3>2
    <3>7. ASSUME NEW w \in Owners(members[g]), w # u PROVE Owners(members'[g]) # {}
      <4>1. w \in User /\ members[g][w] = In("owner")
        BY <3>7 DEF Owners
      <4>2. members'[g][w].state = "in" /\ members'[g][w].role = "owner"
        BY <2>13, <3>7, <4>1 DEF In
      <4>3. PICK x \in Member : x = members'[g][w]
        BY <2>13, <4>1
      <4>4. x = In("owner")
        BY <4>2, <4>3 DEF Member, NoMember, In
      <4>5. QED
        BY <4>1, <4>3, <4>4 DEF Owners
    <3>8. QED
      BY <2>11, <3>4, <3>5, <3>6, <3>7
  <2>21. OwnerLostOnlyInRace'
    <3>1. SUFFICES ASSUME NEW g \in Group, groups'[g].state = "open", g \notin raced'
                   PROVE  Owners(members'[g]) # {}
      BY DEF OwnerLostOnlyInRace, Open
    <3>2. Open(g) /\ g \notin closed
      BY <2>12, <3>1 DEF Open
    <3>3. CASE g \in G
      BY <2>20, <3>1, <3>2, <3>3
    <3>4. CASE g \notin G
      BY <2>8, <2>16, <3>1, <3>2, <3>4 DEF IInv, OwnerLostOnlyInRace
    <3>5. QED
      BY <3>3, <3>4
  <2>22. SettledInv'
    <3>1. SUFFICES ASSUME NEW g \in Group, NEW v \in alive', v # u,
                          \/ members'[g][v].state # "in"
                          \/ groups'[g].state # "open" /\ g \notin raced'
                   PROVE  Even(g, v)
      BY <2>3 DEF SettledInv, Open, Even
    <3>2. v \in User /\ v \in alive
      BY <2>3, <2>10
    <3>3. CASE members'[g][v].state # "in"
      BY <2>13, <3>1, <3>2, <3>3 DEF IInv, SettledInv
    <3>4. CASE groups'[g].state # "open" /\ g \notin raced' /\ ~Open(g)
      BY <2>8, <3>2, <3>4 DEF IInv, SettledInv
    <3>5. CASE groups'[g].state # "open" /\ g \notin raced' /\ Open(g)
      <4>1. g \in closed /\ g \in G
        BY <2>11, <2>12, <3>5 DEF Open
      <4>2. v \notin Active(g)
        BY <2>20, <3>1, <3>5, <4>1
      <4>3. QED
        BY <3>2, <4>2 DEF IInv, SettledInv, Active
    <3>6. QED
      BY <3>1, <3>3, <3>4, <3>5
  <2>23. UsedInv' /\ SentInv'
    BY <2>3, <2>15 DEF IInv, UsedInv, SentInv
  <2>24. G \in SUBSET Group
    BY <2>11
  <2>25. Done.held = {} /\ Done \in Transaction /\ TxOk(Done)'
    BY NewType, DoneOk
  <2>26. QED
    BY <2>8, <2>24, <2>25, <2>17, <2>18, <2>19, <2>21, <2>22, <2>23, Committing
<1>3. QED
  BY <1>1, <1>2

-----------------------------------------------------------------------------
(* The invariant holds at first, and every step keeps it.                  *)

LEMMA InitIInv == ASSUME Init PROVE IInv
<1>1. PICK s \in Scenario :
          /\ groups = [g \in Group |->
                [state |-> IF g = First THEN "open" ELSE "free", direct |-> FALSE,
                 by |-> IF g = First THEN CHOOSE u \in User : s.members[u] = In("owner")
                        ELSE None]]
          /\ members = [g \in Group |-> IF g = First THEN s.members
                                        ELSE [u \in User |-> NoMember]]
          /\ invitations = [i \in Invitation |-> IF i \in DOMAIN s.sent THEN s.sent[i]
                                                  ELSE NoInvitation]
          /\ workload = s.ops
  BY DEF Init
<1>2. /\ s.ops \subseteq Operation /\ s.members \in [User -> Member]
      /\ \E u \in User : s.members[u] = In("owner")
      /\ \A i \in DOMAIN s.sent : /\ s.sent[i] \in InvitationRow
                                  /\ s.sent[i].kind = "group" => s.sent[i].group = First
      /\ First \in Group
  BY GroupsAssumption DEF First, Fresh
<1>3. /\ alive = User /\ balance = [g \in Group |-> [u \in User |-> 0]]
      /\ used = [i \in Invitation |-> 0]
      /\ raced = {} /\ drift = {} /\ twins = {} /\ lost = {}
      /\ tx = [r \in Request |-> New]
  BY DEF Init
<1>4. PICK founder \in User : founder = CHOOSE u \in User : s.members[u] = In("owner")
  BY <1>2
<1>5. s.members[founder] = In("owner")
  BY <1>2, <1>4
<1>6. ASSUME NEW g \in Group
      PROVE  /\ groups[g] \in GroupRow /\ groups[g].direct = FALSE
             /\ groups[g].state = IF g = First THEN "open" ELSE "free"
  BY <1>1, <1>4 DEF GroupRow
<1>7. groups \in [Group -> GroupRow]
  <2>1. groups = [g \in Group |-> groups[g]]
    BY <1>1
  <2>2. QED
    BY <1>6, <2>1
<1>8. NoMember \in Member /\ NoMember.state = "none"
  BY DEF Member, NoMember
<1>9. /\ members \in [Group -> [User -> Member]] /\ members[First] = s.members
      /\ \A g \in Group \ {First}, u \in User : members[g][u].state = "none"
  BY <1>1, <1>2, <1>8
<1>10. /\ NoInvitation \in InvitationRow /\ NoInvitation.state = "free"
  BY DEF NoInvitation, InvitationRow, Role
<1>11. invitations \in [Invitation -> InvitationRow]
  BY <1>1, <1>2, <1>10
<1>12. TypeOK
  <2>1. tx \in [Request -> Transaction]
    BY <1>3, NewType
  <2>2. \A g \in Group, u \in User :
            members[g][u].state # "none" => u \in alive /\ groups[g].state # "free"
    BY <1>3, <1>6, <1>9
  <2>3. balance \in [Group -> [User -> -1 .. 1]] /\ used \in [Invitation -> Nat]
    BY <1>3
  <2>4. QED
    BY <1>1, <1>2, <1>3, <1>7, <1>9, <1>11, <2>1, <2>2, <2>3 DEF TypeOK
<1>13. TxInv
  <2>1. New.step = "new" /\ New.held = {} /\ New.group \notin Group
    BY NewType, GroupsAssumption
  <2>2. Placed(New) /\ Judged(New)
    BY <2>1 DEF Placed, Judged
  <2>3. /\ GroupOk(New) /\ KeyOk(New) /\ SeenOk(New) /\ PlanOk(New) /\ SettledOk(New)
        /\ RecordOk(New) /\ AcceptOk(New) /\ MakeOk(New)
    BY <2>1 DEF GroupOk, KeyOk, SeenOk, PlanOk, SettledOk, RecordOk, AcceptOk, MakeOk
  <2>4. QED
    BY <1>3, <2>2, <2>3 DEF TxInv, TxOk
<1>14. LockInv
  BY <1>3, NewType DEF LockInv
<1>15. OwnerLostOnlyInRace
  BY <1>5, <1>6, <1>9 DEF OwnerLostOnlyInRace, Open, Owners
<1>16. SettledInv
  BY <1>3 DEF SettledInv, Even
<1>17. UsedInv
  BY <1>3 DEF UsedInv
<1>18. SentInv
  BY <1>1, <1>2, <1>10 DEF SentInv
<1>19. PairInv
  BY <1>6 DEF PairInv
<1>20. QED
  BY <1>12, <1>13, <1>14, <1>15, <1>16, <1>17, <1>18, <1>19 DEF IInv

LEMMA StutterIInv == ASSUME IInv, UNCHANGED vars PROVE IInv'
<1>1. UNCHANGED <<alive, groups, members, balance, invitations, used, raced, drift, twins,
                  lost, tx, workload>>
  BY DEF vars, rows, ghosts
<1>2. TypeOK' /\ LockInv'
  BY <1>1 DEF IInv, TypeOK, LockInv
<1>3. TxInv'
  <2>1. SUFFICES ASSUME NEW r \in Request, NEW t, t = tx[r]
                 PROVE  TxOk(t)'
    BY <1>1 DEF TxInv
  <2>2. TxOk(t)
    BY <2>1 DEF IInv, TxInv
  <2>3. Placed(t)' /\ Judged(t)' /\ GroupOk(t)' /\ KeyOk(t)' /\ SeenOk(t)' /\ AcceptOk(t)'
    BY <1>1, <2>2 DEF TxOk, Placed, Judged, GroupOk, KeyOk, SeenOk, AcceptOk
  <2>4. PlanOk(t)'
    <3>1. \A g \in Group : Heir(g, t.actor)' = Heir(g, t.actor)
      BY <1>1 DEF Heir, Active, RoleOf, Open
    <3>2. QED
      BY <1>1, <2>2, <3>1 DEF TxOk, PlanOk
  <2>5. SettledOk(t)' /\ RecordOk(t)'
    BY <1>1, <2>2 DEF TxOk, SettledOk, RecordOk, Even, Open
  <2>6. MakeOk(t)'
    BY <1>1, <2>2 DEF TxOk, MakeOk, DirectGroups, Active
  <2>7. QED
    BY <2>3, <2>4, <2>5, <2>6 DEF TxOk
<1>4. OwnerLostOnlyInRace' /\ SettledInv' /\ UsedInv' /\ SentInv' /\ PairInv'
  BY <1>1 DEF IInv, OwnerLostOnlyInRace, SettledInv, UsedInv, SentInv, PairInv, Open, Even, Active
<1>5. QED
  BY <1>2, <1>3, <1>4 DEF IInv

LEMMA NextIInv == ASSUME IInv, Next PROVE IInv'
<1>1. PICK r \in Request : Step(r)
  BY DEF Next
<1>2. CASE Create(r) \/ ArchiveGroup(r) \/ AddGroupMember(r) \/ LeaveGroup(r)
  BY <1>2, StepCreate, StepArchiveGroup, StepAddGroupMember, StepLeaveGroup
<1>3. CASE RemoveGroupMember(r) \/ UpdateGroupMemberRole(r) \/ Record(r) \/ Mutate(r)
  BY <1>3, StepRemoveGroupMember, StepUpdateGroupMemberRole, StepRecord, StepMutate
<1>4. CASE LockGroup(r) \/ ReadBalance(r) \/ CommitArchive(r) \/ CommitAdd(r)
  BY <1>4, StepLockGroup, StepReadBalance, StepCommitArchive, StepCommitAdd
<1>5. CASE CommitRemove(r) \/ CommitRole(r) \/ CommitRecord(r)
  BY <1>5, StepCommitRemove, StepCommitRole, StepCommitRecord
<1>6. CASE InviteToGroup(r) \/ CommitInvite(r) \/ CheckInvitation(r) \/ CommitAccept(r)
  BY <1>6, StepInviteToGroup, StepCommitInvite, StepCheckInvitation, StepCommitAccept
<1>7. CASE AcceptGroupInvitation(r) \/ AcceptFriendInvitation(r)
  BY <1>7, StepAcceptInvitation
<1>8. CASE Befriend(r) \/ LockFriendInvitation(r) \/ CreateFriendExpense(r)
  BY <1>8, StepBefriend, StepLockFriendInvitation, StepCreateFriendExpense
<1>9. CASE FindDirectGroup(r) \/ MakeDirectGroup(r) \/ MarkAccepted(r) \/ AnswerAccepted(r)
  BY <1>9, StepFindDirectGroup, StepMakeDirectGroup, StepMarkAccepted, StepAnswerAccepted
<1>10. CASE DeleteAccount(r) \/ PlanDeletion(r) \/ CommitDelete(r)
  BY <1>10, StepDeleteAccount, StepPlanDeletion, StepCommitDelete
<1>11. CASE Crash(r)
  BY <1>11, StepFail DEF Crash
<1>12. QED
  BY <1>1, <1>2, <1>3, <1>4, <1>5, <1>6, <1>7, <1>8, <1>9, <1>10, <1>11 DEF Step

-----------------------------------------------------------------------------
(* The results.                                                            *)

(* What every transaction under way knows stays true until it commits, in  *)
(* the face of all the others: the group it has locked, the invitation it  *)
(* has locked, the plan it has made.                                       *)
THEOREM GroupsInvariance == Spec => []IInv
<1>1. Init => IInv
  BY InitIInv
<1>2. IInv /\ [Next]_vars => IInv'
  BY NextIInv, StutterIInv
<1>3. QED
  BY <1>1, <1>2, PTL DEF Spec

(* The rows keep their types: a membership has a user and a group, and a   *)
(* balance its bound.                                                      *)
THEOREM GroupsTypes == Spec => []TypeOK
<1>1. IInv => TypeOK
  BY DEF IInv
<1>2. QED
  BY <1>1, GroupsInvariance, PTL

(* An open group loses its last owner only where an acceptance or an       *)
(* account deletion overlapped another change of it                        *)
(* (GroupService.remove_member, update_member_role and                     *)
(* GroupRepository.prepare_for_user_deletion).                             *)
THEOREM OwnersStay == Spec => []OwnerLostOnlyInRace
<1>1. IInv => OwnerLostOnlyInRace
  BY DEF IInv
<1>2. QED
  BY <1>1, GroupsInvariance, PTL

(* Whoever has left, and everybody in an archived group, is settled, but   *)
(* for offline mutations and raced deletions (GroupService.remove_member,  *)
(* archive_group).                                                         *)
THEOREM DeparturesAreSettled == Spec => []DepartureIsSettled
<1>1. IInv => DepartureIsSettled
  BY DEF IInv, SettledInv, DepartureIsSettled, Even
<1>2. QED
  BY <1>1, GroupsInvariance, PTL

(* A group invitation is used once, however many requests present it       *)
(* (GroupInvitationService.accept).                                        *)
THEOREM InvitationsWorkOnce == Spec => []InvitationWorksOnce
<1>1. IInv => InvitationWorksOnce
  BY DEF IInv, UsedInv, InvitationWorksOnce
<1>2. QED
  BY <1>1, GroupsInvariance, PTL

(* Two users share one direct group, but for two requests that make one at *)
(* the same time (GroupRepository.get_direct_group,                        *)
(* GroupService.get_or_create_direct_group).                               *)
THEOREM DirectGroupsAreUnique == Spec => []OneDirectGroup
<1>1. IInv => OneDirectGroup
  <2>1. SUFFICES ASSUME IInv, NEW p \in Pair \ twins
                 PROVE  Cardinality({g \in Group : groups[g].direct /\ p \subseteq Active(g)}) <= 1
    BY DEF OneDirectGroup
  <2> DEFINE S == {g \in Group : groups[g].direct /\ p \subseteq Active(g)}
  <2>2. \A g, h \in S : g = h
    BY <2>1 DEF IInv, PairInv
  <2> HIDE DEF S
  <2>3. CASE S = {}
    BY <2>3, FS_EmptySet DEF S
  <2>4. CASE S # {}
    <3>1. PICK g : S = {g}
      BY <2>2, <2>4
    <3>2. Cardinality(S) = 1
      BY <3>1, FS_Singleton
    <3>3. QED
      BY <3>2 DEF S
  <2>5. QED
    BY <2>3, <2>4
<1>2. QED
  BY <1>1, GroupsInvariance, PTL
=============================================================================
