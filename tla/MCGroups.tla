----------------------------- MODULE MCGroups -----------------------------
(* Three users, one group that exists, room for another, three requests.  *)
EXTENDS Groups

CONSTANTS u1, u2, u3, i1, i2

\* u1 owns the group; the others have, have had, or do not have a part in it.
Group1(a, b) == [u \in User |-> CASE u = u1 -> In("owner") [] u = u2 -> a [] OTHER -> b]
Left == [role |-> "admin", state |-> "left"]
Asked(role) == GroupInvitation(First, u3, u1, role)

S(ops, m, sent) == [ops |-> ops, members |-> m, sent |-> sent]
None2 == <<>>

MCScenario ==
    LET owners  == {Group1(In("owner"), In("member")), Group1(In("admin"), In("member"))}
        joining == {Group1(In("admin"), NoMember), Group1(In("owner"), Left)}
    IN {S({"create", "remove", "role", "delete"}, m, None2) : m \in owners}
       \union {S({"accept", "remove", "role"}, m,
                 i1 :> Asked("member") @@ i2 :> Asked("admin")) : m \in joining}
       \union {S({"accept", "delete", "record"}, m, i1 :> Asked("member")) :
                 m \in joining \union {Group1(Left, NoMember)}}
       \union {S({"record", "remove", "archive", "mutate"}, m, None2) : m \in owners}
       \union {S({"add", "invite", "accept", "create"}, m, None2) : m \in joining}
       \union {S({"befriend", "acceptFriend", "friendExpense", "delete"},
                 Group1(Left, NoMember), i1 :> FriendInvitation(u2, u1))}
       \union {S({"acceptFriend", "remove", "archive"}, Group1(Left, NoMember),
                 i1 :> FriendInvitation(u2, u1) @@ i2 :> FriendInvitation(u1, u2))}
Requests == Permutations(Request)
=============================================================================
