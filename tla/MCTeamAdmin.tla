----------------------------- MODULE MCTeamAdmin -----------------------------
(* TeamAdmin for TLC: a user, two teams with a project each, and three issues, *)
(* one of them in another team than its project, and two updated at once.     *)
EXTENDS TeamAdmin, TLC

CONSTANTS o1, o2, u1, t1, t2, p1, p2, i1, i2, i3

Homes == (p1 :> t1) @@ (p2 :> t2)
Projects == (i1 :> p1) @@ (i2 :> p2) @@ (i3 :> p1)
Keys == (i1 :> t1) @@ (i2 :> t2) @@ (i3 :> t2)
Updated == (i1 :> 1) @@ (i2 :> 1) @@ (i3 :> 2)

Ask(do, t, page, limit) == [do |-> do, user |-> u1, team |-> t, page |-> page, limit |-> limit]
Mutations == {Ask("addUserToTeam", t1, 1, 1), Ask("removeUserFromTeam", t1, 1, 1),
              Ask("createTeam", t2, 1, 1)}
Queries == {Ask("getTeam", t2, 1, 1), Ask("myProjects", t1, 1, 1), Ask("issues", t1, 1, 2)}
Alike == Permutations({o1, o2})
Anything == Mutations \cup Queries
=============================================================================
