------------------------------ MODULE TeamAdmin ------------------------------
(* Teams, memberships and the lists that depend on them: team.service.ts,     *)
(* user/services/user-team.service.ts, the data loaders, myProjects and       *)
(* getIssuesForUser.  Several GraphQL operations run at once, each call to    *)
(* the database is a step, and the synchronisation adds teams and takes them  *)
(* away in between (DbSync says which).  A mutation may have several fields,  *)
(* done one after the other and sharing the loaders of the operation; the     *)
(* model gives a query one field.  What is thrown becomes a code in           *)
(* common/exceptions/base.exception.ts and common/filters/.                   *)
(*                                                                            *)
(* Users are never deleted; issues are not updated, and keep their project.   *)
EXTENDS Naturals, FiniteSets, Functions

CONSTANTS
    Operation,          \* the GraphQL operations in flight
    User, Team, Project, Issue,
    HomeOf,             \* the team of a project
    ProjectOf,          \* the project of an issue
    KeyOf,              \* the team an issue is in, maybe not its project's
    UpdatedAt,          \* when an issue was last updated: maybe when others were
    Asked,              \* the fields that clients ask for
    MaxFields,          \* bound: fields of one operation
    MaxOperations,      \* bound: operations that begin
    MaxSync,            \* bound: changes by the synchronisation
    Cap                 \* issues on one page, 100

Mutation == {"addUserToTeam", "removeUserFromTeam", "createTeam"}
Query == {"getTeam", "myProjects", "issues"}
Field == [do : Mutation \cup Query, user : User, team : Team, page : Nat \ {0}, limit : Nat \ {0}]

ASSUME TeamAssumption ==
    /\ HomeOf \in [Project -> Team]
    /\ ProjectOf \in [Issue -> Project]
    /\ KeyOf \in [Issue -> Team]
    /\ UpdatedAt \in [Issue -> Nat] /\ IsFiniteSet(Issue)
    /\ Asked \subseteq Field /\ Asked # {}
    /\ Cap \in Nat \ {0}

VARIABLES
    db,                 \* teams, members, projects, and the issues with a team
    synced,             \* how often the synchronisation changed it
    begun,              \* how many operations there were
    pc, count, field,   \* of an operation: where it is, fields so far, the field
    view,               \* the teams it has read
    teamsOf, projectsOf,\* the caches of its loaders
    reply,              \* what the field was answered
    seen,               \* states of the database since the operation began
    lately              \* and since its field began, or last wrote

vars == <<db, synced, begun, pc, count, field, view, teamsOf, projectsOf, reply, seen, lately>>

TeamsIn(d, u) == {t \in d.teams : <<u, t>> \in d.members}
ProjectsIn(d, teams) == {p \in d.projects : HomeOf[p] \in teams}

None == CHOOSE f \in Asked : TRUE
NotAsked == [asked |-> FALSE, list |-> {}]
Loaded(list) == [asked |-> TRUE, list |-> list]

\* common/exceptions/base.exception.ts for our own, gql-exception.filter.ts for
\* errors of Prisma; what field resolvers throw does not pass the filter.
Code ==
    [TeamNotFoundException             |-> "TEAM_NOT_FOUND",
     TeamAlreadyExistsException        |-> "TEAM_CONFLICT",
     UserTeamRelationNotFoundException |-> "USER_TEAM_RELATION_NOT_FOUND",
     OperationFailedException          |-> "DATABASE_ERROR",
     P2002                             |-> "DUPLICATE_ENTRY",
     otherPrismaError                  |-> "DATABASE_ERROR",
     unfiltered                        |-> "INTERNAL_SERVER_ERROR"]
Codes == {Code[e] : e \in DOMAIN Code} \cup {"ok"}

Answer(code, list, fresh, failed) ==
    [code |-> code, list |-> list, fresh |-> fresh, failed |-> failed]
NoReply == Answer("ok", {}, TRUE, FALSE)

---------------------------------------------------------------------------
Database ==
    {d \in [teams : SUBSET Team, members : SUBSET (User \X Team),
            projects : SUBSET Project, keyed : SUBSET Issue] :
        /\ \A m \in d.members : m[2] \in d.teams
        /\ \A p \in d.projects : HomeOf[p] \in d.teams
        /\ \A i \in d.keyed : ProjectOf[i] \in d.projects /\ KeyOf[i] \in d.teams}

TypeOK ==
    /\ db \in Database
    /\ synced \in Nat /\ begun \in Nat
    /\ pc \in [Operation -> {"idle", "field", "write", "load", "projects", "page", "done"}]
    /\ count \in [Operation -> Nat]
    /\ field \in [Operation -> Field]
    /\ view \in [Operation -> SUBSET Team]
    /\ teamsOf \in [Operation -> [User -> [asked : BOOLEAN, list : SUBSET Team]]]
    /\ projectsOf \in [Operation -> [Team -> [asked : BOOLEAN, list : SUBSET Project]]]
    /\ reply \in [Operation -> [code : Codes, list : SUBSET (Team \cup Project \cup Issue),
                                fresh : BOOLEAN, failed : BOOLEAN]]
    /\ seen \in [Operation -> SUBSET Database]
    /\ lately \in [Operation -> SUBSET Database]

Init ==
    /\ db \in {d \in Database : /\ d.projects = {p \in Project : HomeOf[p] \in d.teams}
                                /\ d.keyed = {i \in Issue : /\ ProjectOf[i] \in d.projects
                                                            /\ KeyOf[i] \in d.teams}}
    /\ synced = 0 /\ begun = 0
    /\ pc = [o \in Operation |-> "idle"]
    /\ count = [o \in Operation |-> 0]
    /\ field = [o \in Operation |-> None]
    /\ view = [o \in Operation |-> {}]
    /\ teamsOf = [o \in Operation |-> [u \in User |-> NotAsked]]
    /\ projectsOf = [o \in Operation |-> [t \in Team |-> NotAsked]]
    /\ reply = [o \in Operation |-> NoReply]
    /\ seen = [o \in Operation |-> {}]
    /\ lately = [o \in Operation |-> {}]

At(o, where) == pc[o] = where
Does(o, do) == field[o].do = do
Goto(o, where) == pc' = [pc EXCEPT ![o] = where] /\ UNCHANGED reply
Reply(o, r) == pc' = [pc EXCEPT ![o] = "done"] /\ reply' = [reply EXCEPT ![o] = r]
Throw(o, e) == Reply(o, Answer(Code[e], {}, TRUE, FALSE))
Failed(o, e) == Reply(o, Answer(Code[e], {}, TRUE, TRUE))

\* A read leaves the database alone; a write is noted by everyone under way.
Reads == UNCHANGED <<db, synced, seen, lately>>
Noted(past, d) == [o \in Operation |-> IF At(o, "idle") THEN past[o] ELSE past[o] \cup {d}]
Writes(o, d) ==
    /\ db' = d
    /\ seen' = Noted(seen, d)
    /\ lately' = [Noted(lately, d) EXCEPT ![o] = {d}]
    /\ UNCHANGED synced
Keeps == UNCHANGED <<begun, count, field, view, teamsOf, projectsOf>>

---------------------------------------------------------------------------
Begin(o, f) ==
    /\ At(o, "idle")
    /\ begun < MaxOperations
    /\ begun' = begun + 1
    /\ pc' = [pc EXCEPT ![o] = "field"]
    /\ count' = [count EXCEPT ![o] = 1]
    /\ field' = [field EXCEPT ![o] = f]
    /\ seen' = [seen EXCEPT ![o] = {db}]
    /\ lately' = [lately EXCEPT ![o] = {db}]
    /\ UNCHANGED <<db, synced, view, teamsOf, projectsOf, reply>>

\* The fields of a mutation are done in turn; an error ends the operation.
NextField(o, f) ==
    /\ At(o, "done") /\ reply[o].code = "ok"
    /\ count[o] < MaxFields
    /\ field[o].do \in Mutation /\ f.do \in Mutation
    /\ pc' = [pc EXCEPT ![o] = "field"]
    /\ count' = [count EXCEPT ![o] = @ + 1]
    /\ field' = [field EXCEPT ![o] = f]
    /\ lately' = [lately EXCEPT ![o] = {db}]
    /\ reply' = [reply EXCEPT ![o] = NoReply]
    /\ UNCHANGED <<db, synced, begun, view, teamsOf, projectsOf, seen>>

\* Mutant: the loaders are singletons.
UnloadNothing(o) == At(o, "done") /\ UNCHANGED <<teamsOf, projectsOf>>

\* The loaders go with the operation (Scope.REQUEST).
Unload(o) ==
    /\ teamsOf' = [teamsOf EXCEPT ![o] = [u \in User |-> NotAsked]]
    /\ projectsOf' = [projectsOf EXCEPT ![o] = [t \in Team |-> NotAsked]]

End(o) ==
    /\ At(o, "done")
    /\ pc' = [pc EXCEPT ![o] = "idle"]
    /\ count' = [count EXCEPT ![o] = 0]
    /\ field' = [field EXCEPT ![o] = None]
    /\ view' = [view EXCEPT ![o] = {}]
    /\ reply' = [reply EXCEPT ![o] = NoReply]
    /\ seen' = [seen EXCEPT ![o] = {}]
    /\ lately' = [lately EXCEPT ![o] = {}]
    /\ Unload(o)
    /\ UNCHANGED <<db, synced, begun>>

Row(o) == <<field[o].user, field[o].team>>

\* Mutant: nobody asks whether the user is a member already.
AddFindUnchecked(o) ==
    /\ At(o, "field") /\ Does(o, "addUserToTeam")
    /\ IF field[o].team \notin db.teams
         THEN Throw(o, "TeamNotFoundException")
         ELSE Goto(o, "write")
    /\ Reads /\ Keeps

\* The transaction reads a snapshot: what it decides, it decides on that.
AddFind(o) ==
    /\ At(o, "field") /\ Does(o, "addUserToTeam")
    /\ IF field[o].team \notin db.teams
         THEN Throw(o, "TeamNotFoundException")
         ELSE Goto(o, IF Row(o) \in db.members THEN "load" ELSE "write")
    /\ Reads /\ Keeps

\* The answer to the commit may be lost.
Commit(o, d, then, error) ==
    /\ Writes(o, d)
    /\ Goto(o, then) \/ Failed(o, error)

AddWrite(o) ==
    /\ At(o, "write") /\ Does(o, "addUserToTeam")
    /\ IF Row(o) \in db.members \/ field[o].team \notin db.teams
         THEN Throw(o, "OperationFailedException") /\ Reads
         ELSE Commit(o, [db EXCEPT !.members = @ \cup {Row(o)}], "load", "OperationFailedException")
    /\ Keeps

RemoveFind(o) ==
    /\ At(o, "field") /\ Does(o, "removeUserFromTeam")
    /\ IF Row(o) \notin db.members
         THEN Throw(o, "UserTeamRelationNotFoundException")
         ELSE Goto(o, "write")
    /\ Reads /\ Keeps

\* deleteMany: that nothing is left to delete is no error.
RemoveWrite(o) ==
    /\ At(o, "write") /\ Does(o, "removeUserFromTeam")
    /\ Commit(o, [db EXCEPT !.members = @ \ {Row(o)}], "load", "OperationFailedException")
    /\ Keeps

CreateFind(o) ==
    /\ At(o, "field") /\ Does(o, "createTeam")
    /\ IF field[o].team \in db.teams
         THEN Throw(o, "TeamAlreadyExistsException")
         ELSE Goto(o, "write")
    /\ Reads /\ Keeps

\* The promise is returned and not awaited: the catch clause never sees P2002.
CreateWrite(o) ==
    /\ At(o, "write") /\ Does(o, "createTeam")
    /\ IF field[o].team \in db.teams
         THEN Throw(o, "P2002") /\ Reads
         ELSE Commit(o, [db EXCEPT !.teams = @ \cup {field[o].team}], "projects", "otherPrismaError")
    /\ view' = [view EXCEPT ![o] = {field[o].team}]
    /\ UNCHANGED <<begun, count, field, teamsOf, projectsOf>>

GetTeam(o) ==
    /\ At(o, "field") /\ Does(o, "getTeam")
    /\ IF field[o].team \notin db.teams
         THEN Throw(o, "TeamNotFoundException")
         ELSE Goto(o, "projects")
    /\ view' = [view EXCEPT ![o] = {field[o].team}]
    /\ Reads /\ UNCHANGED <<begun, count, field, teamsOf, projectsOf>>

\* TeamLoader.byUserId, for the field "teams" of the user and for myProjects.
LoadTeams(o) ==
    LET u == field[o].user
        loader == teamsOf[o][u]
        list == IF loader.asked THEN loader.list ELSE TeamsIn(db, u)
    IN
    /\ \/ At(o, "load")
       \/ At(o, "field") /\ Does(o, "myProjects")
    /\ teamsOf' = [teamsOf EXCEPT ![o][u] = Loaded(list)]
    /\ view' = [view EXCEPT ![o] = list]
    /\ IF Does(o, "myProjects") /\ list # {}
         THEN Goto(o, "projects")
         ELSE Reply(o, Answer("ok", list, ~loader.asked, FALSE))
    /\ Reads /\ UNCHANGED <<begun, count, field, projectsOf>>

\* ProjectLoader.byTeamId, one query for all teams that have not been loaded.
LoadProjects(o) ==
    LET list(t) == IF projectsOf[o][t].asked THEN projectsOf[o][t].list ELSE ProjectsIn(db, {t})
    IN
    /\ At(o, "projects")
    /\ projectsOf' = [projectsOf EXCEPT ![o] =
           [t \in Team |-> IF t \in view[o] THEN Loaded(list(t)) ELSE projectsOf[o][t]]]
    /\ Reply(o, Answer("ok", UNION {list(t) : t \in view[o]}, TRUE, FALSE))
    /\ Reads /\ UNCHANGED <<begun, count, field, view, teamsOf>>

---------------------------------------------------------------------------
\* Pages of issues.  The limit that is asked for decides what is skipped, and the
\* one that is granted what is taken.
Least(a, b) == IF a <= b THEN a ELSE b
Take(limit) == Least(limit, Cap)
SkipTaken(page, limit) == page * Take(limit)     \* mutant: pages from 0
Skip(page, limit) == (page - 1) * limit
HasNext(page, limit, total) == Skip(page, limit) + Take(limit) < total

\* The places that the database may give to the rows of a query: what was updated later
\* comes first, and what was updated at once in any order, in each query anew.
Orders(rows) ==
    {place \in Bijection(rows, 0..Cardinality(rows) - 1) :
        \A j, k \in rows : UpdatedAt[j] > UpdatedAt[k] => place[j] < place[k]}
Page(place, page, limit) ==
    LET skip == Skip(page, limit) IN
    {i \in DOMAIN place : skip <= place[i] /\ place[i] < skip + Take(limit)}

InTeams(d, i, teams) ==
    /\ ProjectOf[i] \in d.projects
    /\ \/ i \in d.keyed /\ KeyOf[i] \in teams
       \/ HomeOf[ProjectOf[i]] \in teams
Visible(d, teams) == {i \in Issue : InTeams(d, i, teams)}

\* Mutant: without a team there is nothing to filter by.
IssuesTeamsAnyway(o) ==
    /\ At(o, "field") /\ Does(o, "issues")
    /\ LET teams == TeamsIn(db, field[o].user) IN
       view' = [view EXCEPT ![o] = IF teams = {} THEN Team ELSE teams]
    /\ Goto(o, "page")
    /\ Reads /\ UNCHANGED <<begun, count, field, teamsOf, projectsOf>>

IssuesTeams(o) ==
    /\ At(o, "field") /\ Does(o, "issues")
    /\ view' = [view EXCEPT ![o] = TeamsIn(db, field[o].user)]
    /\ IF view'[o] = {} THEN Reply(o, NoReply) ELSE Goto(o, "page")
    /\ Reads /\ UNCHANGED <<begun, count, field, teamsOf, projectsOf>>

\* find and count at once; the count shows in hasNext only.
IssuesPage(o) ==
    /\ At(o, "page")
    /\ \E place \in Orders(Visible(db, view[o])) :
           Reply(o, Answer("ok", Page(place, field[o].page, field[o].limit), TRUE, FALSE))
    /\ Reads /\ Keeps

\* A call to the database fails.  myProjects leaves out what it could not load.
Fault(o) ==
    /\ pc[o] \notin {"idle", "done"}
    /\ IF At(o, "projects") /\ Does(o, "myProjects")
         THEN Reply(o, Answer("ok", {}, TRUE, TRUE))
         ELSE Failed(o, CASE field[o].do \in Mutation /\ At(o, "field") -> "OperationFailedException"
                          [] At(o, "load") \/ At(o, "projects") -> "unfiltered"
                          [] OTHER -> "otherPrismaError")
    /\ Reads /\ Keeps

---------------------------------------------------------------------------
\* The synchronisation adds a team of Linear's with its projects and their issues,
\* and deletes a project that Linear does not have, or a team with its projects,
\* if it has no members.
Synchronise(d) ==
    /\ synced < MaxSync
    /\ d # db
    /\ db' = d
    /\ synced' = synced + 1
    /\ seen' = Noted(seen, d)
    /\ lately' = Noted(lately, d)
    /\ UNCHANGED <<begun, pc, count, field, view, teamsOf, projectsOf, reply>>

SyncAdds(t) ==
    LET teams == db.teams \cup {t}
        projects == db.projects \cup {p \in Project : HomeOf[p] = t}
    IN Synchronise([db EXCEPT !.teams = teams, !.projects = projects,
           !.keyed = {i \in Issue : ProjectOf[i] \in projects /\ KeyOf[i] \in teams}])

SyncDrops(t) ==
    /\ \A m \in db.members : m[2] # t
    /\ Synchronise([db EXCEPT !.teams = @ \ {t}, !.projects = {p \in @ : HomeOf[p] # t},
           !.keyed = {i \in @ : KeyOf[i] # t /\ HomeOf[ProjectOf[i]] # t}])

SyncDropsProject(p) ==
    Synchronise([db EXCEPT !.projects = @ \ {p}, !.keyed = {i \in @ : ProjectOf[i] # p}])

Handle(o) ==
    \/ \E f \in Asked : Begin(o, f) \/ NextField(o, f)
    \/ AddFind(o) \/ AddWrite(o) \/ RemoveFind(o) \/ RemoveWrite(o)
    \/ CreateFind(o) \/ CreateWrite(o) \/ GetTeam(o)
    \/ LoadTeams(o) \/ LoadProjects(o) \/ IssuesTeams(o) \/ IssuesPage(o)
    \/ Fault(o) \/ End(o)

Next ==
    \/ \E o \in Operation : Handle(o)
    \/ \E t \in Team : SyncAdds(t) \/ SyncDrops(t)
    \/ \E p \in Project : SyncDropsProject(p)

Spec == Init /\ [][Next]_vars

---------------------------------------------------------------------------
Replied(o, code) == At(o, "done") /\ reply[o].code = code
Listed(o, do) == At(o, "done") /\ Does(o, do) /\ reply[o].code = "ok"
Once(o, P(_)) == \E d \in lately[o] : P(d)
Throughout(o, P(_)) == \A d \in lately[o] : P(d)

\* What an error says of teams and memberships was so while the field was handled;
\* and unless the database failed, "database error" and "duplicate entry" mean
\* that somebody else has just changed what was asked for.
ErrorsEarned ==
    \A o \in Operation :
        LET t == field[o].team
            Exists(d) == t \in d.teams
            Missing(d) == t \notin d.teams
            In(d) == Row(o) \in d.members
            Out(d) == Row(o) \notin d.members
        IN
        /\ Replied(o, "TEAM_NOT_FOUND") => Once(o, Missing)
        /\ Replied(o, "TEAM_CONFLICT") => Once(o, Exists)
        /\ Replied(o, "USER_TEAM_RELATION_NOT_FOUND") => Once(o, Out)
        /\ Replied(o, "DUPLICATE_ENTRY") => Once(o, Exists) /\ Once(o, Missing)
        /\ Replied(o, "DATABASE_ERROR") /\ ~reply[o].failed =>
               \/ Once(o, In) /\ Once(o, Out)
               \/ Once(o, Exists) /\ Once(o, Missing)

\* The teams that a mutation shows of its user are those the user had at an instant
\* of the operation; and if no earlier field has asked for them, at an instant
\* after the change, which they therefore show.
ListsTrue ==
    \A o \in Operation :
        Listed(o, "addUserToTeam") \/ Listed(o, "removeUserFromTeam") =>
            \E d \in IF reply[o].fresh THEN lately[o] ELSE seen[o] :
                reply[o].list = TeamsIn(d, field[o].user)

\* An issue is shown, and a project, only to a user who was in a team of it while
\* the request was handled; and of the projects that were there all the time, in a
\* team that the user was in all the time, myProjects forgets none, unless loading
\* them failed.
MembersSeeTheirs ==
    \A o \in Operation :
        LET u == field[o].user
            Mine(p) == Once(o, LAMBDA d : HomeOf[p] \in TeamsIn(d, u))
            Always(d, p) == p \in ProjectsIn(d, TeamsIn(d, u))
        IN
        /\ Listed(o, "issues") =>
               \A i \in reply[o].list :
                   Mine(ProjectOf[i]) \/ Once(o, LAMBDA d : KeyOf[i] \in TeamsIn(d, u))
        /\ Listed(o, "myProjects") =>
               /\ \A p \in reply[o].list : Mine(p) /\ Once(o, LAMBDA d : p \in d.projects)
               /\ \A p \in Project :
                      Throughout(o, LAMBDA d : Always(d, p)) /\ ~reply[o].failed =>
                          p \in reply[o].list

\* Reading on while there is a next page, one sees the pages before the first that has
\* none, and that one: of total issues, at most as many pages and one.
ReadOn(limit, total) ==
    {page \in 1..total + 1 : \A before \in 1..page - 1 : HasNext(before, limit, total)}

\* What reading on shows, each page of an order of its own: those updated later first;
\* a row that was not updated together with another once; and where a row is left out,
\* another is shown twice.  And it comes to an end.
Complete(rows, limit) ==
    LET total == Cardinality(rows)
        pages == ReadOn(limit, total)
        Alone(i) == \A j \in rows : UpdatedAt[j] = UpdatedAt[i] => j = i
    IN
    /\ \A order \in [pages -> Orders(rows)] :
           LET Shown(page) == Page(order[page], page, limit)
               On(i) == {page \in pages : i \in Shown(page)}
           IN
           /\ \A p, q \in pages : p < q =>
                  \A i \in Shown(p), j \in Shown(q) : UpdatedAt[i] >= UpdatedAt[j]
           /\ \A i \in rows : Alone(i) => \E page \in pages : On(i) = {page}
           /\ (\E i \in rows : On(i) = {}) => \E i \in rows : \E p, q \in On(i) : p # q
    /\ \E page \in pages : ~HasNext(page, limit, total)

\* So it is for the issues of any user, for limits that are granted.
PagesComplete ==
    \A u \in User, limit \in 1..Cap : Complete(Visible(db, TeamsIn(db, u)), limit)

\* Not so for larger ones: a page has Cap issues, and the next begins after limit.
LargePagesComplete ==
    \A u \in User, limit \in 1..Cap + 2 : Complete(Visible(db, TeamsIn(db, u)), limit)

\* And issues that were updated at once may not all be shown, though nothing changes.
EveryIssueShown ==
    \A u \in User, limit \in 1..Cap :
        LET rows == Visible(db, TeamsIn(db, u))
            pages == ReadOn(limit, Cardinality(rows))
        IN  \A order \in [pages -> Orders(rows)] :
                \A i \in rows : \E page \in pages : i \in Page(order[page], page, limit)

\* Nor is what a field shows always what it has done: the loader answers from the
\* field before.
OwnWriteShown ==
    \A o \in Operation :
        /\ Listed(o, "addUserToTeam") \/ Listed(o, "removeUserFromTeam") =>
               \E d \in lately[o] : reply[o].list = TeamsIn(d, field[o].user)

\* Nor are myProjects complete when they say so.
MyProjectsComplete ==
    \A o \in Operation :
        Listed(o, "myProjects") =>
            \A p \in Project :
                Throughout(o, LAMBDA d : p \in ProjectsIn(d, TeamsIn(d, field[o].user))) =>
                    p \in reply[o].list

\* The schema gives every issue a team (issue.model.ts:40), the database does not:
\* an issue may outlive its team, and the page it is on cannot be shown to whoever
\* asks for the team.
IssuesKeepTeam ==
    [][\A i \in db.keyed : ProjectOf[i] \in db'.projects => i \in db'.keyed]_vars
=============================================================================
