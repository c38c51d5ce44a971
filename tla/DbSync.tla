-------------------------------- MODULE DbSync --------------------------------
(* dbSynch/: the synchronisation of teams, projects and issues with Linear,   *)
(* next to project webhooks, which may be late, to issue webhooks that create *)
(* the "Unassigned" project, and to what people enter locally: rates, times   *)
(* and team memberships.  The synchronisation asks Linear five times over and *)
(* writes in between, all in one transaction of up to a minute:               *)
(*   - it reads the database as of its first read (repeatable read) with its  *)
(*     own writes on top: "view";                                             *)
(*   - the rows it has written are locked until it ends: "touched".  Others   *)
(*     wait for them, which is to say that their step is not enabled;         *)
(*   - cascades and foreign keys look at the rows that are there now.         *)
(* One question to Linear and the writes that use the answer are one step:    *)
(* nobody sees them before the commit.  All pages of projects of a team and   *)
(* of issues are read, and count as one answer; every other question names no *)
(* page and gets the first one only.                                          *)
EXTENDS Naturals, FiniteSets

CONSTANTS
    Team, Project, Issue, Label, Rate, Time, None,
    Unassigned,         \* the project for issues without one; not in Linear
    Doubtful,           \* teams, issues and labels that Linear may have with a
                        \* text that the sanitizer refuses
    PageSize,           \* what Linear answers to a query without "first"
    MaxEdits,           \* bound on changes in Linear
    MaxLocal,           \* bound on changes to rates, times and memberships
    MaxHooks,           \* bound on webhooks
    MaxFailures,        \* bound on failing synchronisations
    MaxChanges          \* bound on all changes and webhooks together

IssueRow == [project : Project, rev : Nat, labels : SUBSET Label]
LinearIssue ==
    [project : Project \cup {None}, team : Team, rev : Nat, labels : SUBSET Label]

ASSUME DbSyncAssumption ==
    /\ PageSize \in Nat \ {0}
    /\ Unassigned \in Project
    /\ Doubtful \subseteq Team \cup Issue \cup Label
    /\ {MaxEdits, MaxLocal, MaxHooks, MaxFailures, MaxChanges} \subseteq Nat
    /\ None \notin Team \cup Project \cup IssueRow \cup LinearIssue
    /\ Team \cap Project = {} /\ Team \cap Issue = {} /\ Project \cap Issue = {}
    /\ IsFiniteSet(Team) /\ IsFiniteSet(Project)

VARIABLES
    team,               \* the rows of Team
    project,            \* the rows of Project: the team of each, or None
    issue,              \* the rows of Issue, with the labels of each
    rate,               \* the rows of Rate: the team of each, or None
    time,               \* the rows of Time: the project of each, or None
    member,             \* the teams that have rows in UserTeam
    sync,               \* the synchronisation
    linear,             \* environment: the teams, projects and issues in Linear, and
                        \* what of them, or of the labels, is unfit
    used,               \* how much of each bound is used up
    homeless            \* whether an issue webhook has found no project and is
                        \* about to create the "Unassigned" one

synced == <<team, project, issue>>
local == <<rate, time, member>>
vars == <<synced, local, sync, linear, used, homeless>>

View == [team : SUBSET Team, project : [Project -> Team \cup {None}],
         issue : [Issue -> IssueRow \cup {None}], rate : [Rate -> Team \cup {None}]]
Phase == {"idle", "teams", "projectTeams", "projects", "issues", "cleanup",
          "orphanTeams", "commit"}
Calm == {"linear", "local", "others"}

\* todo: the teams whose projects are still to be read; listed: the teams that
\* the cleanup got from Linear; calm: what has not changed since the start: Linear,
\* the database, or at least the projects that Linear does not have.
NoView == [team |-> {}, project |-> [p \in Project |-> None],
           issue |-> [i \in Issue |-> None], rate |-> [r \in Rate |-> None]]
NoSync == [at |-> "idle", todo |-> {}, listed |-> {}, calm |-> Calm,
           view |-> NoView, touched |-> {}]

TypeOK ==
    /\ team \subseteq Team
    /\ project \in [Project -> Team \cup {None}]
    /\ issue \in [Issue -> IssueRow \cup {None}]
    /\ rate \in [Rate -> Team \cup {None}]
    /\ time \in [Time -> Project \cup {None}]
    /\ member \subseteq Team
    /\ sync \in [at : Phase, todo : SUBSET Team, listed : SUBSET Team,
                 calm : SUBSET Calm, view : View,
                 touched : SUBSET (Team \cup Project \cup Issue)]
    /\ linear \in [team : SUBSET Team, project : [Project -> Team \cup {None}],
                   issue : [Issue -> LinearIssue \cup {None}], unfit : SUBSET Doubtful]
    /\ used \in [edits : 0..MaxEdits, local : 0..MaxLocal, hooks : 0..MaxHooks,
                 failures : 0..MaxFailures]
    /\ homeless \in BOOLEAN

\* Teams and projects have been synchronised once; people have entered nothing
\* but memberships.
Init ==
    /\ team \in SUBSET Team
    /\ project \in [Project -> team \cup {None}]
    /\ project[Unassigned] = None
    /\ issue = [i \in Issue |-> None]
    /\ rate = [r \in Rate |-> None]
    /\ time = [k \in Time |-> None]
    /\ member \in SUBSET team
    /\ sync = NoSync
    /\ linear = [team |-> team, project |-> project, issue |-> issue,
                  unfit |-> {}]
    /\ used = [edits |-> 0, local |-> 0, hooks |-> 0, failures |-> 0]
    /\ homeless = FALSE

---------------------------------------------------------------------------
Locked(x) == x \in sync.touched
Projects == {p \in Project : project[p] # None}

\* The database loses the projects in P: their issues and times go with them.
IssuesOf(table, P) == {i \in Issue : table[i] # None /\ table[i].project \in P}
DropProjects(P) == [p \in Project |-> IF p \in P THEN None ELSE project[p]]
DropIssues(P) == [i \in Issue |-> IF i \in IssuesOf(issue, P) THEN None ELSE issue[i]]
DropTimes(P) == [k \in Time |-> IF time[k] \in P THEN None ELSE time[k]]

\* An issue that the synchronisation has put into a project holds on to the row of
\* the project: nobody else changes or deletes it before the end.
Referred(p) ==
    \E i \in IssuesOf(sync.view.issue, {p}) \cap sync.touched : i \notin IssuesOf(issue, {p})

\* Something has changed, maybe while the synchronisation runs.
Disturbed(what) == [sync EXCEPT !.calm = IF sync.at = "idle" THEN @ ELSE @ \ what]

MoreChanges == used.edits + used.local + used.hooks < MaxChanges

(***************************************************************************)
(* Linear                                                                  *)
(***************************************************************************)
LinearProject == Project \ {Unassigned}

\* An issue that goes with the team: it is the team's, or in a project of it.
Within(row, t) ==
    row.team = t \/ (row.project # None /\ linear.project[row.project] = t)

LinearChanges ==
    /\ used.edits < MaxEdits /\ MoreChanges
    /\ \/ \E t \in Team \ linear.team : linear' = [linear EXCEPT !.team = @ \cup {t}]
       \/ \E t \in linear.team :
             linear' = [linear EXCEPT !.team = @ \ {t},
                 !.project = [p \in Project |-> IF @[p] = t THEN None ELSE @[p]],
                 !.issue = [i \in Issue |-> IF @[i] # None /\ Within(@[i], t)
                                             THEN None ELSE @[i]]]
       \/ \E p \in LinearProject, t \in linear.team \cup {None} :
             linear' = [linear EXCEPT !.project[p] = t,
                 !.issue = [i \in Issue |-> IF t = None /\ @[i] # None /\ @[i].project = p
                                             THEN [@[i] EXCEPT !.project = None] ELSE @[i]]]
       \/ \E i \in Issue, p \in {q \in Project : linear.project[q] # None} \cup {None},
             t \in linear.team, labels \in SUBSET Label :
             /\ p # None => t = linear.project[p]
             /\ linear' = [linear EXCEPT !.issue[i] =
                    [project |-> p, team |-> t, rev |-> used.edits + 1, labels |-> labels]]
       \/ \E i \in Issue : linear' = [linear EXCEPT !.issue[i] = None]
       \/ \E x \in Doubtful : linear' = [linear EXCEPT !.unfit = IF x \in @ THEN {} ELSE {x}]
    /\ linear' # linear
    /\ used' = [used EXCEPT !.edits = @ + 1]
    /\ sync' = Disturbed({"linear"})
    /\ UNCHANGED <<synced, local, homeless>>

(***************************************************************************)
(* What people enter, and webhooks                                         *)
(***************************************************************************)
Entered ==
    /\ used.local < MaxLocal /\ MoreChanges
    /\ used' = [used EXCEPT !.local = @ + 1]
    /\ sync' = Disturbed({"local"})
    /\ UNCHANGED <<synced, linear, homeless>>

CreateRate(r, t) ==
    /\ rate[r] = None /\ t \in team /\ ~Locked(t)
    /\ rate' = [rate EXCEPT ![r] = t]
    /\ Entered /\ UNCHANGED <<time, member>>

CreateTime(k, p) ==
    /\ time[k] = None /\ p \in Projects /\ ~Locked(p)
    /\ time' = [time EXCEPT ![k] = p]
    /\ Entered /\ UNCHANGED <<rate, member>>

AddUserToTeam(t) ==
    /\ t \in team \ member /\ ~Locked(t)
    /\ member' = member \cup {t}
    /\ Entered /\ UNCHANGED <<rate, time>>

RemoveUserFromTeam(t) ==
    /\ t \in member
    /\ member' = member \ {t}
    /\ Entered /\ UNCHANGED <<rate, time>>

Hook ==
    /\ used.hooks < MaxHooks /\ MoreChanges
    /\ used' = [used EXCEPT !.hooks = @ + 1]

\* A project webhook, update: its payload has the project as it was at some edit,
\* which may be a while ago, with the first of its teams.  getTeamById throws when
\* that team is not here, and the webhook is dropped.  (A create writes the same, but
\* nothing when the project is here already.)
ProjectWebhook(p, t) ==
    /\ Hook
    /\ IF t \in team
         THEN /\ project[p] # t => ~Locked(t)
              /\ ~Locked(p) /\ ~Referred(p)
              /\ project' = [project EXCEPT ![p] = t]
              /\ sync' = Disturbed({"local"} \cup
                             IF linear.project[p] # None THEN {} ELSE {"others"})
         ELSE UNCHANGED <<project, sync>>
    /\ UNCHANGED <<team, issue, local, linear, homeless>>

\* A project webhook, remove, which may be late as well, and is dropped as well when
\* its team is not here.
ProjectRemoved(p, t) ==
    /\ Hook
    /\ IF t \in team /\ p \in Projects
         THEN /\ ~Locked(p) /\ ~Referred(p)
              /\ IssuesOf(issue, {p}) \cap sync.touched = {}
              /\ project' = DropProjects({p})
              /\ issue' = DropIssues({p})
              /\ time' = DropTimes({p})
              /\ sync' = Disturbed({"local"})
         ELSE UNCHANGED <<project, issue, time, sync>>
    /\ UNCHANGED <<team, rate, member, linear, homeless>>

\* An issue webhook without a project: ensureProjectId looks for any project, and if
\* there is none, creates one under some team unless another handler was faster.
FindNoProject ==
    /\ Projects = {} /\ ~homeless
    /\ Hook
    /\ homeless' = TRUE
    /\ UNCHANGED <<synced, local, sync, linear>>

CreateUnassigned ==
    /\ homeless
    /\ homeless' = FALSE
    /\ \/ \E t \in team :
             /\ Unassigned \notin Projects /\ ~Locked(t) /\ ~Locked(Unassigned)
             /\ project' = [project EXCEPT ![Unassigned] = t]
             /\ sync' = Disturbed({"local", "others"})
       \/ /\ team = {} \/ Unassigned \in Projects
          /\ UNCHANGED <<project, sync>>
    /\ UNCHANGED <<team, issue, local, linear, used>>

(***************************************************************************)
(* The synchronisation                                                     *)
(***************************************************************************)
SyncUnchanged == UNCHANGED <<synced, local, linear, used, homeless>>

\* An error: the transaction is undone, and the administrator is told.
Abort == sync' = NoSync

\* A failing query, the time limit, or a lock that does not come free.
Fail ==
    /\ sync.at # "idle"
    /\ used.failures < MaxFailures
    /\ used' = [used EXCEPT !.failures = @ + 1]
    /\ Abort
    /\ UNCHANGED <<synced, local, linear, homeless>>

Begin ==
    /\ sync.at = "idle"
    /\ sync' = [sync EXCEPT !.at = "teams"]
    /\ SyncUnchanged

\* SanitizationService throws for an id, a text, a date or a colour that is too
\* long or malformed, and what it throws ends the synchronisation.
Refused(things) == things \cap linear.unfit # {}

\* What Linear answers to a query that names no page.
FirstPage(S) == {T \in SUBSET S :
                    \/ T = S /\ Cardinality(S) <= PageSize
                    \/ Cardinality(T) = PageSize}

\* TeamSyncService.synchronize.  The first read: the view begins here.
Teams ==
    /\ sync.at = "teams"
    /\ \E teams \in FirstPage(linear.team) :
          IF Refused(teams)
            THEN Abort
            ELSE sync' = [sync EXCEPT
                     !.at = "projectTeams",
                     !.view = [team |-> team \cup teams, project |-> project,
                               issue |-> issue, rate |-> rate],
                     !.touched = teams]
    /\ SyncUnchanged

ProjectTeams ==
    /\ sync.at = "projectTeams"
    /\ \E teams \in FirstPage(linear.team) :
          sync' = [sync EXCEPT !.at = "projects", !.todo = teams]
    /\ SyncUnchanged

\* synchronizeProjectsForTeam, which sanitizes nothing.  An upsert looks for the row
\* in the view, and fails when the row has come or gone since, or when the team is
\* not there.
CreatesProjects(P) == \A p \in P : sync.view.project[p] = None    \* mutant: no upsert
UpsertsProjects(P) ==
    \A p \in P \ sync.touched : sync.view.project[p] = None <=> project[p] = None

ProjectsOf(t) ==
    LET P == {p \in Project : linear.project[p] = t} IN
    /\ sync.at = "projects"
    /\ t \in sync.todo
    /\ IF UpsertsProjects(P) /\ (P # {} => t \in sync.view.team)
         THEN sync' = [sync EXCEPT
                  !.todo = @ \ {t},
                  !.view.project = [p \in Project |-> IF p \in P THEN t ELSE @[p]],
                  !.touched = @ \cup P]
         ELSE Abort
    /\ SyncUnchanged

ProjectsDone ==
    /\ sync.at = "projects"
    /\ sync.todo = {}
    /\ sync' = [sync EXCEPT !.at = "issues"]
    /\ SyncUnchanged

\* processIssue: issues without a project, or with one that is not in the view,
\* are skipped; an issue without labels keeps the ones it has.  An issue is
\* sanitized with its labels, so that a label that is refused never gets as far as
\* processIssueLabels, which would skip it.  Its team must be in the database.
Wanted == {i \in Issue :
              /\ linear.issue[i] # None
              /\ linear.issue[i].project # None
              /\ sync.view.project[linear.issue[i].project] # None}

\* Mutant: rows that are there are not updated.
AfterSyncCreateOnly(i) ==
    LET new == linear.issue[i] IN
    IF sync.view.issue[i] # None THEN sync.view.issue[i]
    ELSE [project |-> new.project, rev |-> new.rev, labels |-> new.labels]

AfterSync(i) ==
    LET new == linear.issue[i]  old == sync.view.issue[i] IN
    [project |-> new.project, rev |-> new.rev,
     labels |-> IF new.labels = {} /\ old # None THEN old.labels ELSE new.labels]

LabelsOf(I) == UNION {linear.issue[i].labels : i \in I}
IssuesRefused(I) == Refused(I \cup LabelsOf(I))

Issues ==
    /\ sync.at = "issues"
    /\ IF ~IssuesRefused(Wanted) /\ \A i \in Wanted :
              /\ i \notin sync.touched => (sync.view.issue[i] = None <=> issue[i] = None)
              /\ linear.issue[i].project \in sync.touched \cup Projects
              /\ linear.issue[i].team \in sync.view.team
         THEN sync' = [sync EXCEPT
                  !.at = "cleanup",
                  !.view.issue = [i \in Issue |-> IF i \in Wanted THEN AfterSync(i) ELSE @[i]],
                  !.touched = @ \cup Wanted]
         ELSE Abort
    /\ SyncUnchanged

\* cleanupOrphanedProjects, with the cascades.
CleanupProjects ==
    /\ sync.at = "cleanup"
    /\ \E teams \in FirstPage(linear.team),
          projects \in FirstPage({p \in Project : linear.project[p] # None}) :
          LET gone == {p \in Project \ projects : sync.view.project[p] # None} IN
          IF \A p \in gone \ sync.touched : project[p] # None
            THEN sync' = [sync EXCEPT
                     !.at = "orphanTeams",
                     !.listed = teams,
                     !.view.project = [p \in Project |-> IF p \in gone THEN None ELSE @[p]],
                     !.view.issue = [i \in Issue |->
                         IF i \in IssuesOf(@, gone) THEN None ELSE @[i]],
                     !.touched = @ \cup gone \cup IssuesOf(sync.view.issue, gone)]
            ELSE Abort
    /\ SyncUnchanged

\* Mutant: the rates are not looked at.
OrphanTeamsWithRates ==
    {t \in sync.view.team \ sync.listed : \A p \in Project : sync.view.project[p] # t}

\* cleanupOrphanedTeams: a team that Linear does not have goes, unless the view
\* has projects or rates of it.  A membership forbids the deletion.  What is
\* there of the team although the view does not show it goes along.
OrphanTeams ==
    {t \in sync.view.team \ sync.listed :
        /\ \A p \in Project : sync.view.project[p] # t
        /\ \A r \in Rate : sync.view.rate[r] # t}

CleanupTeams ==
    LET late == {p \in Project \ sync.touched : project[p] \in OrphanTeams} IN
    /\ sync.at = "orphanTeams"
    /\ IF OrphanTeams \cap member = {}
         THEN sync' = [sync EXCEPT
                  !.at = "commit",
                  !.view.team = @ \ OrphanTeams,
                  !.view.project = [p \in Project |-> IF p \in late THEN None ELSE @[p]],
                  !.view.issue = [i \in Issue |-> IF i \in IssuesOf(@, late) THEN None ELSE @[i]],
                  !.touched = @ \cup OrphanTeams \cup late]
         ELSE Abort
    /\ SyncUnchanged

\* The rows that were touched become what the view has; the others are left.
Commit ==
    LET kept == team \ sync.touched
        dead == {p \in Project \cap sync.touched : sync.view.project[p] = None} IN
    /\ sync.at = "commit"
    /\ team' = kept \cup (sync.view.team \cap sync.touched)
    /\ project' = [p \in Project |->
           IF p \in sync.touched THEN sync.view.project[p] ELSE project[p]]
    /\ issue' = [i \in Issue |-> IF i \in sync.touched THEN sync.view.issue[i]
                                                        ELSE DropIssues(dead)[i]]
    /\ rate' = [r \in Rate |-> IF rate[r] \in team' THEN rate[r] ELSE None]
    /\ time' = DropTimes(dead)
    /\ sync' = NoSync
    /\ UNCHANGED <<member, linear, used, homeless>>

Step == \/ Teams \/ ProjectTeams \/ (\E t \in Team : ProjectsOf(t)) \/ ProjectsDone
        \/ Issues \/ CleanupProjects \/ CleanupTeams \/ Commit

Next ==
    \/ LinearChanges
    \/ \E r \in Rate, t \in Team : CreateRate(r, t)
    \/ \E k \in Time, p \in Project : CreateTime(k, p)
    \/ \E t \in Team : AddUserToTeam(t) \/ RemoveUserFromTeam(t)
    \/ \E p \in LinearProject, t \in Team : ProjectWebhook(p, t) \/ ProjectRemoved(p, t)
    \/ FindNoProject \/ CreateUnassigned
    \/ Begin \/ Step \/ Fail

\* The queries and the database answer or fail: each has a time limit.  Nothing
\* but an administrator begins a synchronisation; what the temporal properties
\* say is said of administrators who try again.
Spec == Init /\ [][Next]_vars /\ WF_vars(Begin) /\ WF_vars(Step)

---------------------------------------------------------------------------
\* All teams and projects of Linear are on the page that Linear answers with.
OnePage ==
    /\ Cardinality(linear.team) <= PageSize
    /\ Cardinality({p \in Project : linear.project[p] # None}) <= PageSize

\* What Linear's data makes of the database, whatever went before: every team
\* and project of Linear, and no issue of Linear with a project missing or outdated.
Mirrors ==
    /\ linear.team \subseteq team'
    /\ \A p \in Project : linear.project[p] # None => project'[p] = linear.project[p]
    /\ \A i \in Issue : linear.issue[i] # None /\ linear.issue[i].project # None =>
           /\ issue'[i] # None
           /\ issue'[i].rev = linear.issue[i].rev
           /\ issue'[i].project = linear.issue[i].project
           /\ linear.issue[i].labels # {} => issue'[i].labels = linear.issue[i].labels

NoOtherProjects == \A p \in Project : linear.project[p] = None => project'[p] = None

\* A synchronisation that commits leaves what Linear has in the database as Linear
\* has it, although it asks Linear several times over and late webhooks write past
\* teams of projects, remove projects and create others meanwhile, as long as Linear
\* itself does not change, and its teams and projects fit a page.  Other projects
\* are gone unless a webhook meanwhile wrote what Linear does not have.
SyncMirrors ==
    [][Commit /\ OnePage /\ "linear" \in sync.calm =>
           Mirrors /\ ("others" \in sync.calm => NoOtherProjects)]_vars

\* A synchronisation takes away times only along with projects that Linear does
\* not have, keeps the teams with rates and, while nobody enters anything, all
\* the rates; of the other teams only those of Linear stay.
LocalDataKept ==
    [][Commit /\ OnePage /\ "linear" \in sync.calm =>
           /\ \A k \in Time : time'[k] # time[k] => linear.project[time[k]] = None
           /\ "local" \in sync.calm =>
                 /\ rate' = rate
                 /\ team' = linear.team \cup {t \in team : \E r \in Rate : rate[r] = t}]_vars

Orphan(t) ==
    /\ t \in team \ linear.team
    /\ t \notin {rate[r] : r \in Rate}
    /\ \A p \in Projects : project[p] = t => linear.project[p] = None

\* A team that Linear no longer has goes in the end, unless a membership in
\* such a team stands in the way, or something in Linear that the sanitizer
\* refuses.
OrphansHandled ==
    \A t \in Team :
        Orphan(t) ~> \/ ~Orphan(t)
                     \/ \E u \in member : u \notin linear.team
                     \/ linear.unfit # {}

\* team-sync.service.ts:170, "Team no longer exists in Linear (will be handled
\* in cleanup)": such a team goes in the end.
OrphansCleanedUp == \A t \in Team : Orphan(t) ~> ~Orphan(t)

\* cleanup-sync.service.ts:175, "Orphaned team has local data. Keeping it.": a
\* team with rates is kept, and so are its rates.
RatesKept ==
    [][\A r \in Rate : rate[r] # None /\ Commit => rate'[r] = rate[r]]_vars

\* issue-sync.service.ts:337, "Continue processing other labels even if one fails":
\* a label does not end the synchronisation.
LabelsSkipped ==
    [][Issues /\ sync'.at = "idle" => ~Refused(LabelsOf(Wanted)) \/ Refused(Wanted)]_vars

\* project-sync.service.ts:99, "Used when projects are deleted from Linear": the
\* cleanup removes projects that Linear does not have.
OnlyOrphansRemoved ==
    [][\A p \in Projects : Commit /\ "linear" \in sync.calm /\ project'[p] = None
                               => linear.project[p] = None]_vars

\* cleanup-sync.service.ts:142, "Deleting orphaned projects": after a synchronisation
\* the database has no projects but Linear's.
OrphanProjectsDeleted ==
    [][Commit /\ OnePage /\ "linear" \in sync.calm => NoOtherProjects]_vars

\* webhook.service.ts:86, "Team not found for project webhook. Triggering team
\* synchronization.": no webhook is dropped for a team that Linear has.
NoWebhookMissed ==
    [][\A p \in LinearProject, t \in linear.team :
           ProjectWebhook(p, t) => project'[p] = t]_vars
=============================================================================
