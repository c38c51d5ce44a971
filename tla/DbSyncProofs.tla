---------------------------- MODULE DbSyncProofs ----------------------------
EXTENDS DbSync, FiniteSetTheorems, TLAPS

\* The database keeps its foreign keys, and what is written relies on them.
ForeignKeys ==
    /\ \A p \in Project : project[p] \in team \cup {None}
    /\ \A i \in Issue : issue[i] # None => issue[i].project \in Projects
    /\ \A r \in Rate : rate[r] \in team \cup {None}
    /\ \A k \in Time : time[k] \in Projects \cup {None}
    /\ member \subseteq team

Started == sync.at \notin {"idle", "teams"}

\* The teams that the transaction has deleted; the projects there will be.
Dropped == {t \in Team \cap sync.touched : t \notin sync.view.team}
Coming ==
    {p \in Project : IF p \in sync.touched THEN sync.view.project[p] # None ELSE project[p] # None}

\* What the transaction has written fits together with what it leaves alone.
Consistent ==
    Started =>
        /\ team \subseteq sync.view.team \cup sync.touched
        /\ sync.view.team \subseteq team \cup sync.touched
        /\ sync.at # "commit" => Dropped = {}
        /\ member \cap Dropped = {}
        /\ \A p \in Project : IF p \in sync.touched
                              THEN sync.view.project[p] \in sync.view.team \cup {None}
                              ELSE project[p] \notin Dropped
        /\ \A i \in Issue \cap sync.touched :
               sync.view.issue[i] # None => sync.view.issue[i].project \in Coming

KeysInv == TypeOK /\ ForeignKeys /\ Consistent

---------------------------------------------------------------------------
\* Linear keeps its own references.
LinearSound ==
    /\ \A p \in Project : linear.project[p] \in linear.team \cup {None}
    /\ \A i \in Issue : linear.issue[i] # None /\ linear.issue[i].project # None =>
           linear.project[linear.issue[i].project] # None

\* Projects that Linear does not have: only what disturbs "others" brings them back.
NotRevived ==
    \A p \in Project \ sync.touched :
        linear.project[p] = None => project[p] \in {None, sync.view.project[p]}

\* The projects of Linear, as far as they have been read.
ProjectsRead ==
    /\ sync.at = "projectTeams" => Project \cap sync.touched = {}
    /\ sync.at = "projects" /\ OnePage =>
           \A p \in Project : linear.project[p] \in linear.team \ sync.todo => p \in sync.touched
    /\ sync.at \in {"projects", "issues", "cleanup"} =>
           \A p \in Project \cap sync.touched : sync.view.project[p] = linear.project[p]

\* Projects and issues that are as in Linear, once they have been written.
ProjectsCopied ==
    \A p \in Project : linear.project[p] # None =>
        p \in sync.touched /\ sync.view.project[p] = linear.project[p]
IssuesCopied ==
    \A i \in Issue : linear.issue[i] # None /\ linear.issue[i].project # None =>
        /\ i \in sync.touched /\ sync.view.issue[i] # None
        /\ sync.view.issue[i].rev = linear.issue[i].rev
        /\ sync.view.issue[i].project = linear.issue[i].project
        /\ linear.issue[i].labels # {} => sync.view.issue[i].labels = linear.issue[i].labels

\* The cleanup leaves no other projects in the view.
OthersGone ==
    /\ sync.listed = linear.team
    /\ \A p \in Project : linear.project[p] = None =>
           /\ sync.view.project[p] = None
           /\ "others" \in sync.calm => p \in sync.touched \/ project[p] = None

CalmSync ==
    Started /\ "linear" \in sync.calm =>
        /\ "others" \in sync.calm => NotRevived
        /\ ProjectsRead
        /\ sync.at # "commit" => Team \cap sync.touched \subseteq linear.team
        /\ OnePage => linear.team \subseteq sync.touched \cap sync.view.team
        /\ sync.at \in {"issues", "cleanup", "orphanTeams", "commit"} /\ OnePage => ProjectsCopied
        /\ sync.at \in {"cleanup", "orphanTeams", "commit"} /\ OnePage => IssuesCopied
        /\ sync.at \in {"orphanTeams", "commit"} /\ OnePage => OthersGone
        /\ sync.at = "commit" /\ OnePage =>
               sync.view.team = linear.team \cup {t \in team : \E r \in Rate : sync.view.rate[r] = t}

RatesSeen == Started /\ "local" \in sync.calm => sync.view.rate = rate

CalmInv == KeysInv /\ LinearSound /\ CalmSync /\ RatesSeen

---------------------------------------------------------------------------
SyncRow == [at : Phase, todo : SUBSET Team, listed : SUBSET Team,
            calm : SUBSET Calm, view : View,
            touched : SUBSET (Team \cup Project \cup Issue)]
LinearRow == [team : SUBSET Team, project : [Project -> Team \cup {None}],
              issue : [Issue -> LinearIssue \cup {None}], unfit : SUBSET Doubtful]

\* A synchronisation that has not begun, and one that something disturbs.
LEMMA IdleTyped == NoSync \in SyncRow
BY DEF NoSync, NoView, SyncRow, View, Phase, Calm

LEMMA DisturbedTyped ==
    ASSUME sync \in SyncRow, NEW what
    PROVE  Disturbed(what) \in SyncRow
BY DEF Disturbed, SyncRow

LEMMA UsedTyped ==
    ASSUME used \in [edits : 0..MaxEdits, local : 0..MaxLocal, hooks : 0..MaxHooks,
                     failures : 0..MaxFailures]
    PROVE  /\ used.edits < MaxEdits => [used EXCEPT !.edits = @ + 1] \in
                  [edits : 0..MaxEdits, local : 0..MaxLocal, hooks : 0..MaxHooks,
                   failures : 0..MaxFailures]
           /\ used.local < MaxLocal => [used EXCEPT !.local = @ + 1] \in
                  [edits : 0..MaxEdits, local : 0..MaxLocal, hooks : 0..MaxHooks,
                   failures : 0..MaxFailures]
           /\ used.hooks < MaxHooks => [used EXCEPT !.hooks = @ + 1] \in
                  [edits : 0..MaxEdits, local : 0..MaxLocal, hooks : 0..MaxHooks,
                   failures : 0..MaxFailures]
           /\ used.failures < MaxFailures => [used EXCEPT !.failures = @ + 1] \in
                  [edits : 0..MaxEdits, local : 0..MaxLocal, hooks : 0..MaxHooks,
                   failures : 0..MaxFailures]
BY DbSyncAssumption

\* The tables that the database's cascades leave.
LEMMA DropTyped ==
    ASSUME TypeOK, NEW P \in SUBSET Project
    PROVE  /\ DropProjects(P) \in [Project -> Team \cup {None}]
           /\ DropIssues(P) \in [Issue -> IssueRow \cup {None}]
           /\ DropTimes(P) \in [Time -> Project \cup {None}]
BY DEF TypeOK, DropProjects, DropIssues, DropTimes

LEMMA LinearTypes ==
    ASSUME TypeOK, LinearChanges
    PROVE  linear' \in LinearRow
<1>1. linear \in LinearRow /\ used.edits \in Nat
  BY DbSyncAssumption DEF TypeOK, LinearRow
<1>2. ASSUME NEW t \in Team \ linear.team, linear' = [linear EXCEPT !.team = @ \cup {t}]
      PROVE  linear' \in LinearRow
  BY <1>1, <1>2 DEF LinearRow
<1>3. ASSUME NEW t \in linear.team,
             linear' = [linear EXCEPT !.team = @ \ {t},
                 !.project = [p \in Project |-> IF @[p] = t THEN None ELSE @[p]],
                 !.issue = [i \in Issue |-> IF @[i] # None /\ Within(@[i], t)
                                             THEN None ELSE @[i]]]
      PROVE  linear' \in LinearRow
  BY <1>1, <1>3 DEF LinearRow
<1>4. ASSUME NEW p \in Project, NEW t \in linear.team \cup {None},
             linear' = [linear EXCEPT !.project[p] = t,
                 !.issue = [i \in Issue |-> IF t = None /\ @[i] # None /\ @[i].project = p
                                             THEN [@[i] EXCEPT !.project = None] ELSE @[i]]]
      PROVE  linear' \in LinearRow
  <2>1. \A i \in Issue : linear.issue[i] # None =>
            [linear.issue[i] EXCEPT !.project = None] \in LinearIssue
    BY <1>1 DEF LinearRow, LinearIssue
  <2> QED
    BY <1>1, <1>4, <2>1 DEF LinearRow
<1>5. ASSUME NEW i \in Issue, NEW p \in Project \cup {None}, NEW t \in linear.team,
             NEW labels \in SUBSET Label,
             linear' = [linear EXCEPT !.issue[i] =
                 [project |-> p, team |-> t, rev |-> used.edits + 1, labels |-> labels]]
      PROVE  linear' \in LinearRow
  BY <1>1, <1>5 DEF LinearRow, LinearIssue
<1>6. ASSUME NEW i \in Issue, linear' = [linear EXCEPT !.issue[i] = None]
      PROVE  linear' \in LinearRow
  BY <1>1, <1>6 DEF LinearRow
<1>7. ASSUME NEW x \in Doubtful,
             linear' = [linear EXCEPT !.unfit = IF x \in @ THEN {} ELSE {x}]
      PROVE  linear' \in LinearRow
  BY <1>1, <1>7 DEF LinearRow
<1> QED
  BY <1>2, <1>3, <1>4, <1>5, <1>6, <1>7 DEF LinearChanges, LinearProject

\* A step of the synchronisation either undoes it or leaves this record behind.
Written(at, todo, listed, view, touched) ==
    sync' \in [at : {at}, todo : {todo}, listed : {listed}, calm : {sync.calm},
               view : {view}, touched : {touched}]

LEMMA WrittenFields ==
    ASSUME sync \in SyncRow, NEW at \in Phase, NEW todo \in SUBSET Team,
           NEW listed \in SUBSET Team, NEW view \in View,
           NEW touched \in SUBSET (Team \cup Project \cup Issue),
           Written(at, todo, listed, view, touched)
    PROVE  /\ sync' \in SyncRow
           /\ sync'.at = at /\ sync'.todo = todo /\ sync'.listed = listed
           /\ sync'.calm = sync.calm /\ sync'.view = view /\ sync'.touched = touched
BY DEF SyncRow, Written

LEMMA TeamsWrites ==
    ASSUME TypeOK, Teams
    PROVE  \/ Abort
           \/ /\ sync' \in SyncRow
              /\ sync'.at = "projectTeams" /\ sync'.calm = sync.calm
              /\ sync'.touched \in FirstPage(linear.team) /\ sync'.touched \subseteq linear.team
              /\ sync'.view.team = team \cup sync'.touched /\ sync'.view.project = project
              /\ sync'.view.issue = issue /\ sync'.view.rate = rate
<1>1. sync \in SyncRow /\ linear.team \subseteq Team
  BY DEF TypeOK, SyncRow
<1> SUFFICES ASSUME NEW teams \in FirstPage(linear.team), ~Abort,
                    sync' = [sync EXCEPT
                        !.at = "projectTeams",
                        !.view = [team |-> team \cup teams, project |-> project,
                                  issue |-> issue, rate |-> rate],
                        !.touched = teams]
             PROVE  /\ sync' \in SyncRow
                    /\ sync'.at = "projectTeams" /\ sync'.calm = sync.calm
                    /\ sync'.touched = teams /\ teams \subseteq linear.team
                    /\ sync'.view.team = team \cup teams /\ sync'.view.project = project
                    /\ sync'.view.issue = issue /\ sync'.view.rate = rate
  BY DEF Teams
<1> DEFINE view == [team |-> team \cup teams, project |-> project,
                    issue |-> issue, rate |-> rate]
<1>2. teams \subseteq linear.team /\ view \in View
  BY <1>1 DEF TypeOK, View, FirstPage
<1>3. Written("projectTeams", sync.todo, sync.listed, view, teams)
  BY <1>1 DEF Written, SyncRow
<1>4. /\ "projectTeams" \in Phase /\ sync.todo \in SUBSET Team /\ sync.listed \in SUBSET Team
      /\ teams \in SUBSET (Team \cup Project \cup Issue)
  BY <1>1, <1>2 DEF SyncRow, Phase
<1>5. /\ view.team = team \cup teams /\ view.project = project
      /\ view.issue = issue /\ view.rate = rate
  OBVIOUS
<1> QED
  BY <1>1, <1>2, <1>3, <1>4, <1>5, WrittenFields

LEMMA ProjectsOfWrites ==
    ASSUME TypeOK, NEW t \in Team, ProjectsOf(t)
    PROVE  LET P == {p \in Project : linear.project[p] = t} IN
           \/ Abort
           \/ /\ sync' \in SyncRow
              /\ sync'.at = "projects" /\ sync'.calm = sync.calm /\ sync'.todo = sync.todo \ {t}
              /\ sync'.view.team = sync.view.team /\ sync'.view.issue = sync.view.issue
              /\ sync'.view.rate = sync.view.rate
              /\ sync'.view.project = [p \in Project |-> IF p \in P THEN t ELSE sync.view.project[p]]
              /\ sync'.touched = sync.touched \cup P
              /\ UpsertsProjects(P) /\ (P # {} => t \in sync.view.team)
<1> DEFINE P == {p \in Project : linear.project[p] = t}
           row == [p \in Project |-> IF p \in P THEN t ELSE sync.view.project[p]]
           view == [sync.view EXCEPT !.project = row]
<1>1. sync \in SyncRow /\ sync.at = "projects"
  BY DEF TypeOK, SyncRow, ProjectsOf
<1>2. view \in View /\ view.team = sync.view.team /\ view.issue = sync.view.issue
      /\ view.rate = sync.view.rate /\ view.project = row
  BY <1>1 DEF SyncRow, View
<1>3. Abort \/ Written("projects", sync.todo \ {t}, sync.listed, view, sync.touched \cup P)
  BY <1>1 DEF ProjectsOf, Written, SyncRow, View
<1>4. /\ "projects" \in Phase /\ sync.todo \ {t} \in SUBSET Team /\ sync.listed \in SUBSET Team
      /\ sync.touched \cup P \in SUBSET (Team \cup Project \cup Issue)
  BY <1>1 DEF SyncRow, Phase
<1>5. Abort \/ (UpsertsProjects(P) /\ (P # {} => t \in sync.view.team))
  BY DEF ProjectsOf
<1> HIDE DEF view, P, row
<1>6. \/ Abort
      \/ /\ sync' \in SyncRow
         /\ sync'.at = "projects" /\ sync'.calm = sync.calm /\ sync'.todo = sync.todo \ {t}
         /\ sync'.view.team = sync.view.team /\ sync'.view.issue = sync.view.issue
         /\ sync'.view.rate = sync.view.rate
         /\ sync'.view.project = row
         /\ sync'.touched = sync.touched \cup P
         /\ UpsertsProjects(P) /\ (P # {} => t \in sync.view.team)
  BY <1>1, <1>2, <1>3, <1>4, <1>5, WrittenFields
<1> QED
  BY <1>6 DEF P, row

LEMMA WantedTyped ==
    ASSUME TypeOK, NEW i \in Wanted
    PROVE  /\ i \in Issue
           /\ linear.issue[i] \in LinearIssue /\ linear.issue[i].project \in Project
           /\ AfterSync(i) \in IssueRow
           /\ AfterSync(i).project = linear.issue[i].project
           /\ AfterSync(i).rev = linear.issue[i].rev
           /\ linear.issue[i].labels # {} => AfterSync(i).labels = linear.issue[i].labels
<1>1. i \in Issue
  BY DEF Wanted
<1>2. /\ linear.issue[i] \in LinearIssue /\ linear.issue[i].project \in Project
      /\ sync.view.issue[i] \in IssueRow \cup {None}
  BY <1>1 DEF TypeOK, Wanted, LinearIssue, View
<1> QED
  BY <1>1, <1>2 DEF AfterSync, LinearIssue, IssueRow

LEMMA IssuesWrites ==
    ASSUME TypeOK, Issues
    PROVE  \/ Abort
           \/ /\ sync' \in SyncRow
              /\ sync'.at = "cleanup" /\ sync'.calm = sync.calm
              /\ sync'.view.team = sync.view.team /\ sync'.view.project = sync.view.project
              /\ sync'.view.rate = sync.view.rate
              /\ sync'.view.issue =
                     [i \in Issue |-> IF i \in Wanted THEN AfterSync(i) ELSE sync.view.issue[i]]
              /\ sync'.touched = sync.touched \cup Wanted
              /\ \A i \in Wanted : linear.issue[i].project \in sync.touched \cup Projects
<1> DEFINE row == [i \in Issue |-> IF i \in Wanted THEN AfterSync(i) ELSE sync.view.issue[i]]
           view == [sync.view EXCEPT !.issue = row]
<1>1. sync \in SyncRow
  BY DEF TypeOK, SyncRow
<1>2. row \in [Issue -> IssueRow \cup {None}] /\ Wanted \subseteq Issue
  BY <1>1, WantedTyped DEF SyncRow, View, Wanted
<1> HIDE DEF row
<1>3. view \in View /\ view.team = sync.view.team /\ view.project = sync.view.project
      /\ view.rate = sync.view.rate /\ view.issue = row
  BY <1>1, <1>2 DEF SyncRow, View
<1>4. Abort \/ Written("cleanup", sync.todo, sync.listed, view, sync.touched \cup Wanted)
  <2>1. Abort \/ sync' = [sync EXCEPT !.at = "cleanup", !.view.issue = row,
                                      !.touched = @ \cup Wanted]
    BY DEF Issues, row
  <2>2. Abort \/ sync' = [sync EXCEPT !.at = "cleanup", !.view = view, !.touched = @ \cup Wanted]
    BY <1>1, <2>1 DEF SyncRow
  <2> HIDE DEF view
  <2> QED
    BY <1>1, <2>2 DEF Written, SyncRow
<1>5. /\ "cleanup" \in Phase /\ sync.todo \in SUBSET Team /\ sync.listed \in SUBSET Team
      /\ sync.touched \cup Wanted \in SUBSET (Team \cup Project \cup Issue)
  BY <1>1, <1>2 DEF SyncRow, Phase
<1>6. Abort \/ \A i \in Wanted : linear.issue[i].project \in sync.touched \cup Projects
  BY DEF Issues
<1> HIDE DEF view
<1>7. \/ Abort
      \/ /\ sync' \in SyncRow
         /\ sync'.at = "cleanup" /\ sync'.calm = sync.calm
         /\ sync'.view.team = sync.view.team /\ sync'.view.project = sync.view.project
         /\ sync'.view.rate = sync.view.rate
         /\ sync'.view.issue = row
         /\ sync'.touched = sync.touched \cup Wanted
         /\ \A i \in Wanted : linear.issue[i].project \in sync.touched \cup Projects
  BY <1>1, <1>3, <1>4, <1>5, <1>6, WrittenFields
<1> QED
  BY <1>7 DEF row

\* The rows that go when the projects in P go.
Without(P) ==
    /\ sync'.view.project = [p \in Project |-> IF p \in P THEN None ELSE sync.view.project[p]]
    /\ sync'.view.issue = [i \in Issue |-> IF i \in IssuesOf(sync.view.issue, P)
                                           THEN None ELSE sync.view.issue[i]]
    /\ sync'.view.rate = sync.view.rate

LEMMA CleanupProjectsWrites ==
    ASSUME TypeOK, CleanupProjects
    PROVE  \/ Abort
           \/ \E teams \in FirstPage(linear.team),
                 projects \in FirstPage({p \in Project : linear.project[p] # None}) :
              LET gone == {p \in Project \ projects : sync.view.project[p] # None} IN
              /\ sync' \in SyncRow
              /\ sync'.at = "orphanTeams" /\ sync'.calm = sync.calm /\ sync'.listed = teams
              /\ sync'.view.team = sync.view.team /\ Without(gone)
              /\ sync'.touched = sync.touched \cup gone \cup IssuesOf(sync.view.issue, gone)
              /\ \A p \in gone \ sync.touched : project[p] # None
<1>1. sync \in SyncRow /\ linear.team \subseteq Team
  BY DEF TypeOK, SyncRow
<1>2. SUFFICES ASSUME ~Abort
      PROVE  \E teams \in FirstPage(linear.team),
                 projects \in FirstPage({p \in Project : linear.project[p] # None}) :
              LET gone == {p \in Project \ projects : sync.view.project[p] # None} IN
              /\ sync' \in SyncRow
              /\ sync'.at = "orphanTeams" /\ sync'.calm = sync.calm /\ sync'.listed = teams
              /\ sync'.view.team = sync.view.team /\ Without(gone)
              /\ sync'.touched = sync.touched \cup gone \cup IssuesOf(sync.view.issue, gone)
              /\ \A p \in gone \ sync.touched : project[p] # None
  OBVIOUS
<1>3. PICK teams \in FirstPage(linear.team),
           projects \in FirstPage({p \in Project : linear.project[p] # None}) :
          LET gone == {p \in Project \ projects : sync.view.project[p] # None} IN
          /\ \A p \in gone \ sync.touched : project[p] # None
          /\ sync' = [sync EXCEPT
                     !.at = "orphanTeams",
                     !.listed = teams,
                     !.view.project = [p \in Project |-> IF p \in gone THEN None ELSE @[p]],
                     !.view.issue = [i \in Issue |->
                         IF i \in IssuesOf(@, gone) THEN None ELSE @[i]],
                     !.touched = @ \cup gone \cup IssuesOf(sync.view.issue, gone)]
  BY <1>2 DEF CleanupProjects
<1> DEFINE gone == {p \in Project \ projects : sync.view.project[p] # None}
           rows == [p \in Project |-> IF p \in gone THEN None ELSE sync.view.project[p]]
           issues == [i \in Issue |-> IF i \in IssuesOf(sync.view.issue, gone)
                                      THEN None ELSE sync.view.issue[i]]
           view == [sync.view EXCEPT !.project = rows, !.issue = issues]
           touched == sync.touched \cup gone \cup IssuesOf(sync.view.issue, gone)
<1>4. teams \in SUBSET Team
  BY <1>1 DEF FirstPage
<1>5. /\ view \in View /\ view.team = sync.view.team /\ view.project = rows
      /\ view.issue = issues /\ view.rate = sync.view.rate
  BY <1>1 DEF SyncRow, View
<1>6. sync' = [sync EXCEPT !.at = "orphanTeams", !.listed = teams, !.view.project = rows,
                           !.view.issue = issues, !.touched = touched]
  BY <1>3
<1>7. /\ "orphanTeams" \in Phase /\ sync.todo \in SUBSET Team
      /\ touched \in SUBSET (Team \cup Project \cup Issue)
  BY <1>1 DEF SyncRow, Phase, IssuesOf
<1>8. \A p \in gone \ sync.touched : project[p] # None
  BY <1>3
<1> HIDE DEF gone, rows, issues, touched
<1>9. Written("orphanTeams", sync.todo, teams, view, touched)
  BY <1>1, <1>6 DEF Written, SyncRow, View
<1> HIDE DEF view
<1>10. /\ sync' \in SyncRow
       /\ sync'.at = "orphanTeams" /\ sync'.calm = sync.calm /\ sync'.listed = teams
       /\ sync'.view.team = sync.view.team /\ sync'.view.project = rows
       /\ sync'.view.issue = issues /\ sync'.view.rate = sync.view.rate
       /\ sync'.touched = touched
  BY <1>1, <1>4, <1>5, <1>7, <1>9, WrittenFields
<1>11. Without(gone)
  BY <1>10 DEF Without, rows, issues
<1> QED
  BY <1>8, <1>10, <1>11 DEF gone, touched

Late == {p \in Project \ sync.touched : project[p] \in OrphanTeams}

LEMMA CleanupTeamsWrites ==
    ASSUME TypeOK, CleanupTeams
    PROVE  \/ Abort
           \/ /\ sync' \in SyncRow
              /\ sync'.at = "commit" /\ sync'.calm = sync.calm /\ sync'.listed = sync.listed
              /\ sync'.view.team = sync.view.team \ OrphanTeams /\ Without(Late)
              /\ sync'.touched = sync.touched \cup OrphanTeams \cup Late
              /\ OrphanTeams \cap member = {}
<1> DEFINE rows == [p \in Project |-> IF p \in Late THEN None ELSE sync.view.project[p]]
           issues == [i \in Issue |-> IF i \in IssuesOf(sync.view.issue, Late)
                                      THEN None ELSE sync.view.issue[i]]
           teams == sync.view.team \ OrphanTeams
           view == [sync.view EXCEPT !.team = teams, !.project = rows, !.issue = issues]
<1>1. sync \in SyncRow /\ Late \subseteq Project /\ OrphanTeams \subseteq Team
  BY DEF TypeOK, SyncRow, Late, OrphanTeams, View
<1>2. /\ view \in View /\ view.team = teams /\ view.project = rows
      /\ view.issue = issues /\ view.rate = sync.view.rate
  BY <1>1 DEF SyncRow, View
<1>3. \/ Abort
      \/ /\ sync' = [sync EXCEPT !.at = "commit", !.view.team = teams, !.view.project = rows,
                           !.view.issue = issues,
                           !.touched = sync.touched \cup OrphanTeams \cup Late]
         /\ OrphanTeams \cap member = {}
  BY DEF CleanupTeams, Late
<1>4. /\ "commit" \in Phase /\ sync.todo \in SUBSET Team /\ sync.listed \in SUBSET Team
      /\ sync.touched \cup OrphanTeams \cup Late \in SUBSET (Team \cup Project \cup Issue)
  BY <1>1 DEF SyncRow, Phase
<1> HIDE DEF rows, issues, teams
<1>5. Abort \/ Written("commit", sync.todo, sync.listed, view,
                       sync.touched \cup OrphanTeams \cup Late)
  BY <1>1, <1>3 DEF Written, SyncRow, View
<1> HIDE DEF view
<1>6. \/ Abort
      \/ /\ sync' \in SyncRow
         /\ sync'.at = "commit" /\ sync'.calm = sync.calm /\ sync'.listed = sync.listed
         /\ sync'.view.team = teams /\ sync'.view.project = rows
         /\ sync'.view.issue = issues /\ sync'.view.rate = sync.view.rate
         /\ sync'.touched = sync.touched \cup OrphanTeams \cup Late
         /\ OrphanTeams \cap member = {}
  BY <1>1, <1>2, <1>3, <1>4, <1>5, WrittenFields
<1> QED
  BY <1>6 DEF rows, issues, teams, Without

\* Each step of the synchronisation.
LEMMA StepTypes ==
    ASSUME TypeOK, Step \/ Begin \/ Fail
    PROVE  sync' \in SyncRow
<1>1. sync \in SyncRow /\ linear \in LinearRow
  BY DEF TypeOK, SyncRow, LinearRow
<1>2. CASE Abort
  BY <1>2, IdleTyped DEF Abort
<1>3. CASE Begin
  BY <1>1, <1>3 DEF Begin, SyncRow, Phase
<1>4. CASE ProjectTeams
  BY <1>1, <1>4 DEF ProjectTeams, SyncRow, LinearRow, Phase, FirstPage
<1>5. CASE ProjectsDone
  BY <1>1, <1>5 DEF ProjectsDone, SyncRow, Phase
<1>6. CASE Commit \/ Fail
  BY <1>6, IdleTyped DEF Commit, Fail, Abort
<1> QED
  BY <1>2, <1>3, <1>4, <1>5, <1>6, TeamsWrites, ProjectsOfWrites, IssuesWrites,
     CleanupProjectsWrites, CleanupTeamsWrites DEF Step

LEMMA CommitTypes ==
    ASSUME TypeOK, Commit
    PROVE  /\ team' \subseteq Team
           /\ project' \in [Project -> Team \cup {None}]
           /\ issue' \in [Issue -> IssueRow \cup {None}]
           /\ rate' \in [Rate -> Team \cup {None}]
           /\ time' \in [Time -> Project \cup {None}]
<1> DEFINE dead == {p \in Project \cap sync.touched : sync.view.project[p] = None}
<1>1. sync \in SyncRow
  BY DEF TypeOK, SyncRow
<1>2. /\ DropIssues(dead) \in [Issue -> IssueRow \cup {None}]
      /\ DropTimes(dead) \in [Time -> Project \cup {None}]
  BY DropTyped
<1> QED
  BY <1>1, <1>2 DEF TypeOK, Commit, SyncRow, View

LEMMA TypesNext == TypeOK /\ [Next]_vars => TypeOK'
<1> SUFFICES ASSUME TypeOK, [Next]_vars PROVE TypeOK'
  OBVIOUS
<1>1. sync \in SyncRow /\ linear \in LinearRow
  BY DEF TypeOK, SyncRow, LinearRow
<1>2. CASE LinearChanges
  BY <1>1, <1>2, LinearTypes, DisturbedTyped, UsedTyped
  DEF TypeOK, LinearChanges, SyncRow, LinearRow, synced, local
<1>3. ASSUME NEW r \in Rate, NEW t \in Team, CreateRate(r, t) PROVE TypeOK'
  BY <1>1, <1>3, DisturbedTyped, UsedTyped DEF TypeOK, CreateRate, Entered, SyncRow, synced
<1>4. ASSUME NEW k \in Time, NEW p \in Project, CreateTime(k, p) PROVE TypeOK'
  BY <1>1, <1>4, DisturbedTyped, UsedTyped DEF TypeOK, CreateTime, Entered, SyncRow, synced
<1>5. ASSUME NEW t \in Team, AddUserToTeam(t) \/ RemoveUserFromTeam(t) PROVE TypeOK'
  BY <1>1, <1>5, DisturbedTyped, UsedTyped
  DEF TypeOK, AddUserToTeam, RemoveUserFromTeam, Entered, SyncRow, synced
<1>6. ASSUME NEW p \in Project, NEW t \in Team, ProjectWebhook(p, t) PROVE TypeOK'
  BY <1>1, <1>6, DisturbedTyped, UsedTyped
  DEF TypeOK, ProjectWebhook, Hook, SyncRow, LinearRow, local
<1>7. ASSUME NEW p \in Project, NEW t \in Team, ProjectRemoved(p, t) PROVE TypeOK'
  <2>1. {p} \in SUBSET Project
    OBVIOUS
  <2> QED
    BY <1>1, <1>7, <2>1, DropTyped, DisturbedTyped, UsedTyped
    DEF TypeOK, ProjectRemoved, Hook, SyncRow
<1>12. CASE FindNoProject
  BY <1>1, <1>12, UsedTyped DEF TypeOK, FindNoProject, Hook, SyncRow, synced, local
<1>13. CASE CreateUnassigned
  <2>1. project' \in [Project -> Team \cup {None}]
    <3>1. CASE project' = project
      BY <3>1 DEF TypeOK
    <3>2. ASSUME NEW t \in team, project' = [project EXCEPT ![Unassigned] = t]
          PROVE  project' \in [Project -> Team \cup {None}]
      BY <3>2, DbSyncAssumption DEF TypeOK
    <3> QED
      BY <1>13, <3>1, <3>2 DEF CreateUnassigned
  <2>2. sync' \in SyncRow
    <3>1. {"local", "others"} \in SUBSET Calm
      BY DEF Calm
    <3> QED
      BY <1>1, <1>13, <3>1, DisturbedTyped DEF CreateUnassigned
  <2>3. /\ UNCHANGED <<team, issue, rate, time, member, linear, used>>
        /\ homeless' \in BOOLEAN
    BY <1>13 DEF CreateUnassigned, local
  <2> QED
    BY <2>1, <2>2, <2>3 DEF TypeOK, SyncRow
<1>8. CASE Commit
  BY <1>8, CommitTypes, IdleTyped DEF TypeOK, Commit, SyncRow
<1>9. CASE Begin \/ (Step /\ ~Commit)
  <2>1. SyncUnchanged
    BY <1>9 DEF Begin, Step, Teams, ProjectTeams, ProjectsOf, ProjectsDone, Issues,
                CleanupProjects, CleanupTeams
  <2> QED
    BY <1>9, <2>1, StepTypes DEF TypeOK, SyncUnchanged, SyncRow, synced, local
<1>10. CASE Fail
  BY <1>10, StepTypes, UsedTyped DEF TypeOK, Fail, SyncRow, synced, local
<1>11. CASE UNCHANGED vars
  BY <1>11 DEF TypeOK, vars, synced, local
<1> QED
  BY <1>2, <1>3, <1>4, <1>5, <1>6, <1>7, <1>8, <1>9, <1>10, <1>11, <1>12, <1>13
  DEF Next, LinearProject

LEMMA TypesInit == Init => TypeOK
<1> SUFFICES ASSUME Init PROVE TypeOK
  OBVIOUS
<1>1. NoSync \in SyncRow
  BY IdleTyped
<1>2. /\ team \subseteq Team /\ member \subseteq Team /\ homeless \in BOOLEAN
      /\ sync = NoSync
  BY DEF Init
<1>3. project \in [Project -> Team \cup {None}]
  BY <1>2 DEF Init
<1>4. /\ issue \in [Issue -> IssueRow \cup {None}]
      /\ issue \in [Issue -> LinearIssue \cup {None}]
      /\ rate \in [Rate -> Team \cup {None}]
      /\ time \in [Time -> Project \cup {None}]
  BY DEF Init
<1>5. linear \in [team : SUBSET Team, project : [Project -> Team \cup {None}],
                  issue : [Issue -> LinearIssue \cup {None}], unfit : SUBSET Doubtful]
  BY <1>2, <1>3, <1>4 DEF Init
<1>6. used \in [edits : 0..MaxEdits, local : 0..MaxLocal, hooks : 0..MaxHooks,
                failures : 0..MaxFailures]
  BY DbSyncAssumption DEF Init
<1> QED
  BY <1>1, <1>2, <1>3, <1>4, <1>5, <1>6 DEF TypeOK, SyncRow

\* Every row, every view and every answer of Linear is what it should be: an issue
\* of Linear without a project, which the table has no room for, is never written.
THEOREM SyncTypes == Spec => []TypeOK
<1> QED
  BY TypesInit, TypesNext, PTL DEF Spec

---------------------------------------------------------------------------
\* A change by somebody else leaves what the synchronisation has read and written.
LEMMA DisturbedFields ==
    ASSUME sync \in SyncRow, NEW what
    PROVE  LET s == Disturbed(what) IN
           /\ s \in SyncRow
           /\ s.at = sync.at /\ s.todo = sync.todo /\ s.listed = sync.listed
           /\ s.view = sync.view /\ s.touched = sync.touched
           /\ s.calm \subseteq sync.calm
           /\ sync.at # "idle" => s.calm = sync.calm \ what
BY DEF Disturbed, SyncRow

\* Nothing but issues of a team, of a project or of neither is named by two tables.
LEMMA Names ==
    ASSUME TypeOK
    PROVE  /\ None \notin Team /\ None \notin Project /\ None \notin IssueRow
           /\ None \notin LinearIssue
           /\ \A x : ~(x \in Team /\ x \in Project) /\ ~(x \in Team /\ x \in Issue)
                         /\ ~(x \in Project /\ x \in Issue)
BY DbSyncAssumption

\* What the database looks like after the commit.
LEMMA CommitWrites ==
    ASSUME TypeOK, Commit
    PROVE  /\ sync' = NoSync /\ member' = member /\ linear' = linear
           /\ team' = (team \ sync.touched) \cup (sync.view.team \cap sync.touched)
           /\ \A p \in Project : project'[p] =
                  IF p \in sync.touched THEN sync.view.project[p] ELSE project[p]
           /\ Projects' = Coming
           /\ \A i \in Issue : i \in sync.touched => issue'[i] = sync.view.issue[i]
           /\ \A i \in Issue \ sync.touched : issue'[i] # None =>
                  issue'[i] = issue[i] /\ ~(issue[i].project \in sync.touched
                                             /\ sync.view.project[issue[i].project] = None)
           /\ \A r \in Rate : rate'[r] = IF rate[r] \in team' THEN rate[r] ELSE None
           /\ \A k \in Time : time'[k] =
                  IF /\ time[k] \in Project \cap sync.touched
                     /\ sync.view.project[time[k]] = None
                  THEN None ELSE time[k]
<1> DEFINE dead == {p \in Project \cap sync.touched : sync.view.project[p] = None}
<1>1. /\ sync' = NoSync /\ member' = member /\ linear' = linear
      /\ team' = (team \ sync.touched) \cup (sync.view.team \cap sync.touched)
      /\ project' = [p \in Project |->
             IF p \in sync.touched THEN sync.view.project[p] ELSE project[p]]
      /\ issue' = [i \in Issue |-> IF i \in sync.touched THEN sync.view.issue[i]
                                                          ELSE DropIssues(dead)[i]]
      /\ rate' = [r \in Rate |-> IF rate[r] \in team' THEN rate[r] ELSE None]
      /\ time' = DropTimes(dead)
  BY DEF Commit
<1>2. Projects' = Coming
  BY <1>1 DEF Projects, Coming
<1>3. /\ \A i \in Issue : i \in sync.touched => issue'[i] = sync.view.issue[i]
      /\ \A i \in Issue \ sync.touched : issue'[i] # None =>
             issue'[i] = issue[i] /\ ~(issue[i].project \in sync.touched
                                        /\ sync.view.project[issue[i].project] = None)
  <2>1. \A i \in Issue : issue[i] # None => issue[i].project \in Project
    BY DEF TypeOK, IssueRow
  <2> QED
    BY <1>1, <2>1 DEF DropIssues, IssuesOf
<1>4. \A k \in Time : time'[k] =
          IF time[k] \in Project \cap sync.touched /\ sync.view.project[time[k]] = None
          THEN None ELSE time[k]
  BY <1>1 DEF DropTimes
<1> QED
  BY <1>1, <1>2, <1>3, <1>4

\* What does not change the tables that are referred to keeps the references.
LEMMA KeysKept ==
    ASSUME KeysInv, team' = team, project' = project, issue' = issue, rate' = rate,
           time' = time, member' = member
    PROVE  ForeignKeys'
BY DEF KeysInv, ForeignKeys, Projects

LEMMA ConsistentKept ==
    ASSUME KeysInv, team' = team, project' = project, member' = member,
           sync'.view = sync.view, sync'.touched = sync.touched,
           sync'.at = sync.at \/ (Started /\ {sync.at, sync'.at} \cap {"commit"} = {})
    PROVE  Consistent'
BY DEF KeysInv, Consistent, Started, Dropped, Coming

LEMMA NotConsistent == sync'.at \in {"idle", "teams"} => Consistent'
BY DEF Consistent, Started

LEMMA KeysMembers ==
    ASSUME KeysInv, NEW t \in Team, AddUserToTeam(t) \/ RemoveUserFromTeam(t)
    PROVE  ForeignKeys' /\ Consistent'
<1>1. TypeOK /\ ForeignKeys /\ Consistent /\ sync \in SyncRow
  BY DEF KeysInv, TypeOK, SyncRow
<1>2. /\ team' = team /\ project' = project /\ issue' = issue /\ rate' = rate /\ time' = time
      /\ sync'.at = sync.at /\ sync'.view = sync.view /\ sync'.touched = sync.touched
  BY <1>1, DisturbedFields DEF AddUserToTeam, RemoveUserFromTeam, Entered, synced
<1>3. ForeignKeys'
  BY <1>1, <1>2 DEF ForeignKeys, AddUserToTeam, RemoveUserFromTeam, Projects
<1>4. Started => member' \cap Dropped = {}
  BY <1>1 DEF Consistent, AddUserToTeam, RemoveUserFromTeam, Dropped, Locked
<1> QED
  BY <1>1, <1>2, <1>3, <1>4 DEF Consistent, Started, Dropped, Coming

\* A project that is written from outside.
LEMMA KeysWritten ==
    ASSUME KeysInv, NEW p \in Project, NEW t \in team,
           project' = [project EXCEPT ![p] = t], p \notin sync.touched,
           t \notin sync.touched \/ project[p] = t,
           UNCHANGED <<team, issue, rate, time, member>>,
           sync'.at = sync.at, sync'.view = sync.view, sync'.touched = sync.touched
    PROVE  ForeignKeys' /\ Consistent'
<1>1. TypeOK /\ ForeignKeys /\ Consistent /\ t # None
  BY Names DEF KeysInv, TypeOK
<1>2. Projects \subseteq Projects'
  BY <1>1 DEF TypeOK, Projects
<1>3. ForeignKeys'
  BY <1>1, <1>2 DEF TypeOK, ForeignKeys
<1>4. Dropped' = Dropped /\ Started' = Started /\ Coming \subseteq Coming'
  BY <1>1, <1>2 DEF TypeOK, Dropped, Started, Coming
<1>5. Started => t \notin Dropped
  BY <1>1 DEF Dropped, Consistent
<1> QED
  BY <1>1, <1>3, <1>4, <1>5 DEF TypeOK, Consistent

LEMMA KeysWebhook ==
    ASSUME KeysInv, NEW p \in Project, NEW t \in Team, ProjectWebhook(p, t)
    PROVE  ForeignKeys' /\ Consistent'
<1>1. TypeOK /\ sync \in SyncRow
  BY DEF KeysInv, TypeOK, SyncRow
<1>2. CASE t \notin team
  BY <1>2, KeysKept, ConsistentKept DEF ProjectWebhook, local
<1>3. CASE t \in team
  <2>1. /\ UNCHANGED <<team, issue, rate, time, member>>
        /\ project' = [project EXCEPT ![p] = t]
        /\ t \notin sync.touched \/ project[p] = t
        /\ p \notin sync.touched
        /\ sync'.at = sync.at /\ sync'.view = sync.view /\ sync'.touched = sync.touched
    BY <1>1, <1>3, DisturbedFields DEF ProjectWebhook, local, Locked
  <2> QED
    BY <1>3, <2>1, KeysWritten
<1> QED
  BY <1>2, <1>3

LEMMA KeysUnassigned ==
    ASSUME KeysInv, CreateUnassigned
    PROVE  ForeignKeys' /\ Consistent'
<1>1. TypeOK /\ sync \in SyncRow /\ Unassigned \in Project
  BY DbSyncAssumption DEF KeysInv, TypeOK, SyncRow
<1>2. CASE UNCHANGED <<project, sync>>
  BY <1>2, KeysKept, ConsistentKept DEF CreateUnassigned, local
<1>3. ASSUME NEW t \in team, ~Locked(t), ~Locked(Unassigned),
             project' = [project EXCEPT ![Unassigned] = t],
             sync' = Disturbed({"local", "others"})
      PROVE  ForeignKeys' /\ Consistent'
  <2>1. /\ UNCHANGED <<team, issue, rate, time, member>>
        /\ t \notin sync.touched /\ Unassigned \notin sync.touched
        /\ sync'.at = sync.at /\ sync'.view = sync.view /\ sync'.touched = sync.touched
    BY <1>1, <1>3, DisturbedFields DEF CreateUnassigned, local, Locked
  <2> QED
    BY <1>1, <1>3, <2>1, KeysWritten
<1> QED
  BY <1>2, <1>3 DEF CreateUnassigned

LEMMA KeysRemoved ==
    ASSUME KeysInv, NEW p \in Project, NEW t \in Team, ProjectRemoved(p, t)
    PROVE  ForeignKeys' /\ Consistent'
<1>1. TypeOK /\ ForeignKeys /\ Consistent /\ sync \in SyncRow
  BY DEF KeysInv, TypeOK, SyncRow
<1>7. CASE UNCHANGED <<project, issue, time, sync>>
  BY <1>7, KeysKept, ConsistentKept DEF ProjectRemoved
<1> SUFFICES ASSUME ~UNCHANGED <<project, issue, time, sync>>
             PROVE  ForeignKeys' /\ Consistent'
  BY <1>7
<1>2. /\ team' = team /\ rate' = rate /\ member' = member
      /\ project' = DropProjects({p}) /\ issue' = DropIssues({p}) /\ time' = DropTimes({p})
      /\ p \notin sync.touched /\ ~Referred(p) /\ IssuesOf(issue, {p}) \cap sync.touched = {}
      /\ sync'.at = sync.at /\ sync'.view = sync.view /\ sync'.touched = sync.touched
  BY <1>1, DisturbedFields DEF ProjectRemoved, Locked
<1>3. ForeignKeys'
  BY <1>1, <1>2, Names
  DEF TypeOK, ForeignKeys, Projects, DropProjects, DropIssues, DropTimes, IssuesOf, IssueRow
<1>4. \A i \in Issue \cap sync.touched :
          sync.view.issue[i] # None => sync.view.issue[i].project # p
  BY <1>2 DEF Referred, IssuesOf
<1>5. Dropped' = Dropped /\ Started' = Started /\ Coming' = Coming \ {p} /\ None \notin Dropped
  BY <1>1, <1>2, Names DEF Dropped, Started, Coming, DropProjects
<1>6. \A q \in Project : project'[q] \in {None, project[q]}
  BY <1>2 DEF DropProjects
<1> QED
  BY <1>1, <1>2, <1>3, <1>4, <1>5, <1>6 DEF Consistent

LEMMA KeysSync ==
    ASSUME KeysInv, Teams \/ ProjectTeams \/ (\E t \in Team : ProjectsOf(t)) \/ ProjectsDone
    PROVE  Consistent'
<1>1. TypeOK /\ ForeignKeys /\ Consistent /\ sync \in SyncRow
  BY DEF KeysInv, TypeOK, SyncRow
<1>2. UNCHANGED <<team, project, issue, member>>
  BY DEF Teams, ProjectTeams, ProjectsOf, ProjectsDone, SyncUnchanged, synced, local
<1>3. CASE Abort
  BY <1>3, NotConsistent DEF Abort, NoSync
<1>4. CASE ProjectTeams \/ ProjectsDone
  <2>1. /\ sync'.view = sync.view /\ sync'.touched = sync.touched
        /\ Started /\ {sync.at, sync'.at} \cap {"commit"} = {}
    BY <1>1, <1>4 DEF ProjectTeams, ProjectsDone, SyncRow, Started
  <2> QED
    BY <1>2, <2>1, ConsistentKept
<1>5. CASE Teams /\ ~Abort
  <2>1. /\ sync'.at = "projectTeams"
        /\ sync'.view.team = team \cup sync'.touched /\ sync'.view.project = project
        /\ sync'.touched \subseteq linear.team
    BY <1>1, <1>5, TeamsWrites
  <2>2. sync'.touched \subseteq Team /\ Dropped' = {}
    BY <1>1, <2>1 DEF TypeOK, Dropped
  <2>3. Project \cap sync'.touched = {} /\ Issue \cap sync'.touched = {}
    BY <1>1, <2>1, <2>2, Names
  <2> QED
    BY <1>2, <2>1, <2>2, <2>3 DEF Consistent
<1>6. ASSUME NEW t \in Team, ProjectsOf(t), ~Abort PROVE Consistent'
  <2> DEFINE P == {p \in Project : linear.project[p] = t}
  <2>1. /\ sync.at = "projects" /\ sync'.at = "projects"
        /\ sync'.view.team = sync.view.team /\ sync'.view.issue = sync.view.issue
        /\ sync'.view.project = [p \in Project |-> IF p \in P THEN t ELSE sync.view.project[p]]
        /\ sync'.touched = sync.touched \cup P
        /\ (P # {} => t \in sync.view.team)
    BY <1>1, <1>6, ProjectsOfWrites DEF ProjectsOf
  <2>2. P \subseteq Project /\ t # None
    BY <1>1, Names
  <2> HIDE DEF P
  <2>3. \A x \in Team \cup Issue : x \in sync'.touched <=> x \in sync.touched
    BY <1>1, <2>1, <2>2, Names
  <2>4. Dropped' = Dropped /\ Coming \subseteq Coming'
    BY <1>2, <2>1, <2>2, <2>3 DEF Dropped, Coming
  <2>5. Started
    BY <2>1 DEF Started
  <2>6. team \subseteq Team /\ sync.view.team \subseteq Team
    BY <1>1 DEF TypeOK, SyncRow, View
  <2> QED
    BY <1>1, <1>2, <2>1, <2>2, <2>3, <2>4, <2>5, <2>6 DEF Consistent
<1> QED
  BY <1>3, <1>4, <1>5, <1>6 DEF ProjectTeams, ProjectsDone

LEMMA KeysIssues ==
    ASSUME KeysInv, Issues
    PROVE  Consistent'
<1>1. TypeOK /\ ForeignKeys /\ Consistent /\ sync \in SyncRow
  BY DEF KeysInv, TypeOK, SyncRow
<1>2. UNCHANGED <<team, project, issue, member>> /\ sync.at = "issues" /\ Started
  BY DEF Issues, SyncUnchanged, synced, local, Started
<1>3. CASE Abort
  BY <1>3, NotConsistent DEF Abort, NoSync
<1>4. CASE ~Abort
  <2>1. /\ sync'.at = "cleanup"
        /\ sync'.view.team = sync.view.team /\ sync'.view.project = sync.view.project
        /\ sync'.view.issue =
               [i \in Issue |-> IF i \in Wanted THEN AfterSync(i) ELSE sync.view.issue[i]]
        /\ sync'.touched = sync.touched \cup Wanted
        /\ \A i \in Wanted : linear.issue[i].project \in sync.touched \cup Projects
    BY <1>1, <1>4, IssuesWrites
  <2>2. \A x \in Team \cup Project : x \in sync'.touched <=> x \in sync.touched
    BY <1>1, <2>1, Names DEF Wanted
  <2>3. Dropped' = Dropped /\ Coming' = Coming
    BY <1>2, <2>1, <2>2 DEF Dropped, Coming
  <2>4. \A i \in Wanted : AfterSync(i).project \in Coming
    <3> SUFFICES ASSUME NEW i \in Wanted PROVE AfterSync(i).project \in Coming
      OBVIOUS
    <3>1. /\ AfterSync(i).project = linear.issue[i].project
          /\ linear.issue[i].project \in Project
      BY <1>1, WantedTyped
    <3>2. sync.view.project[linear.issue[i].project] # None
      BY DEF Wanted
    <3> QED
      BY <2>1, <3>1, <3>2 DEF Coming, Projects
  <2>5. team \subseteq Team /\ sync.view.team \subseteq Team
    BY <1>1 DEF TypeOK, SyncRow, View
  <2> QED
    BY <1>1, <1>2, <2>1, <2>2, <2>3, <2>4, <2>5 DEF Consistent
<1> QED
  BY <1>3, <1>4

LEMMA KeysCleanupProjects ==
    ASSUME KeysInv, CleanupProjects
    PROVE  Consistent'
<1>1. TypeOK /\ ForeignKeys /\ Consistent /\ sync \in SyncRow
  BY DEF KeysInv, TypeOK, SyncRow
<1>2. UNCHANGED <<team, project, issue, member>> /\ sync.at = "cleanup" /\ Started
  BY DEF CleanupProjects, SyncUnchanged, synced, local, Started
<1>3. CASE Abort
  BY <1>3, NotConsistent DEF Abort, NoSync
<1>4. CASE ~Abort
  <2>1. PICK teams \in FirstPage(linear.team),
             projects \in FirstPage({p \in Project : linear.project[p] # None}) :
              LET gone == {p \in Project \ projects : sync.view.project[p] # None} IN
              /\ sync'.at = "orphanTeams"
              /\ sync'.view.team = sync.view.team /\ Without(gone)
              /\ sync'.touched = sync.touched \cup gone \cup IssuesOf(sync.view.issue, gone)
    BY <1>1, <1>4, CleanupProjectsWrites
  <2> DEFINE gone == {p \in Project \ projects : sync.view.project[p] # None}
  <2>2. gone \subseteq Project /\ IssuesOf(sync.view.issue, gone) \subseteq Issue
    BY DEF IssuesOf
  <2> HIDE DEF gone
  <2>3. /\ sync'.view.project = [p \in Project |-> IF p \in gone THEN None ELSE sync.view.project[p]]
        /\ sync'.view.issue = [i \in Issue |-> IF i \in IssuesOf(sync.view.issue, gone)
                                               THEN None ELSE sync.view.issue[i]]
        /\ sync'.touched = sync.touched \cup gone \cup IssuesOf(sync.view.issue, gone)
    BY <2>1 DEF Without, gone
  <2>4. /\ \A x \in Team : x \in sync'.touched <=> x \in sync.touched
        /\ \A x \in Project : x \in sync'.touched <=> x \in sync.touched \cup gone
        /\ \A x \in Issue : x \in sync'.touched <=>
               x \in sync.touched \cup IssuesOf(sync.view.issue, gone)
    BY <1>1, <2>2, <2>3, Names
  <2>5. Dropped' = Dropped
    BY <2>1, <2>4 DEF Dropped
  <2>6. Coming \ gone \subseteq Coming'
    BY <1>2, <2>2, <2>3, <2>4 DEF Coming
  <2>7. \A i \in Issue \cap sync'.touched : sync'.view.issue[i] # None =>
            i \in sync.touched /\ sync'.view.issue[i] = sync.view.issue[i]
                /\ sync.view.issue[i].project \notin gone
    BY <2>3, <2>4 DEF IssuesOf
  <2>8. team \subseteq Team /\ sync.view.team \subseteq Team
    BY <1>1 DEF TypeOK, SyncRow, View
  <2>9. \A p \in Project : IF p \in sync'.touched
                           THEN sync'.view.project[p] \in sync'.view.team \cup {None}
                           ELSE project[p] \notin Dropped
    BY <1>1, <1>2, <2>1, <2>3, <2>4 DEF Consistent
  <2>10. \A i \in Issue \cap sync'.touched :
             sync'.view.issue[i] # None => sync'.view.issue[i].project \in Coming'
    BY <1>1, <1>2, <2>6, <2>7 DEF Consistent
  <2> QED
    BY <1>1, <1>2, <2>1, <2>4, <2>5, <2>8, <2>9, <2>10 DEF Consistent
<1> QED
  BY <1>3, <1>4

LEMMA KeysCleanupTeams ==
    ASSUME KeysInv, CleanupTeams
    PROVE  Consistent'
<1>1. TypeOK /\ ForeignKeys /\ Consistent /\ sync \in SyncRow
  BY DEF KeysInv, TypeOK, SyncRow
<1>2. UNCHANGED <<team, project, issue, member>> /\ sync.at = "orphanTeams" /\ Started
  BY DEF CleanupTeams, SyncUnchanged, synced, local, Started
<1>3. CASE Abort
  BY <1>3, NotConsistent DEF Abort, NoSync
<1>4. CASE ~Abort
  <2>1. /\ sync'.at = "commit"
        /\ sync'.view.team = sync.view.team \ OrphanTeams
        /\ sync'.touched = sync.touched \cup OrphanTeams \cup Late
        /\ sync'.view.project = [p \in Project |-> IF p \in Late THEN None ELSE sync.view.project[p]]
        /\ sync'.view.issue = [i \in Issue |-> IF i \in IssuesOf(sync.view.issue, Late)
                                               THEN None ELSE sync.view.issue[i]]
        /\ OrphanTeams \cap member = {}
    BY <1>1, <1>4, CleanupTeamsWrites DEF Without
  <2>2. /\ Late \subseteq Project /\ OrphanTeams \subseteq sync.view.team
        /\ team \subseteq Team /\ sync.view.team \subseteq Team
        /\ \A p \in Project : sync.view.project[p] \notin OrphanTeams
        /\ \A p \in Project \ sync.touched : project[p] \in OrphanTeams => p \in Late
    BY <1>1 DEF TypeOK, SyncRow, View, Late, OrphanTeams
  <2>3. /\ \A x \in Team : x \in sync'.touched <=> x \in sync.touched \cup OrphanTeams
        /\ \A x \in Project : x \in sync'.touched <=> x \in sync.touched \cup Late
        /\ \A x \in Issue : x \in sync'.touched <=> x \in sync.touched
    BY <1>1, <2>1, <2>2, Names
  <2>4. Dropped = {}
    BY <1>1, <1>2 DEF Consistent
  <2>5. Dropped' \subseteq OrphanTeams
    BY <2>1, <2>3, <2>4 DEF Dropped
  <2>6. Coming \ Late \subseteq Coming'
    BY <1>2, <2>1, <2>2, <2>3 DEF Coming
  <2>7. \A i \in Issue \cap sync'.touched : sync'.view.issue[i] # None =>
            i \in sync.touched /\ sync'.view.issue[i] = sync.view.issue[i]
                /\ sync.view.issue[i].project \notin Late
    BY <2>1, <2>3 DEF IssuesOf
  <2>8. \A i \in Issue \cap sync'.touched :
            sync'.view.issue[i] # None => sync'.view.issue[i].project \in Coming'
    BY <1>1, <1>2, <2>6, <2>7 DEF Consistent
  <2>9. \A p \in Project : IF p \in sync'.touched
                           THEN sync'.view.project[p] \in sync'.view.team \cup {None}
                           ELSE project[p] \notin Dropped'
    BY <1>1, <1>2, <2>1, <2>2, <2>3, <2>5 DEF Consistent
  <2> QED
    BY <1>1, <1>2, <2>1, <2>2, <2>3, <2>5, <2>8, <2>9 DEF Consistent
<1> QED
  BY <1>3, <1>4

LEMMA KeysCommit ==
    ASSUME KeysInv, Commit
    PROVE  ForeignKeys' /\ Consistent'
<1>1. TypeOK /\ ForeignKeys /\ Consistent /\ Started
  BY DEF KeysInv, Commit, Started
<1>2. /\ team \subseteq sync.view.team \cup sync.touched
      /\ sync.view.team \subseteq team \cup sync.touched
      /\ team \subseteq Team /\ sync.view.team \subseteq Team
  BY <1>1 DEF Consistent, TypeOK, View
<1>3. sync.view.team \subseteq team' /\ \A t \in team : t \notin Dropped => t \in team'
  BY <1>1, <1>2, CommitWrites DEF Dropped
<1>4. \A p \in Project : project'[p] \in team' \cup {None}
  BY <1>1, <1>3, CommitWrites DEF ForeignKeys, Consistent
<1>5. \A i \in Issue : issue'[i] # None => issue'[i].project \in Projects'
  <2> SUFFICES ASSUME NEW i \in Issue, issue'[i] # None
               PROVE  issue'[i].project \in Coming
    BY <1>1, CommitWrites
  <2>1. CASE i \in sync.touched
    BY <1>1, <2>1, CommitWrites DEF Consistent
  <2>2. CASE i \notin sync.touched
    BY <1>1, <2>2, CommitWrites DEF ForeignKeys, Coming, Projects
  <2> QED
    BY <2>1, <2>2
<1>6. \A r \in Rate : rate'[r] \in team' \cup {None}
  BY <1>1, CommitWrites
<1>7. \A k \in Time : time'[k] \in Projects' \cup {None}
  BY <1>1, CommitWrites DEF ForeignKeys, Projects, Coming
<1>8. member' \subseteq team'
  BY <1>1, <1>3, CommitWrites DEF ForeignKeys, Consistent
<1>9. Consistent'
  BY <1>1, CommitWrites, NotConsistent DEF NoSync
<1> QED
  BY <1>4, <1>5, <1>6, <1>7, <1>8, <1>9 DEF ForeignKeys

LEMMA KeysInit == Init => KeysInv
<1> SUFFICES ASSUME Init PROVE KeysInv
  OBVIOUS
<1>1. TypeOK
  BY TypesInit
<1>2. ForeignKeys
  BY <1>1 DEF Init, ForeignKeys, TypeOK
<1>3. Consistent
  BY DEF Init, NoSync, Consistent, Started
<1> QED
  BY <1>1, <1>2, <1>3 DEF KeysInv

LEMMA KeysNext == KeysInv /\ [Next]_vars => KeysInv'
<1> SUFFICES ASSUME KeysInv, [Next]_vars PROVE KeysInv'
  OBVIOUS
<1>1. TypeOK /\ TypeOK' /\ sync \in SyncRow
  BY TypesNext DEF KeysInv, TypeOK, SyncRow
<1> SUFFICES ForeignKeys' /\ Consistent'
  BY <1>1 DEF KeysInv
<1>2. CASE LinearChanges
  BY <1>1, <1>2, KeysKept, ConsistentKept, DisturbedFields
  DEF LinearChanges, synced, local, KeysInv
<1>3. ASSUME NEW r \in Rate, NEW t \in Team, CreateRate(r, t) PROVE ForeignKeys' /\ Consistent'
  <2>1. /\ team' = team /\ project' = project /\ issue' = issue
        /\ time' = time /\ member' = member
        /\ sync'.at = sync.at /\ sync'.view = sync.view /\ sync'.touched = sync.touched
        /\ t \in team /\ rate' = [rate EXCEPT ![r] = t]
    BY <1>1, <1>3, DisturbedFields DEF CreateRate, Entered, synced
  <2>2. ForeignKeys'
    BY <1>1, <2>1 DEF KeysInv, ForeignKeys, TypeOK, Projects
  <2> QED
    BY <2>1, <2>2, ConsistentKept
<1>4. ASSUME NEW k \in Time, NEW p \in Project, CreateTime(k, p)
      PROVE  ForeignKeys' /\ Consistent'
  <2>1. /\ team' = team /\ project' = project /\ issue' = issue
        /\ rate' = rate /\ member' = member
        /\ sync'.at = sync.at /\ sync'.view = sync.view /\ sync'.touched = sync.touched
        /\ p \in Projects /\ time' = [time EXCEPT ![k] = p]
    BY <1>1, <1>4, DisturbedFields DEF CreateTime, Entered, synced
  <2>2. ForeignKeys'
    BY <1>1, <2>1 DEF KeysInv, ForeignKeys, TypeOK, Projects
  <2> QED
    BY <2>1, <2>2, ConsistentKept
<1>5. ASSUME NEW t \in Team, AddUserToTeam(t) \/ RemoveUserFromTeam(t)
      PROVE  ForeignKeys' /\ Consistent'
  BY <1>5, KeysMembers
<1>6. ASSUME NEW p \in Project, NEW t \in Team, ProjectWebhook(p, t) \/ ProjectRemoved(p, t)
      PROVE  ForeignKeys' /\ Consistent'
  BY <1>6, KeysWebhook, KeysRemoved
<1>12. CASE FindNoProject
  BY <1>12, KeysKept, ConsistentKept DEF FindNoProject, synced, local
<1>7. CASE Begin
  <2>1. UNCHANGED <<synced, local>> /\ sync'.at = "teams"
    BY <1>1, <1>7 DEF Begin, SyncUnchanged, SyncRow
  <2> QED
    BY <2>1, KeysKept, NotConsistent DEF synced, local
<1>8. CASE Fail
  <2>1. UNCHANGED <<synced, local>> /\ sync'.at = "idle"
    BY <1>8 DEF Fail, Abort, NoSync
  <2> QED
    BY <2>1, KeysKept, NotConsistent DEF synced, local
<1>9. CASE Step /\ ~Commit
  <2>1. UNCHANGED <<synced, local>>
    BY <1>9 DEF Step, Teams, ProjectTeams, ProjectsOf, ProjectsDone, Issues,
                CleanupProjects, CleanupTeams, SyncUnchanged
  <2>2. ForeignKeys'
    BY <2>1, KeysKept DEF synced, local
  <2>3. Consistent'
    BY <1>9, KeysSync, KeysIssues, KeysCleanupProjects, KeysCleanupTeams DEF Step
  <2> QED
    BY <2>2, <2>3
<1>10. CASE Commit
  BY <1>10, KeysCommit
<1>11. CASE UNCHANGED vars
  BY <1>11, KeysKept, ConsistentKept DEF vars, synced, local, KeysInv
<1> QED
  BY <1>2, <1>3, <1>4, <1>5, <1>6, <1>7, <1>8, <1>9, <1>10, <1>11, <1>12, KeysUnassigned
  DEF Next, LinearProject

---------------------------------------------------------------------------
LEMMA LinearSoundNext ==
    ASSUME TypeOK, LinearSound, LinearChanges
    PROVE  LinearSound'
<1>1. linear \in LinearRow /\ None \notin Project
  BY Names DEF TypeOK, LinearRow
<1>2. \A i \in Issue : linear.issue[i] # None =>
          linear.issue[i] \in LinearIssue /\ linear.issue[i].project \in Project \cup {None}
  BY <1>1 DEF LinearRow, LinearIssue
<1>3. ASSUME NEW t \in Team \ linear.team, linear' = [linear EXCEPT !.team = @ \cup {t}]
      PROVE  LinearSound'
  BY <1>1, <1>3 DEF LinearSound, LinearRow
<1>4. ASSUME NEW t \in linear.team,
             linear' = [linear EXCEPT !.team = @ \ {t},
                 !.project = [p \in Project |-> IF @[p] = t THEN None ELSE @[p]],
                 !.issue = [i \in Issue |-> IF @[i] # None /\ Within(@[i], t)
                                             THEN None ELSE @[i]]]
      PROVE  LinearSound'
  <2>1. /\ linear'.team = linear.team \ {t}
        /\ \A p \in Project : linear'.project[p] =
               IF linear.project[p] = t THEN None ELSE linear.project[p]
        /\ \A i \in Issue : linear'.issue[i] # None =>
               /\ linear'.issue[i] = linear.issue[i]
               /\ ~(linear.issue[i].project # None
                       /\ linear.project[linear.issue[i].project] = t)
    BY <1>1, <1>4 DEF LinearRow, Within
  <2> QED
    BY <1>2, <2>1 DEF LinearSound
<1>5. ASSUME NEW p \in Project, NEW t \in linear.team \cup {None},
             linear' = [linear EXCEPT !.project[p] = t,
                 !.issue = [i \in Issue |-> IF t = None /\ @[i] # None /\ @[i].project = p
                                             THEN [@[i] EXCEPT !.project = None] ELSE @[i]]]
      PROVE  LinearSound'
  <2>1. /\ linear'.team = linear.team
        /\ \A q \in Project : linear'.project[q] = IF q = p THEN t ELSE linear.project[q]
        /\ \A i \in Issue : linear'.issue[i] =
               IF t = None /\ linear.issue[i] # None /\ linear.issue[i].project = p
               THEN [linear.issue[i] EXCEPT !.project = None] ELSE linear.issue[i]
    BY <1>1, <1>5 DEF LinearRow
  <2>2. \A i \in Issue : linear.issue[i] # None =>
            [linear.issue[i] EXCEPT !.project = None].project = None
    BY <1>2 DEF LinearIssue
  <2>3. ASSUME NEW q \in Project PROVE linear'.project[q] \in linear'.team \cup {None}
    BY <2>1 DEF LinearSound
  <2>4. ASSUME NEW i \in Issue, linear'.issue[i] # None, linear'.issue[i].project # None
        PROVE  linear'.project[linear'.issue[i].project] # None
    <3>1. linear.issue[i] # None
      BY <2>1, <2>4
    <3>2. linear'.issue[i] = linear.issue[i]
      BY <2>1, <2>2, <2>4, <3>1
    <3>3. /\ linear.project[linear.issue[i].project] # None
          /\ linear.issue[i].project \in Project
      BY <1>2, <2>4, <3>1, <3>2 DEF LinearSound
    <3>4. linear.issue[i].project = p => t # None
      BY <2>1, <2>2, <2>4, <3>1, <3>2
    <3> QED
      BY <2>1, <3>2, <3>3, <3>4
  <2> QED
    BY <2>3, <2>4 DEF LinearSound
<1>6. ASSUME NEW i \in Issue,
             NEW p \in {q \in Project : linear.project[q] # None} \cup {None},
             NEW t \in linear.team, NEW labels \in SUBSET Label,
             linear' = [linear EXCEPT !.issue[i] =
                 [project |-> p, team |-> t, rev |-> used.edits + 1, labels |-> labels]]
      PROVE  LinearSound'
  BY <1>1, <1>6 DEF LinearSound, LinearRow
<1>7. ASSUME NEW i \in Issue, linear' = [linear EXCEPT !.issue[i] = None]
      PROVE  LinearSound'
  BY <1>1, <1>7 DEF LinearSound, LinearRow
<1>8. ASSUME NEW x \in Doubtful,
             linear' = [linear EXCEPT !.unfit = IF x \in @ THEN {} ELSE {x}]
      PROVE  LinearSound'
  BY <1>1, <1>8 DEF LinearSound, LinearRow
<1> QED
  BY <1>3, <1>4, <1>5, <1>6, <1>7, <1>8 DEF LinearChanges, LinearProject

\* A set that fits a page is the page.
LEMMA OnePageIsAll ==
    ASSUME NEW S, IsFiniteSet(S), Cardinality(S) <= PageSize, NEW T \in FirstPage(S)
    PROVE  T = S
<1>1. T \in SUBSET S /\ (T = S \/ Cardinality(T) = PageSize)
  BY DEF FirstPage
<1>2. /\ Cardinality(T) <= Cardinality(S)
      /\ Cardinality(S) = Cardinality(T) => S = T
      /\ IsFiniteSet(T)
  BY <1>1, FS_Subset
<1>3. Cardinality(S) \in Nat /\ Cardinality(T) \in Nat /\ PageSize \in Nat
  BY <1>2, FS_CardinalityType, DbSyncAssumption
<1> QED
  BY <1>1, <1>2, <1>3

LEMMA LinearFinite ==
    ASSUME TypeOK
    PROVE  /\ IsFiniteSet(linear.team)
           /\ IsFiniteSet({p \in Project : linear.project[p] # None})
<1>1. linear.team \in SUBSET Team
  BY DEF TypeOK
<1>2. {p \in Project : linear.project[p] # None} \in SUBSET Project
  OBVIOUS
<1> QED
  BY <1>1, <1>2, FS_Subset, DbSyncAssumption

\* What others do between two steps of a synchronisation.
LEMMA CalmKept ==
    ASSUME CalmInv, linear' = linear, team' = team, sync'.calm \subseteq sync.calm,
           sync'.at = sync.at, sync'.view = sync.view, sync'.touched = sync.touched,
           sync'.todo = sync.todo, sync'.listed = sync.listed,
           "others" \in sync'.calm => \A p \in Project :
               linear.project[p] = None => project'[p] \in {None, project[p]}
    PROVE  CalmSync'
<1> SUFFICES ASSUME Started', "linear" \in sync'.calm, Started, "linear" \in sync.calm
             PROVE  CalmSync'
  BY DEF CalmSync, Started
<1>1. ("others" \in sync.calm => NotRevived) /\ ProjectsRead
  BY DEF CalmInv, CalmSync
<1>2. ("others" \in sync'.calm => NotRevived') /\ ProjectsRead'
  BY <1>1 DEF NotRevived, ProjectsRead, OnePage
<1>3. /\ OnePage' = OnePage /\ ProjectsCopied' = ProjectsCopied
      /\ IssuesCopied' = IssuesCopied /\ (OthersGone => OthersGone')
  BY DEF OnePage, ProjectsCopied, IssuesCopied, OthersGone
<1> QED
  BY <1>2, <1>3 DEF CalmInv, CalmSync

LEMMA NotCalm == sync'.at \in {"idle", "teams"} => CalmSync' /\ RatesSeen'
BY DEF CalmSync, RatesSeen, Started

LEMMA CalmTeams ==
    ASSUME CalmInv, Teams
    PROVE  CalmSync' /\ RatesSeen'
<1>1. TypeOK /\ sync \in SyncRow
  BY DEF CalmInv, KeysInv, TypeOK, SyncRow
<1>2. UNCHANGED <<team, project, issue, rate, linear>>
  BY DEF Teams, SyncUnchanged, synced, local
<1>3. CASE Abort
  BY <1>3, NotCalm DEF Abort, NoSync
<1>4. CASE ~Abort
  <2>1. /\ sync'.at = "projectTeams"
        /\ sync'.view.team = team \cup sync'.touched /\ sync'.view.project = project
        /\ sync'.view.rate = rate /\ sync'.touched \subseteq linear.team
        /\ sync'.touched \in FirstPage(linear.team)
    BY <1>1, <1>4, TeamsWrites
  <2>2. Project \cap sync'.touched = {}
    BY <1>1, <2>1, Names DEF TypeOK
  <2>3. NotRevived' /\ ProjectsRead'
    BY <1>2, <2>1, <2>2 DEF NotRevived, ProjectsRead
  <2>4. /\ OnePage' => linear'.team \subseteq sync'.touched \cap sync'.view.team
        /\ Team \cap sync'.touched \subseteq linear'.team
    BY <1>1, <1>2, <2>1, LinearFinite, OnePageIsAll DEF OnePage
  <2> QED
    BY <1>2, <2>1, <2>3, <2>4 DEF CalmSync, RatesSeen
<1> QED
  BY <1>3, <1>4

LEMMA CalmProjectTeams ==
    ASSUME CalmInv, ProjectTeams
    PROVE  CalmSync'
<1>1. TypeOK /\ sync \in SyncRow
  BY DEF CalmInv, KeysInv, TypeOK, SyncRow
<1>2. /\ UNCHANGED <<team, project, issue, rate, linear>>
      /\ sync.at = "projectTeams" /\ sync'.at = "projects" /\ sync'.calm = sync.calm
      /\ sync'.todo \in FirstPage(linear.team)
      /\ sync'.view = sync.view /\ sync'.touched = sync.touched
  BY <1>1 DEF ProjectTeams, SyncUnchanged, synced, local, SyncRow
<1> SUFFICES ASSUME "linear" \in sync.calm PROVE CalmSync'
  BY <1>2 DEF CalmSync
<1>3. /\ ("others" \in sync.calm => NotRevived) /\ ProjectsRead
      /\ Team \cap sync.touched \subseteq linear.team
      /\ OnePage => linear.team \subseteq sync.touched \cap sync.view.team
  BY <1>2 DEF CalmInv, CalmSync, Started
<1>4. "others" \in sync.calm => NotRevived'
  BY <1>2, <1>3 DEF NotRevived
<1>5. ProjectsRead'
  <2>1. OnePage => sync'.todo = linear.team
    BY <1>1, <1>2, LinearFinite, OnePageIsAll DEF OnePage
  <2> QED
    BY <1>2, <1>3, <2>1 DEF ProjectsRead, OnePage
<1> QED
  BY <1>2, <1>3, <1>4, <1>5 DEF CalmSync, OnePage

LEMMA CalmProjectsOf ==
    ASSUME CalmInv, NEW t \in Team, ProjectsOf(t)
    PROVE  CalmSync' /\ RatesSeen'
<1>1. TypeOK /\ sync \in SyncRow
  BY DEF CalmInv, KeysInv, TypeOK, SyncRow
<1>2. UNCHANGED <<team, project, issue, rate, linear>> /\ sync.at = "projects"
  BY DEF ProjectsOf, SyncUnchanged, synced, local
<1>3. CASE Abort
  BY <1>3, NotCalm DEF Abort, NoSync
<1>4. CASE ~Abort
  <2> DEFINE P == {p \in Project : linear.project[p] = t}
  <2>1. /\ sync'.at = "projects" /\ sync'.calm = sync.calm /\ sync'.todo = sync.todo \ {t}
        /\ sync'.view.team = sync.view.team /\ sync'.view.rate = sync.view.rate
        /\ sync'.view.project = [p \in Project |-> IF p \in P THEN t ELSE sync.view.project[p]]
        /\ sync'.touched = sync.touched \cup P
    BY <1>1, <1>4, ProjectsOfWrites
  <2>2. RatesSeen'
    BY <1>2, <2>1 DEF CalmInv, RatesSeen, Started
  <2> SUFFICES ASSUME "linear" \in sync.calm PROVE CalmSync'
    BY <2>1, <2>2 DEF CalmSync
  <2>3. /\ ("others" \in sync.calm => NotRevived) /\ ProjectsRead
        /\ Team \cap sync.touched \subseteq linear.team
        /\ OnePage => linear.team \subseteq sync.touched \cap sync.view.team
    BY <1>2 DEF CalmInv, CalmSync, Started
  <2>4. "others" \in sync.calm => NotRevived'
    BY <1>2, <2>1, <2>3 DEF NotRevived
  <2>5. ProjectsRead'
    BY <1>2, <2>1, <2>3 DEF ProjectsRead, OnePage
  <2>6. Team \cap sync'.touched \subseteq linear.team
    BY <1>1, <2>1, <2>3, Names
  <2> QED
    BY <1>2, <2>1, <2>3, <2>4, <2>5, <2>6 DEF CalmSync, OnePage
<1> QED
  BY <1>3, <1>4

LEMMA CalmProjectsDone ==
    ASSUME CalmInv, ProjectsDone
    PROVE  CalmSync'
<1>1. TypeOK /\ LinearSound /\ sync \in SyncRow
  BY DEF CalmInv, KeysInv, TypeOK, SyncRow
<1>2. /\ UNCHANGED <<team, project, issue, rate, linear>>
      /\ sync.at = "projects" /\ sync'.at = "issues" /\ sync'.calm = sync.calm
      /\ sync.todo = {} /\ sync'.view = sync.view /\ sync'.touched = sync.touched
  BY <1>1 DEF ProjectsDone, SyncUnchanged, synced, local, SyncRow
<1> SUFFICES ASSUME "linear" \in sync.calm PROVE CalmSync'
  BY <1>2 DEF CalmSync
<1>3. /\ ("others" \in sync.calm => NotRevived) /\ ProjectsRead
      /\ Team \cap sync.touched \subseteq linear.team
      /\ OnePage => linear.team \subseteq sync.touched \cap sync.view.team
  BY <1>2 DEF CalmInv, CalmSync, Started
<1>4. OnePage => ProjectsCopied'
  BY <1>1, <1>2, <1>3 DEF ProjectsRead, ProjectsCopied, LinearSound
<1>5. ("others" \in sync.calm => NotRevived') /\ ProjectsRead'
  BY <1>2, <1>3 DEF NotRevived, ProjectsRead
<1> QED
  BY <1>2, <1>3, <1>4, <1>5 DEF CalmSync, OnePage

LEMMA CalmIssues ==
    ASSUME CalmInv, Issues
    PROVE  CalmSync' /\ RatesSeen'
<1>1. TypeOK /\ LinearSound /\ sync \in SyncRow
  BY DEF CalmInv, KeysInv, TypeOK, SyncRow
<1>2. UNCHANGED <<team, project, rate, linear>> /\ sync.at = "issues"
  BY DEF Issues, SyncUnchanged, synced, local
<1>3. CASE Abort
  BY <1>3, NotCalm DEF Abort, NoSync
<1>4. CASE ~Abort
  <2>1. /\ sync'.at = "cleanup" /\ sync'.calm = sync.calm
        /\ sync'.view.team = sync.view.team /\ sync'.view.project = sync.view.project
        /\ sync'.view.rate = sync.view.rate
        /\ sync'.view.issue =
               [i \in Issue |-> IF i \in Wanted THEN AfterSync(i) ELSE sync.view.issue[i]]
        /\ sync'.touched = sync.touched \cup Wanted
    BY <1>1, <1>4, IssuesWrites
  <2>2. RatesSeen'
    BY <1>2, <2>1 DEF CalmInv, RatesSeen, Started
  <2> SUFFICES ASSUME "linear" \in sync.calm PROVE CalmSync'
    BY <2>1, <2>2 DEF CalmSync
  <2>3. /\ ("others" \in sync.calm => NotRevived) /\ ProjectsRead
        /\ OnePage => ProjectsCopied
        /\ Team \cap sync.touched \subseteq linear.team
        /\ OnePage => linear.team \subseteq sync.touched \cap sync.view.team
    BY <1>2 DEF CalmInv, CalmSync, Started
  <2>4. \A x \in Team \cup Project : x \in sync'.touched <=> x \in sync.touched
    BY <1>1, <2>1, Names DEF Wanted
  <2>5. /\ ("others" \in sync.calm => NotRevived') /\ ProjectsRead'
        /\ OnePage => ProjectsCopied'
    BY <1>2, <2>1, <2>3, <2>4 DEF NotRevived, ProjectsRead, ProjectsCopied
  <2>6. ASSUME OnePage PROVE IssuesCopied'
    <3> SUFFICES ASSUME NEW i \in Issue, linear.issue[i] # None,
                        linear.issue[i].project # None
                 PROVE  /\ i \in sync'.touched /\ sync'.view.issue[i] # None
                        /\ sync'.view.issue[i].rev = linear.issue[i].rev
                        /\ sync'.view.issue[i].project = linear.issue[i].project
                        /\ linear.issue[i].labels # {} =>
                               sync'.view.issue[i].labels = linear.issue[i].labels
      BY <1>2 DEF IssuesCopied
    <3>1. linear.issue[i].project \in Project
      BY <1>1 DEF TypeOK, LinearIssue
    <3>2. linear.project[linear.issue[i].project] # None
      BY <1>1 DEF LinearSound
    <3>3. i \in Wanted
      BY <2>3, <2>6, <3>1, <3>2 DEF Wanted, ProjectsCopied
    <3>4. sync'.view.issue[i] = AfterSync(i) /\ i \in sync'.touched
      BY <2>1, <3>3
    <3> QED
      BY <1>1, <3>3, <3>4, WantedTyped, Names
  <2>7. /\ Team \cap sync'.touched \subseteq linear.team
        /\ OnePage => linear.team \subseteq sync'.touched \cap sync'.view.team
    BY <2>1, <2>3, <2>4
  <2> QED
    BY <1>2, <2>1, <2>5, <2>6, <2>7 DEF CalmSync, OnePage
<1> QED
  BY <1>3, <1>4

LEMMA CalmCleanupProjects ==
    ASSUME CalmInv, CleanupProjects
    PROVE  CalmSync' /\ RatesSeen'
<1>1. TypeOK /\ LinearSound /\ sync \in SyncRow /\ linear.team \subseteq Team
  BY DEF CalmInv, KeysInv, TypeOK, SyncRow
<1>2. UNCHANGED <<team, project, rate, linear>> /\ sync.at = "cleanup"
  BY DEF CleanupProjects, SyncUnchanged, synced, local
<1>3. CASE Abort
  BY <1>3, NotCalm DEF Abort, NoSync
<1>4. CASE ~Abort
  <2> DEFINE all == {p \in Project : linear.project[p] # None}
  <2>1. PICK teams \in FirstPage(linear.team), projects \in FirstPage(all) :
              LET gone == {p \in Project \ projects : sync.view.project[p] # None} IN
              /\ sync'.at = "orphanTeams" /\ sync'.calm = sync.calm /\ sync'.listed = teams
              /\ sync'.view.team = sync.view.team /\ Without(gone)
              /\ sync'.touched = sync.touched \cup gone \cup IssuesOf(sync.view.issue, gone)
    BY <1>1, <1>4, CleanupProjectsWrites
  <2> DEFINE gone == {p \in Project \ projects : sync.view.project[p] # None}
  <2>2. /\ sync'.at = "orphanTeams" /\ sync'.calm = sync.calm /\ sync'.listed = teams
        /\ sync'.view.team = sync.view.team /\ sync'.view.rate = sync.view.rate
        /\ sync'.view.project = [p \in Project |-> IF p \in gone THEN None ELSE sync.view.project[p]]
        /\ sync'.view.issue = [i \in Issue |-> IF i \in IssuesOf(sync.view.issue, gone)
                                               THEN None ELSE sync.view.issue[i]]
        /\ sync'.touched = sync.touched \cup gone \cup IssuesOf(sync.view.issue, gone)
    BY <2>1 DEF Without
  <2>3. RatesSeen'
    BY <1>2, <2>2 DEF CalmInv, RatesSeen, Started
  <2> SUFFICES ASSUME "linear" \in sync.calm PROVE CalmSync'
    BY <2>2, <2>3 DEF CalmSync
  <2>4. /\ ("others" \in sync.calm => NotRevived) /\ ProjectsRead
        /\ OnePage => ProjectsCopied /\ IssuesCopied
        /\ Team \cap sync.touched \subseteq linear.team
        /\ OnePage => linear.team \subseteq sync.touched \cap sync.view.team
    BY <1>2 DEF CalmInv, CalmSync, Started
  <2>5. gone \subseteq Project /\ IssuesOf(sync.view.issue, gone) \subseteq Issue
    BY DEF IssuesOf
  <2>6. /\ \A x \in Team : x \in sync'.touched <=> x \in sync.touched
        /\ \A x \in Project : x \in sync'.touched <=> x \in sync.touched \cup gone
    BY <1>1, <2>2, <2>5, Names
  <2>7. ("others" \in sync.calm => NotRevived') /\ ProjectsRead'
    BY <1>2, <2>2, <2>4, <2>6 DEF NotRevived, ProjectsRead
  <2>8. /\ Team \cap sync'.touched \subseteq linear.team
        /\ OnePage => linear.team \subseteq sync'.touched \cap sync'.view.team
    BY <1>1, <2>2, <2>4, <2>6
  <2>9. ASSUME OnePage PROVE ProjectsCopied' /\ IssuesCopied' /\ OthersGone'
    <3>1. teams = linear.team /\ projects = all
      BY <1>1, <2>9, LinearFinite, OnePageIsAll DEF OnePage
    <3>2. \A p \in Project : p \in gone <=> linear.project[p] = None /\ sync.view.project[p] # None
      BY <3>1
    <3>3. ProjectsCopied'
      BY <1>2, <2>2, <2>4, <2>6, <2>9, <3>2 DEF ProjectsCopied
    <3>4. IssuesCopied'
      <4> SUFFICES ASSUME NEW i \in Issue, linear.issue[i] # None,
                          linear.issue[i].project # None
                   PROVE  i \in sync'.touched /\ sync'.view.issue[i] = sync.view.issue[i]
        BY <1>2, <2>4, <2>9 DEF IssuesCopied
      <4>1. linear.issue[i].project \in Project
        BY <1>1 DEF TypeOK, LinearIssue
      <4>2. linear.project[linear.issue[i].project] # None
        BY <1>1 DEF LinearSound
      <4>3. i \in sync.touched /\ sync.view.issue[i].project \notin gone
        BY <2>4, <2>9, <3>2, <4>1, <4>2 DEF IssuesCopied
      <4> QED
        BY <2>2, <4>3 DEF IssuesOf
    <3>5. OthersGone'
      <4>1. sync'.listed = linear'.team /\ sync'.calm = sync.calm
        BY <1>2, <2>2, <3>1
      <4> SUFFICES ASSUME NEW p \in Project, linear.project[p] = None
                   PROVE  /\ sync'.view.project[p] = None
                          /\ "others" \in sync.calm => p \in sync'.touched \/ project[p] = None
        BY <1>2, <4>1 DEF OthersGone
      <4>2. sync'.view.project[p] = None
        BY <2>2, <3>2
      <4>3. CASE p \in sync.touched \/ p \in gone
        BY <2>6, <4>2, <4>3
      <4>4. CASE p \notin sync.touched /\ p \notin gone
        BY <2>4, <3>2, <4>2, <4>4 DEF NotRevived
      <4> QED
        BY <4>3, <4>4
    <3> QED
      BY <3>3, <3>4, <3>5
  <2>10. OnePage' = OnePage
    BY <1>2 DEF OnePage
  <2> QED
    BY <1>2, <2>2, <2>7, <2>8, <2>9, <2>10 DEF CalmSync
<1> QED
  BY <1>3, <1>4

LEMMA CalmCleanupTeams ==
    ASSUME CalmInv, CleanupTeams
    PROVE  CalmSync' /\ RatesSeen'
<1>1. /\ TypeOK /\ LinearSound /\ Consistent /\ sync \in SyncRow
      /\ linear.team \subseteq Team /\ team \subseteq Team
  BY DEF CalmInv, KeysInv, TypeOK, SyncRow
<1>2. UNCHANGED <<team, project, rate, linear>> /\ sync.at = "orphanTeams" /\ Started
  BY DEF CleanupTeams, SyncUnchanged, synced, local, Started
<1>3. CASE Abort
  BY <1>3, NotCalm DEF Abort, NoSync
<1>4. CASE ~Abort
  <2>1. /\ sync'.at = "commit" /\ sync'.calm = sync.calm /\ sync'.listed = sync.listed
        /\ sync'.view.team = sync.view.team \ OrphanTeams
        /\ sync'.touched = sync.touched \cup OrphanTeams \cup Late
        /\ sync'.view.project = [p \in Project |-> IF p \in Late THEN None ELSE sync.view.project[p]]
        /\ sync'.view.issue = [i \in Issue |-> IF i \in IssuesOf(sync.view.issue, Late)
                                               THEN None ELSE sync.view.issue[i]]
        /\ sync'.view.rate = sync.view.rate
    BY <1>1, <1>4, CleanupTeamsWrites DEF Without
  <2>2. RatesSeen'
    BY <1>2, <2>1 DEF CalmInv, RatesSeen
  <2> SUFFICES ASSUME "linear" \in sync.calm PROVE CalmSync'
    BY <2>1, <2>2 DEF CalmSync
  <2>3. /\ ("others" \in sync.calm => NotRevived) /\ ProjectsRead
        /\ Team \cap sync.touched \subseteq linear.team
        /\ OnePage => linear.team \subseteq sync.touched \cap sync.view.team
        /\ OnePage => ProjectsCopied /\ IssuesCopied /\ OthersGone
    BY <1>2 DEF CalmInv, CalmSync
  <2>4. OrphanTeams \subseteq Team /\ Late \subseteq Project
    BY <1>1 DEF OrphanTeams, Late, SyncRow, View
  <2>5. \A x \in Project : x \in sync'.touched <=> x \in sync.touched \cup Late
    BY <2>1, <2>4, Names, <1>1
  <2>6. ("others" \in sync.calm => NotRevived') /\ ProjectsRead'
    BY <1>2, <2>1, <2>3, <2>5 DEF NotRevived, ProjectsRead
  <2>7. OnePage' = OnePage
    BY <1>2 DEF OnePage
  <2> SUFFICES ASSUME OnePage
               PROVE  /\ linear.team \subseteq sync'.touched \cap sync'.view.team
                      /\ ProjectsCopied' /\ IssuesCopied' /\ OthersGone'
                      /\ sync'.view.team = linear.team \cup
                             {t \in team : \E r \in Rate : sync'.view.rate[r] = t}
    BY <1>2, <2>1, <2>6, <2>7 DEF CalmSync
  <2>8. ProjectsCopied /\ IssuesCopied /\ OthersGone /\ sync.listed = linear.team
    BY <2>3 DEF OthersGone
  <2>9. \A p \in Late : linear.project[p] = None
    BY <2>4, <2>8 DEF Late, ProjectsCopied
  <2>10. \A p \in Project : sync'.view.project[p] = sync.view.project[p]
    BY <2>1, <2>8, <2>9 DEF OthersGone
  <2>15. ProjectsCopied' /\ OthersGone'
    BY <1>2, <2>1, <2>5, <2>8, <2>10 DEF ProjectsCopied, OthersGone
  <2>16. IssuesCopied'
    <3> SUFFICES ASSUME NEW i \in Issue, linear.issue[i] # None, linear.issue[i].project # None
                 PROVE  i \in sync'.touched /\ sync'.view.issue[i] = sync.view.issue[i]
      BY <1>2, <2>8 DEF IssuesCopied
    <3>1. linear.project[linear.issue[i].project] # None
      BY <1>1 DEF LinearSound
    <3>2. i \in sync.touched /\ sync.view.issue[i].project \notin Late
      BY <2>8, <2>9, <3>1 DEF IssuesCopied
    <3> QED
      BY <2>1, <3>2 DEF IssuesOf
  <2>11. ProjectsCopied' /\ IssuesCopied' /\ OthersGone'
    BY <2>15, <2>16
  <2>12. linear.team \subseteq sync'.touched \cap sync'.view.team
    BY <2>1, <2>3, <2>8 DEF OrphanTeams
  <2>13. sync'.view.team \subseteq
             linear.team \cup {t \in team : \E r \in Rate : sync'.view.rate[r] = t}
    <3> SUFFICES ASSUME NEW t \in sync.view.team, t \notin OrphanTeams, t \notin linear.team
                 PROVE  t \in team /\ \E r \in Rate : sync.view.rate[r] = t
      BY <2>1
    <3>1. t \in Team
      BY <1>1 DEF SyncRow, View
    <3>2. t \in team
      BY <1>1, <1>2, <2>3, <3>1 DEF Consistent
    <3>3. \A p \in Project : sync.view.project[p] # t
      BY <1>1, <2>8, <3>1, Names DEF ProjectsCopied, OthersGone, LinearSound
    <3> QED
      BY <2>8, <3>2, <3>3 DEF OrphanTeams
  <2>14. {t \in team : \E r \in Rate : sync'.view.rate[r] = t} \subseteq sync'.view.team
    BY <1>1, <1>2, <2>1, <2>3 DEF Consistent, OrphanTeams
  <2> QED
    BY <2>11, <2>12, <2>13, <2>14
<1> QED
  BY <1>3, <1>4

LEMMA CalmInit == Init => CalmInv
<1> SUFFICES ASSUME Init PROVE CalmInv
  OBVIOUS
<1>1. KeysInv
  BY KeysInit
<1>2. LinearSound
  BY DEF Init, LinearSound
<1>3. CalmSync /\ RatesSeen
  BY DEF Init, NoSync, CalmSync, RatesSeen, Started
<1> QED
  BY <1>1, <1>2, <1>3 DEF CalmInv

LEMMA CalmNext == CalmInv /\ [Next]_vars => CalmInv'
<1> SUFFICES ASSUME CalmInv, [Next]_vars PROVE CalmInv'
  OBVIOUS
<1>1. KeysInv' /\ TypeOK /\ sync \in SyncRow
  BY KeysNext DEF CalmInv, KeysInv, TypeOK, SyncRow
<1>2. LinearSound'
  <2>1. LinearChanges \/ linear' = linear
    BY DEF Next, Entered, CreateRate, CreateTime, AddUserToTeam, RemoveUserFromTeam,
           ProjectWebhook, ProjectRemoved, FindNoProject, CreateUnassigned, Begin,
           Fail, Step, Teams, ProjectTeams, ProjectsOf, ProjectsDone, Issues,
           CleanupProjects, CleanupTeams, Commit, SyncUnchanged, vars
  <2> QED
    BY <1>1, <2>1, LinearSoundNext DEF CalmInv, LinearSound
<1> SUFFICES CalmSync' /\ RatesSeen'
  BY <1>1, <1>2 DEF CalmInv
<1>3. CASE LinearChanges
  <2>1. /\ sync'.at = sync.at /\ sync'.view = sync.view /\ rate' = rate
        /\ sync'.calm \subseteq sync.calm /\ (sync.at # "idle" => "linear" \notin sync'.calm)
    <3>1. sync' = Disturbed({"linear"}) /\ rate' = rate
      BY <1>3 DEF LinearChanges, local
    <3> QED
      BY <1>1, <3>1, DisturbedFields
  <2>2. CalmSync'
    BY <2>1 DEF CalmSync, Started
  <2>3. RatesSeen'
    BY <2>1 DEF CalmInv, RatesSeen, Started
  <2> QED
    BY <2>2, <2>3
<1>4. ASSUME \/ \E r \in Rate, t \in Team : CreateRate(r, t)
             \/ \E k \in Time, p \in Project : CreateTime(k, p)
             \/ \E t \in Team : AddUserToTeam(t) \/ RemoveUserFromTeam(t)
      PROVE  CalmSync' /\ RatesSeen'
  <2>1. Entered
    BY <1>4 DEF CreateRate, CreateTime, AddUserToTeam, RemoveUserFromTeam
  <2>2. /\ linear' = linear /\ team' = team /\ project' = project
        /\ sync'.at = sync.at /\ sync'.view = sync.view /\ sync'.touched = sync.touched
        /\ sync'.todo = sync.todo /\ sync'.listed = sync.listed
        /\ sync'.calm \subseteq sync.calm /\ (sync.at # "idle" => "local" \notin sync'.calm)
    BY <1>1, <2>1, DisturbedFields DEF Entered, synced
  <2>3. CalmSync'
    BY <2>2, CalmKept
  <2>4. RatesSeen'
    BY <2>2 DEF RatesSeen, Started
  <2> QED
    BY <2>3, <2>4
<1>5. ASSUME NEW p \in Project, NEW t \in Team, ProjectWebhook(p, t) \/ ProjectRemoved(p, t)
      PROVE  CalmSync' /\ RatesSeen'
  <2>1. /\ linear' = linear /\ team' = team /\ rate' = rate
        /\ sync'.at = sync.at /\ sync'.view = sync.view /\ sync'.touched = sync.touched
        /\ sync'.todo = sync.todo /\ sync'.listed = sync.listed
        /\ sync'.calm \subseteq sync.calm
    BY <1>1, <1>5, DisturbedFields DEF ProjectWebhook, ProjectRemoved, local
  <2>2. ASSUME "others" \in sync'.calm, Started,
               NEW q \in Project, linear.project[q] = None
        PROVE  project'[q] \in {None, project[q]}
    <3>1. CASE ProjectRemoved(p, t) \/ project' = project
      BY <1>1, <3>1 DEF ProjectRemoved, DropProjects, TypeOK
    <3>2. CASE ProjectWebhook(p, t) /\ project' # project
      <4>1. /\ project' = [project EXCEPT ![p] = t]
            /\ sync' = Disturbed({"local"} \cup
                           IF linear.project[p] # None THEN {} ELSE {"others"})
        BY <3>2 DEF ProjectWebhook
      <4>2. linear.project[p] # None
        BY <1>1, <2>2, <4>1, DisturbedFields DEF Started
      <4> QED
        BY <1>1, <2>2, <4>1, <4>2 DEF TypeOK
    <3> QED
      BY <1>5, <3>1, <3>2
  <2>3. CalmSync'
    <3>1. CASE Started
      BY <2>1, <2>2, <3>1, CalmKept
    <3>2. CASE ~Started
      BY <2>1, <3>2 DEF CalmSync, Started
    <3> QED
      BY <3>1, <3>2
  <2>4. RatesSeen'
    BY <2>1 DEF CalmInv, RatesSeen, Started
  <2> QED
    BY <2>3, <2>4
<1>9. CASE FindNoProject
  <2>1. CalmSync'
    BY <1>9, CalmKept DEF FindNoProject, synced
  <2> QED
    BY <1>9, <2>1 DEF FindNoProject, local, CalmInv, RatesSeen, Started
<1>10. CASE CreateUnassigned
  <2>1. /\ linear' = linear /\ team' = team /\ rate' = rate
        /\ sync'.at = sync.at /\ sync'.view = sync.view /\ sync'.touched = sync.touched
        /\ sync'.todo = sync.todo /\ sync'.listed = sync.listed
        /\ sync'.calm \subseteq sync.calm
        /\ project' = project \/ (sync.at # "idle" => "others" \notin sync'.calm)
    BY <1>1, <1>10, DisturbedFields DEF CreateUnassigned, local
  <2>2. CalmSync'
    <3>1. CASE Started
      <4>1. "others" \in sync'.calm => project' = project
        BY <2>1, <3>1 DEF Started
      <4> QED
        BY <2>1, <4>1, CalmKept
    <3>2. CASE ~Started
      BY <2>1, <3>2 DEF CalmSync, Started
    <3> QED
      BY <3>1, <3>2
  <2> QED
    BY <2>1, <2>2 DEF CalmInv, RatesSeen, Started
<1>6. CASE Begin \/ Fail \/ Commit
  <2>1. sync'.at \in {"idle", "teams"}
    BY <1>1, <1>6 DEF Begin, Fail, Commit, Abort, NoSync, SyncRow
  <2> QED
    BY <2>1, NotCalm
<1>7. CASE ProjectTeams \/ ProjectsDone
  <2>1. sync'.view = sync.view /\ sync'.calm = sync.calm /\ rate' = rate /\ Started
    BY <1>1, <1>7 DEF ProjectTeams, ProjectsDone, SyncUnchanged, local, SyncRow, Started
  <2> QED
    BY <1>7, <2>1, CalmProjectTeams, CalmProjectsDone DEF CalmInv, RatesSeen
<1>8. CASE UNCHANGED vars
  <2>1. CalmSync'
    BY <1>8, CalmKept DEF vars, synced, local
  <2> QED
    BY <1>8, <2>1 DEF vars, synced, local, CalmInv, RatesSeen, Started
<1> QED
  BY <1>3, <1>4, <1>5, <1>6, <1>7, <1>8, <1>9, <1>10, CalmTeams, CalmProjectsOf, CalmIssues,
     CalmCleanupProjects, CalmCleanupTeams DEF Next, Step, LinearProject

---------------------------------------------------------------------------
\* What a commit finds, if Linear has kept still and its data fits a page.
LEMMA CalmCommit ==
    ASSUME CalmInv, Commit, OnePage, "linear" \in sync.calm
    PROVE  /\ ProjectsCopied /\ IssuesCopied /\ OthersGone
           /\ linear.team \subseteq sync.touched \cap sync.view.team
           /\ sync.view.team = linear.team \cup
                  {t \in team : \E r \in Rate : sync.view.rate[r] = t}
           /\ team \subseteq sync.view.team \cup sync.touched
           /\ sync.view.team \subseteq team \cup sync.touched
<1>1. Started /\ sync.at = "commit"
  BY DEF Commit, Started
<1> QED
  BY <1>1 DEF CalmInv, CalmSync, KeysInv, Consistent

LEMMA CommitMirrors ==
    ASSUME CalmInv, Commit, OnePage, "linear" \in sync.calm
    PROVE  Mirrors /\ ("others" \in sync.calm => NoOtherProjects)
<1>1. TypeOK /\ TypeOK' /\ linear' = linear
  <2>1. [Next]_vars
    BY DEF Next, Step
  <2> QED
    BY <2>1, TypesNext, CommitWrites DEF CalmInv, KeysInv
<1>2. linear.team \subseteq team'
  BY <1>1, CommitWrites, CalmCommit
<1>3. \A p \in Project : linear.project[p] # None => project'[p] = linear.project[p]
  BY <1>1, CommitWrites, CalmCommit DEF ProjectsCopied
<1>5. "others" \in sync.calm => NoOtherProjects
  BY <1>1, CommitWrites, CalmCommit DEF NoOtherProjects, OthersGone
<1>4. \A i \in Issue : i \in sync.touched => issue'[i] = sync.view.issue[i]
  BY <1>1, CommitWrites
<1> QED
  BY <1>2, <1>3, <1>4, <1>5, CalmCommit DEF Mirrors, IssuesCopied

LEMMA CommitKeeps ==
    ASSUME CalmInv, Commit, OnePage, "linear" \in sync.calm
    PROVE  /\ \A k \in Time : time'[k] # time[k] => linear.project[time[k]] = None
           /\ "local" \in sync.calm =>
                 /\ rate' = rate
                 /\ team' = linear.team \cup {t \in team : \E r \in Rate : rate[r] = t}
<1>1. TypeOK /\ ForeignKeys /\ RatesSeen /\ Started
  BY DEF CalmInv, KeysInv, Commit, Started
<1>2. TypeOK'
  <2>1. [Next]_vars
    BY DEF Next, Step
  <2> QED
    BY <1>1, <2>1, TypesNext
<1>3. \A k \in Time : time'[k] # time[k] => linear.project[time[k]] = None
  BY <1>1, CommitWrites, CalmCommit DEF ProjectsCopied
<1>4. team' = sync.view.team
  <2>1. team' = (team \ sync.touched) \cup (sync.view.team \cap sync.touched)
    BY <1>1, CommitWrites
  <2>2. /\ team \subseteq sync.view.team \cup sync.touched
        /\ sync.view.team \subseteq team \cup sync.touched
    BY CalmCommit
  <2> QED
    BY <2>1, <2>2
<1>5. ASSUME "local" \in sync.calm
      PROVE  /\ rate' = rate
             /\ team' = linear.team \cup {t \in team : \E r \in Rate : rate[r] = t}
  <2>1. sync.view.rate = rate
    BY <1>1, <1>5 DEF RatesSeen
  <2>2. team' = linear.team \cup {t \in team : \E r \in Rate : rate[r] = t}
    BY <1>4, <2>1, CalmCommit
  <2>3. \A r \in Rate : rate'[r] = rate[r]
    BY <1>1, <2>2, CommitWrites DEF ForeignKeys
  <2>4. rate' = rate
    BY <1>1, <1>2, <2>3 DEF TypeOK
  <2> QED
    BY <2>2, <2>4
<1> QED
  BY <1>3, <1>5

\* While Linear keeps still, a commit leaves what Linear has in the database as Linear
\* has it, for any number of issues and of teams and projects that fit a page, and
\* whatever late webhooks write before the commit; a project that Linear does not have
\* stays only if such a webhook wrote it.
THEOREM SyncsMirror == Spec => SyncMirrors
<1>1. CalmInv /\ [Next]_vars =>
          [Commit /\ OnePage /\ "linear" \in sync.calm =>
               Mirrors /\ ("others" \in sync.calm => NoOtherProjects)]_vars
  BY CommitMirrors
<1> QED
  BY <1>1, CalmInit, CalmNext, PTL DEF Spec, SyncMirrors

\* Such a commit takes no times of Linear's projects and no rates, and of the teams
\* it leaves those of Linear and those with rates.
THEOREM LocalDataSafe == Spec => LocalDataKept
<1>1. CalmInv /\ [Next]_vars =>
          [Commit /\ OnePage /\ "linear" \in sync.calm =>
              /\ \A k \in Time : time'[k] # time[k] => linear.project[time[k]] = None
              /\ "local" \in sync.calm =>
                    /\ rate' = rate
                    /\ team' = linear.team \cup {t \in team : \E r \in Rate : rate[r] = t}]_vars
  BY CommitKeeps
<1> QED
  BY <1>1, CalmInit, CalmNext, PTL DEF Spec, LocalDataKept
=============================================================================
