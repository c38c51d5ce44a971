------------------------------ MODULE IssueFeed ------------------------------
(* The way of an issue from Linear into the database and on to the clients:   *)
(* webhook/webhook.issue.service.ts, issue/issue.service.ts, its in-memory    *)
(* issue/services/issue-cache.service.ts, and the broadcast of the gateway.   *)
(*                                                                            *)
(* Every webhook is an HTTP request of its own.  Its handler awaits each      *)
(* database call, and other handlers run in between.  The transaction that    *)
(* handleIssue opens is empty: its callback uses the client outside of it,    *)
(* so that each call commits alone and nothing is undone when a later one     *)
(* fails.  The content of an issue is the number of the edit in Linear that   *)
(* wrote it.  A label row has a key of its own, so that one label of an issue *)
(* can have several rows; a row is named after the delivery that wrote it.    *)
(*                                                                            *)
(* Meanwhile a synchronisation (DbSync, of which this module has what it does *)
(* to issues and labels) may read the database, then Linear, and write.       *)
EXTENDS Naturals, Sequences, FiniteSets, SequencesExt

CONSTANTS
    Issue, Label, Project, Team,
    Unassigned,         \* the project for issues that have none
    Request,            \* handlers
    None,
    Regime              \* under what circumstances the program may run

\* inOrder: whether webhooks arrive in the order of the edits; handlers: who can be
\* in flight at once; known: the projects at the start; teams: those in the database;
\* linearTeams: those that issues of Linear are in; ids: whether webhooks name a project
\* by projectId, too, and not by project.id alone; labels: those that are used.
\* The others are bounds: on edits in Linear, webhooks sent once more, failures,
\* projects that go, and synchronisations.
Circumstances == [inOrder : BOOLEAN, handlers : SUBSET Request, known : SUBSET Project,
                  teams : SUBSET Team, linearTeams : SUBSET Team, ids : BOOLEAN,
                  labels : SUBSET Label, edits : Nat, retries : Nat, failures : Nat,
                  removals : Nat, syncs : Nat]

\* A row of Issue, an issue with its labels, and an issue in Linear.
Row == [rev : Nat, project : Project]
Full == [rev : Nat, labels : SUBSET Label]
LinearIssue == [rev : Nat, labels : SUBSET Label, project : Project \cup {None},
                team : Team]

ASSUME IssueFeedAssumption ==
    /\ Unassigned \in Project
    /\ \A g \in Regime : g \in Circumstances
    /\ None \notin Issue \cup Project
    /\ None \notin Row \cup Full \cup LinearIssue
    /\ \A labels \in SUBSET Label : labels # None
    /\ IsFiniteSet(Request) /\ IsFiniteSet(Label)

VARIABLES
    projects,           \* the rows of Project
    issue,              \* the rows of Issue
    rows,               \* the rows of Label
    cache,              \* IssueCacheService, the keys issue:<id>
    page,               \* IssueCacheService, the keys issues:page:...
    req,                \* the handlers in flight
    sync,               \* the synchronisation
    linear,             \* environment: the issues in Linear
    net,                \* environment: webhooks on their way, oldest first
    used,               \* the circumstances, and how much of each bound is used up
    handed,             \* history: the last message for the gateway
    deletions,          \* history: how often a handler deleted the issue's row
    announced,          \* history: how often clients heard of its removal
    overran             \* history: what synchronisations wrote over, see SyncCommit

database == <<projects, issue, rows>>
cached == <<cache, page>>
environment == <<linear, net>>
told == <<handed, deletions, announced>>
history == <<told, overran>>
vars == <<database, cached, req, sync, environment, used, history>>

LabelRow == [issue : Issue, label : Label, by : Nat]
Event == [action : {"create", "update", "remove"}, issue : Issue, rev : Nat,
          labels : (SUBSET Label) \cup {None}, project : Project \cup {None},
          team : Team]
Step == {"ensure", "unassigned", "insert", "cacheNew", "exists", "update", "labelsRead",
         "labelsDelete", "labelsWrite", "fetch", "fetched", "fallback", "removeFind",
         "removeDelete", "removed", "list", "listed"}
Message == [action : {"create", "update", "remove"}, issue : Issue, dates : BOOLEAN,
            rev : Nat, labels : SUBSET Label]

\* The bounds, and what is left of each.
Bounded == {"edits", "retries", "failures", "removals", "syncs"}
Left(what) == used[what] < used.of[what]

\* ev: the webhook; id: its delivery; verb: what the clients are told; snap, found
\* and ids: the label rows, the issue and the page that were read.
Handler == [at : Step \cup {"idle"}, ev : Event \cup {None}, id : Nat,
            verb : {"create", "update"}, snap : SUBSET LabelRow,
            found : Full \cup {None}, ids : SUBSET Issue]
Idle == [at |-> "idle", ev |-> None, id |-> 0, verb |-> "create", snap |-> {},
         found |-> None, ids |-> {}]

\* rows and projects: what the synchronisation's transaction sees of the database;
\* linear: what Linear has answered.
NoSync == [at |-> "idle", id |-> 0, rows |-> {}, projects |-> {},
           linear |-> [i \in Issue |-> None]]

TypeOK ==
    /\ projects \subseteq Project
    /\ issue \in [Issue -> Row \cup {None}]
    /\ rows \subseteq LabelRow
    /\ cache \in [Issue -> Full \cup {None}]
    /\ page \in (SUBSET Issue) \cup {None}
    /\ req \in [Request -> Handler]
    /\ sync \in [at : {"idle", "begun", "fetched"}, id : Nat, rows : SUBSET Issue,
                 projects : SUBSET Project, linear : [Issue -> LinearIssue \cup {None}]]
    /\ linear \in [Issue -> LinearIssue \cup {None}]
    /\ net \in Seq(Event)
    /\ used \in [of : Regime, edits : Nat, retries : Nat, deliveries : Nat,
                 failures : Nat, removals : Nat, syncs : Nat]
    /\ \A what \in Bounded : used[what] <= used.of[what]
    /\ handed \in Message \cup {None}
    /\ deletions \in [Issue -> Nat]
    /\ announced \in [Issue -> Nat]
    /\ overran \subseteq {"edit", "labels"}

Init ==
    /\ used \in [of : Regime, edits : {0}, retries : {0}, deliveries : {0},
                 failures : {0}, removals : {0}, syncs : {0}]
    /\ projects = used.of.known
    /\ issue = [i \in Issue |-> None]
    /\ rows = {}
    /\ cache = [i \in Issue |-> None]
    /\ page = None
    /\ req = [r \in Request |-> Idle]
    /\ sync = NoSync
    /\ linear = [i \in Issue |-> None]
    /\ net = << >>
    /\ handed = None
    /\ deletions = [i \in Issue |-> 0]
    /\ announced = [i \in Issue |-> 0]
    /\ overran = {}

---------------------------------------------------------------------------
Existing == {i \in Issue : issue[i] # None}
RowsOf(i) == {x \in rows : x.issue = i}
LabelsOf(i) == {x.label : x \in RowsOf(i)}

At(r, step) == req[r].at = step
Goto(r, step) == req' = [req EXCEPT ![r].at = step]
Done(r) == req' = [req EXCEPT ![r] = Idle]

\* Mutant: an empty list counts as no list.
AfterUpdateNonEmpty(ev) == IF ev.labels \in {None, {}} THEN "fetch" ELSE "labelsRead"

\* After the issue is written: its labels, where the webhook brings any.  For an
\* issue that existed an empty list counts, too.
AfterInsert(ev) == IF ev.labels \in {None, {}} THEN "fetch" ELSE "labelsRead"
AfterUpdate(ev) == IF ev.labels = None THEN "fetch" ELSE "labelsRead"

(***************************************************************************)
(* Linear: people edit issues there, and each edit sends a webhook.        *)
(***************************************************************************)
Edit(i, action, labels, p, t) ==
    LET rev == used.edits + 1
        old == IF linear[i] = None THEN {} ELSE linear[i].labels IN
    /\ Left("edits")
    /\ labels \in (SUBSET used.of.labels) \cup {None} /\ t \in used.of.linearTeams
    /\ action = "create" <=> linear[i] = None
    /\ action = "remove" => labels = None /\ p = None
    /\ linear' = [linear EXCEPT ![i] =
           IF action = "remove" THEN None
           ELSE [rev |-> rev, labels |-> IF labels = None THEN old ELSE labels,
                 project |-> p, team |-> t]]
    /\ net' = Append(net, [action |-> action, issue |-> i, rev |-> rev,
                           labels |-> labels, project |-> p, team |-> t])
    /\ used' = [used EXCEPT !.edits = rev]
    /\ UNCHANGED <<database, cached, req, sync, history>>

\* A webhook arrives.  Linear may take the answer for lost and send it again.
Deliver(r, n, again) ==
    LET ev == net[n] IN
    /\ At(r, "idle")
    /\ r \in used.of.handlers
    /\ used.of.inOrder => n = 1
    /\ again => Left("retries")
    /\ net' = IF again THEN net ELSE RemoveAt(net, n)
    /\ used' = [used EXCEPT !.deliveries = @ + 1, !.retries = IF again THEN @ + 1 ELSE @]
    /\ req' = [req EXCEPT ![r] = [Idle EXCEPT
           !.at = CASE ev.action = "create" -> "ensure"
                    [] ev.action = "update" -> "exists"
                    [] ev.action = "remove" -> "removeFind",
           !.ev = ev, !.id = used.deliveries + 1]]
    /\ UNCHANGED <<database, cached, sync, linear, history>>

(***************************************************************************)
(* create, and an update of an issue that is not there                     *)
(***************************************************************************)
\* ensureProjectId: the project of the webhook, or any one there is.
Ensure(r) ==
    /\ At(r, "ensure")
    /\ IF req[r].ev.project # None
         THEN Goto(r, "insert")
         ELSE IF projects = {}
                THEN Goto(r, "unassigned")
                ELSE \E p \in projects :
                         req' = [req EXCEPT ![r].at = "insert", ![r].ev.project = p]
    /\ UNCHANGED <<database, cached, sync, environment, used, history>>

\* createOrGetUnassignedProject, which puts it into some team.  Of two that create it
\* at once, one fails.
EnsureUnassigned(r) ==
    /\ At(r, "unassigned")
    /\ \/ /\ Unassigned \in projects \/ used.of.teams # {}
          /\ projects' = projects \cup {Unassigned}
          /\ req' = [req EXCEPT ![r].at = "insert", ![r].ev.project = Unassigned]
       \/ /\ Unassigned \in projects \/ used.of.teams = {}
          /\ Done(r)
          /\ UNCHANGED projects
    /\ UNCHANGED <<issue, rows, cached, sync, environment, used, history>>

\* The insert.  A row with this id, a missing project or a missing team is an error.
Insert(r) ==
    LET ev == req[r].ev IN
    /\ At(r, "insert")
    /\ IF issue[ev.issue] = None /\ ev.project \in projects /\ ev.team \in used.of.teams
         THEN /\ issue' = [issue EXCEPT ![ev.issue] = [rev |-> ev.rev, project |-> ev.project]]
              /\ Goto(r, "cacheNew")
         ELSE Done(r) /\ UNCHANGED issue
    /\ UNCHANGED <<projects, rows, cached, sync, environment, used, history>>

\* The answer of the insert: the new issue is cached, without labels.
CacheNew(r) ==
    LET ev == req[r].ev IN
    /\ At(r, "cacheNew")
    /\ cache' = [cache EXCEPT ![ev.issue] = [rev |-> ev.rev, labels |-> {}]]
    /\ page' = None
    /\ Goto(r, AfterInsert(ev))
    /\ UNCHANGED <<database, sync, environment, used, history>>

(***************************************************************************)
(* update                                                                  *)
(***************************************************************************)
Exists(r) ==
    /\ At(r, "exists")
    /\ IF issue[req[r].ev.issue] = None
         THEN Goto(r, "ensure")
         ELSE req' = [req EXCEPT ![r].at = "update", ![r].verb = "update"]
    /\ UNCHANGED <<database, cached, sync, environment, used, history>>

\* updateExistingIssue: the row has to be there still, and so has what the webhook
\* refers to.  A project it names by project.id alone is not written.
ProjectId(ev) == IF used.of.ids THEN ev.project ELSE None
CanUpdate(ev) ==
    /\ issue[ev.issue] # None
    /\ ProjectId(ev) \in projects \cup {None} /\ ev.team \in used.of.teams

\* Mutant: the project is written as the webhook has it, or has it not.
UpdatedUnsetsProject(ev) ==
    [issue EXCEPT ![ev.issue] = [rev |-> ev.rev, project |-> ProjectId(ev)]]

Updated(ev) ==
    [issue EXCEPT ![ev.issue] =
        [rev |-> ev.rev, project |-> IF ProjectId(ev) = None THEN @.project ELSE ProjectId(ev)]]

Update(r) ==
    LET ev == req[r].ev IN
    /\ At(r, "update")
    /\ IF CanUpdate(ev)
         THEN issue' = Updated(ev) /\ Goto(r, AfterUpdate(ev))
         ELSE UNCHANGED issue /\ Done(r)
    /\ UNCHANGED <<projects, rows, cached, sync, environment, used, history>>

(***************************************************************************)
(* updateLabelsForIssue: the labels that the issue no longer has are       *)
(* deleted at once, outside of the transaction that adds the new ones.     *)
(***************************************************************************)
LabelsRead(r) ==
    LET ev == req[r].ev
        snap == RowsOf(ev.issue) IN
    /\ At(r, "labelsRead")
    /\ req' = [req EXCEPT
           ![r].snap = snap,
           ![r].at = IF {x.label : x \in snap} \subseteq ev.labels
                       THEN "labelsWrite" ELSE "labelsDelete"]
    /\ UNCHANGED <<database, cached, sync, environment, used, history>>

Removed(r) == {x.label : x \in req[r].snap} \ req[r].ev.labels

LabelsDelete(r) ==
    /\ At(r, "labelsDelete")
    /\ rows' = {x \in rows : ~(x.issue = req[r].ev.issue /\ x.label \in Removed(r))}
    /\ Goto(r, "labelsWrite")
    /\ UNCHANGED <<projects, issue, cached, sync, environment, used, history>>

\* Mutant: all labels get a row.
ToCreateAll(r) == req[r].ev.labels

\* The labels without a row in the snapshot get one; of the others one row each
\* is updated.  A row or an issue that is gone by now undoes the transaction.
ToCreate(r) == req[r].ev.labels \ {x.label : x \in req[r].snap}
ToUpdate(r) == {x \in req[r].snap : x.label \in req[r].ev.labels /\
                   \A y \in req[r].snap : y.label = x.label => x.by <= y.by}

LabelsWrite(r) ==
    LET i == req[r].ev.issue IN
    /\ At(r, "labelsWrite")
    /\ IF ToUpdate(r) \subseteq rows /\ (ToCreate(r) = {} \/ i \in Existing)
         THEN /\ rows' = rows \cup {[issue |-> i, label |-> l, by |-> req[r].id] :
                                      l \in ToCreate(r)}
              /\ Goto(r, "fetch")
         ELSE Done(r) /\ UNCHANGED rows
    /\ UNCHANGED <<projects, issue, cached, sync, environment, used, history>>

(***************************************************************************)
(* The broadcast.  A message with dates, those of a row of the database,   *)
(* does not pass validateIssueUpdate; the others reach every client.       *)
(***************************************************************************)
Passes(message) == ~message.dates

Hand(message) ==
    /\ handed' = message
    /\ announced' = IF message.action = "remove" /\ Passes(message)
                      THEN [announced EXCEPT ![message.issue] = @ + 1] ELSE announced

FromRow(r, full) ==
    [action |-> req[r].verb, issue |-> req[r].ev.issue, dates |-> TRUE,
     rev |-> full.rev, labels |-> full.labels]
FromWebhook(r, dates) ==
    [action |-> req[r].verb, issue |-> req[r].ev.issue, dates |-> dates,
     rev |-> req[r].ev.rev,
     labels |-> IF req[r].ev.labels = None THEN {} ELSE req[r].ev.labels]

\* findById, which prefers the cache.
Fetch(r) ==
    LET i == req[r].ev.issue IN
    /\ At(r, "fetch")
    /\ IF cache[i] # None
         THEN /\ Hand(FromRow(r, cache[i]))
              /\ Done(r)
         ELSE /\ req' = [req EXCEPT
                     ![r].at = "fetched",
                     ![r].found = IF i \in Existing
                                    THEN [rev |-> issue[i].rev, labels |-> LabelsOf(i)]
                                    ELSE None]
              /\ UNCHANGED <<handed, announced>>
    /\ UNCHANGED <<database, cached, sync, environment, used, deletions, overran>>

\* The answer is cached.  Where there is none, the message is built from the
\* webhook: of the new row, of the row once more updated, or of id and title.
Fetched(r) ==
    LET i == req[r].ev.issue  found == req[r].found IN
    /\ At(r, "fetched")
    /\ IF found # None
         THEN /\ cache' = [cache EXCEPT ![i] = found]
              /\ Hand(FromRow(r, found))
              /\ Done(r)
         ELSE /\ UNCHANGED cache
              /\ IF req[r].verb = "update"
                   THEN Goto(r, "fallback") /\ UNCHANGED <<handed, announced>>
                   ELSE /\ Hand(FromWebhook(r, req[r].ev.action = "create"))
                        /\ Done(r)
    /\ UNCHANGED <<database, page, sync, environment, used, deletions, overran>>

Fallback(r) ==
    LET ev == req[r].ev IN
    /\ At(r, "fallback")
    /\ IF CanUpdate(ev)
         THEN issue' = Updated(ev) /\ Hand(FromWebhook(r, FALSE))
         ELSE UNCHANGED <<issue, handed, announced>>
    /\ Done(r)
    /\ UNCHANGED <<projects, rows, cached, sync, environment, used, deletions, overran>>

(***************************************************************************)
(* remove                                                                  *)
(***************************************************************************)
RemoveFind(r) ==
    /\ At(r, "removeFind")
    /\ IF req[r].ev.issue \in Existing THEN Goto(r, "removeDelete") ELSE Done(r)
    /\ UNCHANGED <<database, cached, sync, environment, used, history>>

\* Mutant: deleteMany, which does not mind a row that is gone.
RemoveDeleteMany(r) ==
    LET i == req[r].ev.issue IN
    /\ At(r, "removeDelete")
    /\ issue' = [issue EXCEPT ![i] = None]
    /\ rows' = rows \ RowsOf(i)
    /\ deletions' = IF i \in Existing THEN [deletions EXCEPT ![i] = @ + 1] ELSE deletions
    /\ Goto(r, "removed")
    /\ UNCHANGED <<projects, cached, sync, environment, used, handed, announced, overran>>

\* The delete takes the label rows along; of a row that is gone it is an error.
RemoveDelete(r) ==
    LET i == req[r].ev.issue IN
    /\ At(r, "removeDelete")
    /\ IF i \in Existing
         THEN /\ issue' = [issue EXCEPT ![i] = None]
              /\ rows' = rows \ RowsOf(i)
              /\ deletions' = [deletions EXCEPT ![i] = @ + 1]
              /\ Goto(r, "removed")
         ELSE Done(r) /\ UNCHANGED <<issue, rows, deletions>>
    /\ UNCHANGED <<projects, cached, sync, environment, used, handed, announced, overran>>

\* Mutant: the pages are left to expire.
RemoveAnswerPageStays(r) ==
    LET i == req[r].ev.issue IN
    /\ At(r, "removed")
    /\ cache' = [cache EXCEPT ![i] = None]
    /\ Hand([action |-> "remove", issue |-> i, dates |-> FALSE, rev |-> 0, labels |-> {}])
    /\ Done(r)
    /\ UNCHANGED <<database, page, sync, environment, used, deletions, overran>>

\* Its answer: the caches forget the issue, and the clients are told.
RemoveAnswer(r) ==
    LET i == req[r].ev.issue IN
    /\ At(r, "removed")
    /\ cache' = [cache EXCEPT ![i] = None]
    /\ page' = None
    /\ Hand([action |-> "remove", issue |-> i, dates |-> FALSE, rev |-> 0, labels |-> {}])
    /\ Done(r)
    /\ UNCHANGED <<database, sync, environment, used, deletions, overran>>

(***************************************************************************)
(* allIssues: an administrator's page, cached for two minutes              *)
(***************************************************************************)
List(r) ==
    /\ At(r, "idle")
    /\ r \in used.of.handlers
    /\ page = None
    /\ Goto(r, "list")
    /\ UNCHANGED <<database, cached, sync, environment, used, history>>

ListRead(r) ==
    /\ At(r, "list")
    /\ req' = [req EXCEPT ![r].at = "listed", ![r].ids = Existing]
    /\ UNCHANGED <<database, cached, sync, environment, used, history>>

ListAnswer(r) ==
    /\ At(r, "listed")
    /\ page' = req[r].ids
    /\ Done(r)
    /\ UNCHANGED <<database, cache, sync, environment, used, history>>

(***************************************************************************)
(* Time, failures, and the projects                                        *)
(***************************************************************************)
\* An entry outlives its time, and get() drops it.
Expire ==
    /\ \/ \E i \in Issue : cache[i] # None /\ cache' = [cache EXCEPT ![i] = None]
                           /\ UNCHANGED page
       \/ page # None /\ page' = None /\ UNCHANGED cache
    /\ UNCHANGED <<database, req, sync, environment, used, history>>

\* A call to the database fails, or its answer is lost, or the webhook's data
\* is refused: the handler ends, and what it has written so far stays.
Fail(r) ==
    /\ req[r].at \notin {"idle"}
    /\ Left("failures")
    /\ used' = [used EXCEPT !.failures = @ + 1]
    /\ Done(r)
    /\ UNCHANGED <<database, cached, sync, environment, history>>

\* A project goes, by a webhook or a synchronisation, and its issues with it.
RemoveProject(p) ==
    LET gone == {i \in Existing : issue[i].project = p} IN
    /\ p \in projects
    /\ Left("removals")
    /\ used' = [used EXCEPT !.removals = @ + 1]
    /\ projects' = projects \ {p}
    /\ issue' = [i \in Issue |-> IF i \in gone THEN None ELSE issue[i]]
    /\ rows' = {x \in rows : x.issue \notin gone}
    /\ UNCHANGED <<cached, req, sync, environment, history>>

(***************************************************************************)
(* The synchronisation: one transaction that sees the database as of its   *)
(* first read, asks Linear for the issues later, and writes them one by    *)
(* one.  A row it has written is locked until it commits, so that all its  *)
(* writes are one step; between the answer and that step there is time.    *)
(***************************************************************************)
SyncBegin ==
    /\ sync.at = "idle"
    /\ Left("syncs")
    /\ used' = [used EXCEPT !.syncs = @ + 1, !.deliveries = @ + 1]
    /\ sync' = [sync EXCEPT !.at = "begun", !.id = used.deliveries + 1,
                            !.rows = Existing, !.projects = projects]
    /\ UNCHANGED <<database, cached, req, environment, history>>

SyncFetch ==
    /\ sync.at = "begun"
    /\ sync' = [sync EXCEPT !.at = "fetched", !.linear = linear]
    /\ UNCHANGED <<database, cached, req, environment, used, history>>

\* Issues without a project, or with one that the transaction does not see, are
\* left alone, and so are the labels of an issue that has none in Linear.
Wanted == {i \in Issue : sync.linear[i] # None /\ sync.linear[i].project \in sync.projects}
Relabelled == {i \in Wanted : sync.linear[i].labels # {}}

\* The upsert inserts what the transaction does not see, which fails if it is there
\* by now, and updates what it sees; the caches are not told.
SyncWrites ==
    /\ issue' = [i \in Issue |->
           IF i \in Wanted
             THEN [rev |-> sync.linear[i].rev, project |-> sync.linear[i].project]
             ELSE issue[i]]
    /\ rows' = {x \in rows : x.issue \notin Relabelled} \cup
               UNION {{[issue |-> i, label |-> l, by |-> sync.id] : l \in sync.linear[i].labels}
                          : i \in Relabelled}

\* What it overruns: an edit of an issue it wrote, or a handler that has read the
\* labels and not written them yet.
SyncCommit ==
    /\ sync.at = "fetched"
    /\ IF \A i \in Wanted : (i \in sync.rows <=> i \in Existing)
                             /\ sync.linear[i].project \in projects
                             /\ sync.linear[i].team \in used.of.teams
         THEN /\ SyncWrites
              /\ overran' = overran
                    \cup {x \in {"edit"} : \E i \in Wanted : linear[i] # sync.linear[i]}
                    \cup {x \in {"labels"} : \E r \in Request :
                             req[r].at \in {"labelsDelete", "labelsWrite"}}
         ELSE UNCHANGED <<issue, rows, overran>>
    /\ sync' = NoSync
    /\ UNCHANGED <<projects, cached, req, environment, used, told>>

SyncFail ==
    /\ sync.at # "idle"
    /\ Left("failures")
    /\ used' = [used EXCEPT !.failures = @ + 1]
    /\ sync' = NoSync
    /\ UNCHANGED <<database, cached, req, environment, history>>

Synchronise == SyncBegin \/ SyncFetch \/ SyncCommit \/ SyncFail

Handle(r) ==
    \/ Ensure(r) \/ EnsureUnassigned(r) \/ Insert(r) \/ CacheNew(r)
    \/ Exists(r) \/ Update(r)
    \/ LabelsRead(r) \/ LabelsDelete(r) \/ LabelsWrite(r)
    \/ Fetch(r) \/ Fetched(r) \/ Fallback(r)
    \/ RemoveFind(r) \/ RemoveDelete(r) \/ RemoveAnswer(r)
    \/ List(r) \/ ListRead(r) \/ ListAnswer(r)

Next ==
    \/ \E i \in Issue, action \in {"create", "update", "remove"},
          labels \in (SUBSET Label) \cup {None},
          p \in (Project \ {Unassigned}) \cup {None}, t \in Team :
           Edit(i, action, labels, p, t)
    \/ \E r \in Request, n \in DOMAIN net, again \in BOOLEAN : Deliver(r, n, again)
    \/ \E r \in Request : Handle(r) \/ Fail(r)
    \/ \E p \in Project : RemoveProject(p)
    \/ Synchronise
    \/ Expire

Spec == Init /\ [][Next]_vars

---------------------------------------------------------------------------
Quiet == net = << >> /\ (\A r \in Request : At(r, "idle")) /\ sync.at = "idle"

\* Webhooks in order, one handler, and nothing that fails.
Orderly ==
    used.of.inOrder /\ Cardinality(used.of.handlers) = 1 /\ used.of.failures = 0 /\ used.of.removals = 0

\* An issue of a project or of a team that the database does not have is not written.
ProjectsKnown == Project \ {Unassigned} \subseteq used.of.known
TeamsKnown == Team \subseteq used.of.teams

\* Whatever is done in Linear, as long as its projects and teams are here, once its
\* webhooks have been handled one after the other the database has each issue at its
\* last edit, its labels with exactly one row each; also when webhooks are sent twice, and when a synchronisation
\* writes the issues in between, before or after their webhooks: unless an edit
\* came after its question to Linear, or it met a handler at the labels.
MirrorsLinear ==
    Orderly /\ ProjectsKnown /\ TeamsKnown /\ Quiet /\ "edit" \notin overran =>
      \A i \in Issue :
        /\ i \in Existing <=> linear[i] # None
        /\ i \in Existing =>
              /\ issue[i].rev = linear[i].rev
              /\ LabelsOf(i) = linear[i].labels
              /\ "labels" \notin overran => Cardinality(RowsOf(i)) = Cardinality(LabelsOf(i))

\* No cache answers for an issue that a webhook has removed, and the pages list
\* every issue that a webhook has created (one that only a synchronisation has
\* created waits for the page to expire).
CachesForget ==
    Orderly /\ Quiet =>
        /\ \A i \in Issue \ Existing : cache[i] = None
        /\ used.syncs = 0 => page \in {None, Existing}

\* However many removals of an issue overlap, clients hear of one only when a
\* row was deleted for it: never of a removal that found nothing to remove.
RemovalAnnouncedOnce ==
    \A i \in Issue :
        announced[i] + Cardinality({r \in Request : At(r, "removed") /\ req[r].ev.issue = i})
            <= deletions[i]

\* Handlers that overlap can write the same label twice, but not again and
\* again: no label of an issue has more rows than handlers can overlap, and one
\* more where a synchronisation writes labels next to them.
DuplicatesBounded ==
    \A i \in Issue, l \in Label :
        Cardinality({x \in RowsOf(i) : x.label = l}) <=
            Cardinality(used.of.handlers) + (IF used.syncs > 0 THEN 1 ELSE 0)

\* README.md:12, "WebSocket integration to push live issue updates to connected
\* clients": what the webhooks hand to the gateway reaches the clients.
LiveUpdatesPushed == handed # None => Passes(handed)

\* webhook.issue.service.ts:87 and :134, "Fetch the complete issue with labels",
\* "Broadcast the complete issue": the message has the labels in the database.
BroadcastComplete ==
    [][handed' # handed /\ handed'.dates =>
           handed'.rev = issue[handed'.issue].rev
           /\ handed'.labels = LabelsOf(handed'.issue)]_vars

\* Not so: once everything is quiet the rows are as new as the last webhook, also
\* when a synchronisation (issue-sync.service.ts:275) has written them meanwhile.
WebhooksPrevail ==
    Orderly /\ Quiet => \A i \in Existing : linear[i] # None => issue[i].rev = linear[i].rev

\* webhook.issue.service.ts:162, "Issue doesn't exist, need projectId for creation": an
\* issue that is not here is created when its project is here.
ProjectSuffices ==
    Orderly /\ ProjectsKnown /\ used.syncs = 0 /\ Quiet =>
        \A i \in Issue : linear[i] # None => i \in Existing

\* webhook.issue.service.ts:246, "Try to get projectId from project.id if projectId is
\* missing": an issue is in the project that its webhook names either way.
ProjectsFollow ==
    Orderly /\ ProjectsKnown /\ TeamsKnown /\ used.syncs = 0 /\ Quiet =>
        \A i \in Existing : linear[i] # None /\ linear[i].project # None =>
            issue[i].project = linear[i].project
=============================================================================
