# A TLA+ model of the time and issue tracker's backend

The repository is a NestJS service: a GraphQL API over a MySQL database reached
through Prisma, webhooks from Linear, a synchronisation with Linear's API, and a
WebSocket gateway that pushes issue updates. It runs as **one Node.js process**.
There are no threads; what interleaves is the code between two `await`s. Every
request, webhook and interval is a coroutine, each database call or HTTP call is a
point where any other coroutine may run, and each may fail or lose its answer. A
restart loses everything that is held in memory and nothing that is in the database.
The models below are cut exactly there: a step is the code from one `await` to the
next.

Paths are relative to the repository; `src/` is the source directory in it.

## 1. Inventory

| Component | Source | State it keeps | Operations |
|---|---|---|---|
| Token blacklist | `src/common/services/token-blacklist.service.ts` | two maps in memory: refused ids with deadlines, ids per user | blacklist, query (deletes lazily), track, blacklist all of a user, hourly cleanup, destroy |
| Sessions | `src/auth/auth.service.ts`, `token.service.ts`, `src/user/services/user-role.service.ts` | `User.hashedRefreshToken`, `role`, `tokenVersion`; JWTs held by clients | sign-in, refresh, logout, role change |
| Authentication guard | `src/auth/auth.guard.ts`, `jwt-cache.service.ts` | a verified token on each request object | verify, blacklist, compare version and role, for each root field of an operation |
| Accounts | `src/auth/auth.service.ts`, `src/user/user-core.service.ts` | the rows of `User` | sign-up, role change |
| GraphQL rate limiter | `src/common/plugins/graphql-rate-limit.plugin.ts` | a window per client, in memory | count or refuse, cleanup |
| Gateway, connection manager | `src/issue-updates/issue-updates.gateway.ts`, `services/connection-manager.service.ts` | open sockets, registry, index by user | connect, disconnect, limit, cleanup |
| Broadcast, validation | `src/issue-updates/` | none | validate a message, emit it |
| Issue webhooks | `src/webhook/webhook.issue.service.ts` | none (handlers in flight) | create, update, remove |
| Issues and labels | `src/issue/issue.service.ts` | the rows of `Issue`, `Label` | create, update labels, fetch, remove, list |
| Issue cache | `src/issue/services/issue-cache.service.ts` | a map in memory with expiry | fill, invalidate, expire |
| Project webhooks | `src/webhook/webhook.project.service.ts`, `src/project/project-sync.service.ts` | the rows of `Project` | create, update, remove |
| Synchronisation | `src/dbSynch/` | one transaction over `Team`, `Project`, `Issue`, `Label` | teams, projects, issues, cleanup of what Linear no longer has |
| Times, rates, memberships | `src/time/`, `src/rate/`, `src/user/services/user-team.service.ts` | the rows of `Time`, `Rate`, `UserTeam` | create, update, remove; reports |
| Invoices | `src/invoice/invoice.service.ts` | none (four queries in a row) | generate |
| Teams, memberships, lists | `src/team/`, `src/user/`, `src/loaders/`, `src/issue/issue.resolver.ts` | the rows of `Team`, `UserTeam`; loaders for the length of an operation | create a team, add and remove a member; teams of a user, projects of a team, pages of issues |
| Connections | `src/prisma/prisma.service.ts` | the pool of database connections | take, wait, give up, give back |
| Errors | `src/common/exceptions/`, `src/common/filters/` | none | turn what is thrown into a code |
| Sanitisation | `src/common/services/sanitization.service.ts` | none | rewrite or refuse what Linear sends |
| The rest | see `PROJECT.json` | none, or not part of the program | queries, formatting, configuration |

**How they interact.** The guard and the session handlers share the blacklist (by
calls) and the `User` row (through the database). Issue webhooks write the tables
that the synchronisation writes, and fill a cache that only some of those writes
invalidate. They then hand a message to the gateway. Everybody takes connections from
one pool, webhooks up to three at once. A GraphQL operation may have several root
fields: they share one verified token and the loaders of the operation, those of a mutation
one after the other. The cleanup of the
synchronisation deletes teams and projects, and the database cascades the deletion
to rates, times and issues that people entered meanwhile. Invoices read times, rates
and memberships by separate queries.

**What is hard**, and what the properties are for:

- *Check, await, act*: the hash of a refresh token is compared in one query and
  replaced in another; the count of users decides a role two calls before the insert;
  invoices sum in one query and read the rates in the next; whether a member or a team is
  there is asked before it is inserted; a page of issues is looked up with memberships
  read before.
- *Remembered for the length of an operation*: the verified token, the loaders' lists; a field
  before may have changed what they remember.
- *Nested transactions*: a handler holds up to two connections and waits for another.
- *Stale reads*: tokens are minted from a row read before; the issue cache is filled
  before labels are written; the cleanup decides about rates from a snapshot that is
  up to a minute old.
- *Memory and database disagree after a restart*: the blacklist is gone, the
  refresh hash is not.
- *Delivery*: webhooks overlap, come twice, come late, with what Linear had when they were sent. The "transactions" around
  them contain nothing (their callbacks use the client outside of the transaction),
  so that a handler that fails half-way leaves what it has written.
- *Boundaries*: `ttl = 0`, strict and non-strict expiry, two rate-limit windows that
  meet, periods that share an instant, rounding of lines and of totals.
- *Things that must happen eventually*: expired entries leave the maps, silent
  clients are disconnected, orphaned teams go.

`PROJECT.json` lists each hazard at its line, with the properties that would catch
it, or why none does.

**What makes each component correct.** Blacklist: a revoked token is refused until
its deadline, however entries are cleaned. Sessions: a token that was logged out,
rotated away or overtaken by a role change is refused, and no token carries a role its
user does not have. Accounts: an empty system gets an administrator. Rate limiter: at
most twice the limit in a window's length, no refusal below the limit, no entry for ever. Gateway: the registry is the set of open
sockets. Issue feed: the database and the caches show what Linear shows. Synchronisation:
the database becomes a copy of Linear and nothing entered locally is lost. Billing:
invoices are complete, add up, and charge what they should. Guard: a field is granted only to
who may have it since the operation began, and refused only to who may not. Pool: handlers do not
wait for each other for ever. Teams: answers were true at an instant of the operation, errors
are earned, lists hide what they must and forget nothing, pages miss nothing.

## 2. Modules

```
RevocationList  <--refines--  TokenBlacklist  <--INSTANCE--  Sessions  <-- MCSessions, SessionsProofs
                                    ^
                                 INSTANCE
                                    |
                              RequestGuard  <-- RequestGuardProofs

Accounts, TokenBlacklist  <-- AccountsProofs
ConnectionPool, Gateway   <-- LimitsProofs
GraphQLRateLimit, Billing <-- SumProofs
Billing   <-- MCBilling
IssueFeed <-- MCIssueFeed, IssueFeedProofs
TeamAdmin <-- MCTeamAdmin, TeamAdminProofs
DbSync    <-- DbSyncProofs
```

`AccountsProofs`, `LimitsProofs` and `SumProofs` prove things of two components that have nothing to do with each
other, one after the other. As a module can extend two others only if they share no name, `Accounts`,
`GraphQLRateLimit` and `ConnectionPool` say `AccountsSpec`, `LimitSpec` and `PoolSpec`, `LimitTypeOK`, `PoolTick`,
`RateLimitEntry` and so on where the others say `Spec`, `TypeOK`, `Tick` and `Entry`. `SumProofs` begins with what is
needed of `SumFunctionOnSet`, the sum of a function over a finite set, which both of its components use.

`MC...` modules give TLC its instances (symmetry sets, a price list, the questions clients ask). Modules without
one are instantiated by their `.cfg` alone. Operators named like a definition with a
suffix and commented "Mutant" are deliberate bugs; no specification uses them, they
exist to show that the properties notice.

### TokenBlacklist and RevocationList

`blacklistedTokens` and `userTokens` are the two private maps; a missing key is 0, as
the code's `if (!exp)` treats it. Each method is synchronous and is an operator of the
same name. `Next` is an arbitrary caller. `ExpiresAt` keeps the code's defaulting: a
`ttlMs` of 0 is falsy and means seven days. `Destroy` stands for `onModuleDestroy` and
equally for a crash.

`RevocationList` is the abstract promise: deadlines that lapse by themselves. It has no
stale entries, no lazy deletion and no cleanup. `ImplementsPromise` is the refinement
under the mapping `Visible`, which shows an entry only while it is listed.

### Sessions

One row per user (`role`, `tokenVersion`, `hashedRefreshToken`), the pairs that
`generateTokens` minted with their claims, who holds them, a blacklist (by `INSTANCE
TokenBlacklist`), and the requests in flight with the call each will make when it
resumes. The steps of each handler:

| Handler | Steps |
|---|---|
| `signIn` | `SignIn`, `GenerateTokens`, `UpdateHash` |
| `refreshToken` | `RefreshVerify`, `RefreshGranted` / `RefreshDenied`, `GenerateTokens`, `UpdateHash` |
| guard, then any resolver | `GuardVerify`, `GuardAccept` / `GuardReject`, `Serve` |
| `logout` | guard, `LogoutRevoke`, `LogoutClear` |
| `updateUserRole` | `RoleFind`, `RoleUpdate`, `RoleRevoke` |
| environment | `Fail` (any call), lost answers (inside `UpdateHash`, `RoleUpdate`), `Cleanup`, `Tick`, `Restart` |

A bcrypt hash is modelled by the pair it was computed from. bcrypt reads 72 bytes only,
but those of a refresh token reach into its `jti` (the payload begins with `sub` and
`jti`), and a `jti` is random: equality of hashes is equality of tokens. Signing touches
no shared state. `spent`, `minted`, `loggedOut`, `dismissed` and the `parent` of a pair are
history for the properties. The assumption `RefreshTTL <= SevenDays` holds for the
defaults (15 minutes, 7 days, 7 days). With a longer refresh lifetime the blacklist's
entry runs out before the token, and the listing after a role change ends early.

### RequestGuard

One GraphQL operation with several root fields (`Fields`), and the guard before each of
them. `Sessions` has the guard of one field next to the life of tokens; here one token is
fixed, and what matters is what the fields share: `verifiedAt` is the entry that
`JwtCacheService` keeps on the request object. `CacheHit`, `Verify`, `ReadRow` and `Answer` are
`canActivate` from `await` to `await`. The fields of a query are side by side, those of a
mutation one after the other, and an error ends the others, because no mutation of the schema
may answer null. A time to live that is 0 or negative never expires an entry (`Fresh`); the
default is 5 seconds. A hit still compares roles, with those of the verification. The
blacklist is an `INSTANCE` of `TokenBlacklist`. `spoiled` (since when the token is not
acceptable) and `slowest` (the longest verification) are history. Users are never deleted, and
`clearCache` has no caller. A refusal for want of a role is thrown
as `AUTH_FAILED` by the first verification and as `FORBIDDEN` by a hit; the model does not
tell them apart.

### ConnectionPool

Who holds connections and who waits. A handler runs a program (`UpdateIssue`, `UpsertIssue`,
`CreateIssue`, `RemoveIssue`, `Change`, `Synchronise`, `Request`, `Count`): the calls of that handler in
order, each with the number of transactions open around it. A program is the longest way through its
handler, with nothing cached: where an issue is created, that includes the search for a project, the transaction
that creates the "Unassigned" one, and the deletion of labels. Ways that are shorter leave queries out or end early
(`Refuse`). A page of issues sends the query for its rows and the one for their number at once, on two connections;
neither waits for the other, so that the model has the second as a handler of its own (`Count`). `query` takes a connection of its
own for as long as it runs, `inside` uses the transaction's. The pool and its limits are
Prisma's: 2 s to begin a transaction, 10 s for a query, 5 s for a transaction and a minute for
the synchronisation's; a pool has twice the number of processors and one more unless the
connection string says otherwise. A transaction over its time loses its
connection, but nothing stops the callback (`Expire`, `Closed`). Time passes only when nothing is
due, so that limits are limits; `QueryTime` and `LinearTime` bound what is not the code's.
`Patient` and `Lasting` say how the limits relate to the time of a query: whoever waits is ready to
wait for a query of every other handler, and a transaction may take as long as a query of everybody
and one more. With queries of milliseconds they hold of hundreds of handlers.

### TeamAdmin

GraphQL operations that create teams, add and remove members and read lists, each call to
the database a step, and the synchronisation's additions and deletions in between
(`SyncAdds`, `SyncDrops`, `SyncDropsProject`). A mutation has up to `MaxFields` fields, one after
the other, that share `teamsOf` and `projectsOf`, the caches of the loaders, which are
`Scope.REQUEST` and go with the operation (`Unload`). `Code` is what the exceptions of
`common/exceptions` and the filter make of an error; what a field resolver throws does not
pass the filter (field resolver enhancers are off). `CreateWrite` answers a lost race
with `DUPLICATE_ENTRY` and not with a conflict: `TeamService.create` returns the transaction's promise
without awaiting it, and its catch clause never runs. `Skip` and `Take`
are the paging of issues: it skips by the limit that is asked for and takes by the one that is granted. The query
orders by `updatedAt`, and two issues may have the same: so each query has an order of its own, any of `Orders`, the
assignments of places to rows in which what was updated later comes first. A page is the set of the rows
whose places are in its slice (`Page`). `seen` and `lately` are history: the states of the database since the operation
began, and since its field began or last wrote.

### Accounts

Sign-up as `count`, `findOne`, `create` with bcrypt in between, the unique index on the
address, and role changes as in `user-role.service.ts`. `first` and `bornAdmin` are
history.

### GraphQLRateLimit

`storage` with the fixed windows; `didResolveOperation` has no `await` and is one step,
refused operations are counted as well. `configured` says whether `GRAPHQL_RATE_LIMIT_WINDOW` is set. Nothing converts
what the environment has (`ConfigService.get<number>` only names a type, and `ConfigModule.forRoot()` has no schema), so that
the length of the window is then a text, and `now + this.windowMs` puts its digits behind those of the clock (`WindowEnd`): with
60000 the end of the window is millions of years away. `Shift` is ten for every digit, multiplied. The limit of
operations is a text as well when it is set, which changes nothing: it is only compared. `StartMs` is the clock at the
start of the process, so that the model has a 1970 to count from. `served` and `refused` are history.

### Gateway

`handleConnection`, `handleDisconnect` and the cleanup interval; closing a socket and its
removal from the registry are one step, because socket.io runs the disconnect handler
inside `disconnect()`. `UserId(s)` is `None` for every socket: guards run before message
handlers, never before `handleConnection`. The eviction (`Evicted`) is modelled as
written; it never has anything to do. `updateActivity`, `checkRateLimit` and `disconnectUser`
have no callers and are not modelled. `owner` and `heard` are what the outside world
knows: whose client it is and when it was last heard from (`Hear` is the heartbeat of Socket.IO, which no code of the
repository takes notice of).

### IssueFeed

Webhook handlers over the tables `Project`, `Issue`, `Label`, the cache of issues and one
page of issues, and the last message handed to the gateway. Each database call is a step.
`Edit` is a person at Linear, whose webhook goes to `net`; `Deliver` starts a handler,
in order or not, and may leave the webhook there to be sent again. The
transaction opened by `handleIssue` is not modelled as one because nothing runs in it.
The one in `updateLabelsForIssue` is `LabelsWrite`: its deletion runs before it, outside.
The content of an issue is the number of the edit that wrote it. `Passes` is the part of
`validateIssueUpdate` that decides: a message with `Date` objects does not.

An issue refers to a project and to a team. `Insert` and `CanUpdate` fail when the database does not have
the team (`teamKey` is a foreign key) or the project; a failure is logged, Linear is told of success, and nothing is sent again.
`Ensure` and `EnsureUnassigned` are `ensureProjectId`: without an id in the webhook it takes a project of the team or any other,
or, where there is none, makes one ("Unassigned") under some team, and fails when there is no team either. It reads `project.id` as well as `projectId`, while an
update writes the project from `projectId` only (`ProjectId`): whether webhooks have both is a circumstance (`ids`).

A synchronisation may run beside the handlers: it reads the table, asks Linear, and commits what
Linear answered then, with new rows for the labels (`SyncWrites`, `SyncCommit`). It tells neither the
caches nor the gateway. It fails at an issue of a team that the database lacks. `overran` is history: what it has written over. A *regime* says which
of overlap, disorder, failures, removals and synchronisations may happen, which projects and teams the database
has, and which teams Linear's issues are in; a run takes
a set of regimes, and a behaviour stays in one. What webhooks and the synchronisation format
differently (due dates, defaults, markup) is not told apart.

### DbSync

The transaction of `synchronizeDatabase` beside Linear's own changes, project webhooks
and what people enter. MySQL's default isolation is repeatable read, hence `sync.view`, the
snapshot with the transaction's own writes; `sync.touched` is the set of rows it has
locked. An issue that it puts into a project locks that row, too, against deletion and
change (`Referred`), and with a team it deletes the projects that webhooks have put there meanwhile and
their issues, those that it has just written included (`CleanupTeams`); cascades and foreign keys see the rows that are there *now* (`Commit`,
`CleanupTeams`). The phases `teams`, `projectTeams`, `projects`, `issues`, `cleanup`,
`orphanTeams`, `commit` are the five conversations with Linear and the writes after each.
All pages of the projects of a team and of issues are read, and count as one answer. The queries for teams, of the team
synchronisation and of the project synchronisation, and those of the cleanup name no page and get the first one only
(`FirstPage`). An issue whose team is not in the database ends the synchronisation (`Issues`), as does a project that came or
went since the snapshot (`UpsertsProjects`: the upsert looks in the snapshot and writes to what is there).

A webhook for a project has a payload that was made at some edit, and may arrive much later: `ProjectWebhook` may write any project
under any team that is here, whatever Linear has by now, and `ProjectRemoved` may remove any. Both are dropped when the first team of
the payload is not in the database, because `getTeamById` throws. An issue webhook that finds no project at
all creates "Unassigned" (`FindNoProject`, then `CreateUnassigned` under any team that is there). `linear.unfit` is what Linear has with a text, a date, a colour or an id that
`SanitizationService` refuses (`Refused`), which ends the synchronisation; an issue is sanitised
with its labels (`IssuesRefused`), a team by itself; projects are written as they come. The cleanup also deletes the
project "Unassigned" that webhooks create, as it would any project that Linear does not
have. Foreign keys follow `prisma/schema.prisma`: rates and times cascade,
memberships restrict.

### Billing

The rows of `Time`, `Rate`, `UserTeam` for one project, and `generateInvoiceForProject` as
its four queries with everybody else's writes between them. Instants and money are
naturals, the rounding of `toFixed`/`Math.round` is `Round`; exact arithmetic stands for
floating point. A new entry's end is the server's clock, but `update` can move it
anywhere, so that any end is reachable and `CreateTime` takes any. Ids come from
`autoincrement` and are never reused (`entered`). Rates of other teams, which `createTime`
does not check, are outside the model's single project.

## 3. Runs

Passing runs, all exhaustive:

| Run | Question | Properties | Bounds |
|---|---|---|---|
| `blacklist` | Does the service keep its promise, and forget what it may? | `ImplementsPromise`, `ExpiredEntriesDropped` | 2 tokens, 2 users, default lifetime 2, clock to 4 |
| `sessions` | Can a token do what its user may no longer do? | `VersionDeterminesRole`, `SpentNeverStored`, `RotationRetiresParent`, `LoggedOutRefused`, `DismissedRefused` | 1 user, 2 roles, 2 pairs, 2 requests, access 1, refresh 2, clock to 3, one role change, one restart |
| `request_guard` | What does a verified token that is kept for a request let in, and how long? | `GrantedWhileAcceptable`, `StalenessBounded`, `RefusalEarned` | 2 fields, 2 roles, time to live 0 or 1, access 3, clock to 3, one role change |
| `accounts` | Does overlapping sign-up leave a system with an administrator? | `FirstIsAdministrator`, `SignUpKeepsAccounts` | 2 addresses, 2 requests |
| `rate_limit` | How much gets through, is a refusal earned, are clients forgotten? | `BurstBounded`, `RefusalEarned`, `EntriesDropped` | 2 clients, limit 2, window 2 as a number and as a text, clock from 1 to 6 |
| `gateway` | Does the registry follow the sockets? | `RegistryMatches`, `SilentDropped` | 3 sockets, timeout 2, clock to 7 |
| `feed` | Does the database mirror Linear when webhooks are handled one by one, some twice, or around a synchronisation? What survives overlap, disorder, failures and teams that are not here? | `TypeOK`, `MirrorsLinear`, `CachesForget`, `RemovalAnnouncedOnce`, `DuplicatesBounded` | 1 issue, ten regimes: 1 or 2 handlers, 1 or 2 labels, up to 2 teams, 1 to 3 edits, one retry, failure, removed project or synchronisation |
| `dbsync` | Does a commit mirror Linear and keep local data, with late webhooks beside it? Do orphans go? | `SyncMirrors`, `LocalDataKept`, `OrphansHandled` | 2 teams, 1 project and "Unassigned", 1 issue, 1 label that may be refused, 2 edits, 1 webhook, 1 local entry, 1 failure, 3 changes in all |
| `billing` | Are invoices complete and consistent, and the filters right at their boundaries? | `TypeOK`, `InvoiceComplete`, `IntegrityErrorEarned`, `InvoiceAddsUp`, `BilledWhenOverlapping`, `ReportedOnce`, `RemovalKeepsTime` | 2 rates, 2 entries, 1 user, instants 0..3, days of 2 |
| `connection_pool` | Can handlers wait for each other for ever, or be cut off half-way? | `SparePreventsStandstill`, `RoomyServes`, `DeletesWithinTransaction` | 2 handlers, 8 programs, 2, 4 or 5 connections |
| `team_admin` | Are answers, errors and lists true while members and teams change? | `ErrorsEarned`, `ListsTrue`, `MembersSeeTheirs`, `PagesComplete` | 2 operations with up to 2 fields, 1 user, 2 teams, 2 projects, 3 issues, two of them updated at once, pages of 1 or 2, 1 change by the synchronisation |

One run ends in a violation, and `PROJECT.json` quotes the sentence under `findings`:
`feed_live` confronts "push live issue updates to connected clients" (`README.md:12`) with a
message with `Date` objects, which does not pass the validation, so that nobody receives it. Section
4 has the others.

### Why the bounds are enough

- *Sessions*: the bad cases need a token, its successor or a competitor, and two requests at
  once. Users share nothing except the blacklist's map of ids, so that one user is enough; roles
  only need to differ. Lifetimes 1 and 2 with a clock to 3 give every order of the
  expiries of both tokens and of the blacklist's entries. The theorems of section 5 drop
  all of these bounds.
- *RequestGuard*: two fields are the first to share a verification; what a third could find in the
  cache, the second could. The clock passes the time to live before the token expires.
- *ConnectionPool*: two handlers can hold the four connections of a pool and wait for a fifth; 5 is two
  for each and one more. The theorems have any number of handlers, connections and any limits.
- *TeamAdmin*: two operations, so that one loses the race that the other wins; two fields, so
  that the second finds what the first has loaded; an issue whose team is not its project's. Of the three issues two
  have the same `updatedAt`, the third was updated later: pages of one issue separate what has no order.
- *Rate limit, gateway*: the clock passes through more than two windows or timeouts.
  Clients and sockets do not interact. The clock begins at 1 and a text of one digit makes it tenfold (`Shift`), which is
  beyond `MaxClock`, as it is beyond a process's life with the clock of today (`RateLimitAssumption`).
- *IssueFeed*: one issue, because handlers of different issues share only the page and
  the projects. Three edits give create, update, remove and a second life; two
  handlers lose every race that two can lose. The regimes separate what makes the state space
  large together: failures, removed projects and synchronisations are not combined. `TwoTeams` has issues in two teams that are both
  here; in `OneTeam` one of them is not, in `NoTeam` neither team nor project; in `ById` webhooks name projects by
  `project.id` only. `OneTeam` and `NoTeam` are outside what
  `MirrorsLinear` promises (`TeamsKnown`), and inside the others.
- *DbSync*: two teams, so that a project can move and one of them can be an orphan;
  a page size of 2 makes the one page complete. `DbSyncPages.cfg` has a page size of 1 and two
  projects. `MaxChanges` bounds edits, entries and webhooks together: three may fall into one synchronisation, or before it.
  An issue webhook that finds no project counts as a webhook.
- *Billing*: `DecimalPlaces` 2 and `MsPerHour` 4 make rounding go both ways, with two
  rates both ways at once. Four instants hold an entry that spans a period on both sides,
  and two reports with an entry across their border.
- Counters (`MaxEdits`, `MaxFailures`, `MaxRetries`, `MaxRestarts`, `MaxVersion`, `MaxCount`,
  `MaxTime`, `MaxClock`) are bounded in the guards that increase them. `IssueFeed` may stop when
  all edits are handled, and `TeamAdmin` when all operations are; their runs do not check for
  deadlock. All the others do.

### Fairness

- `TokenBlacklist`, `GraphQLRateLimit`: weak fairness of `Cleanup` and `LimitCleanup`, a `setInterval` that fires
  as long as the process lives, and in the second of the clock (`LimitTick`). Nothing is assumed of callers.
- `DbSync`: weak fairness of `Step`, because every query has a time limit and either answers
  or fails, and failures are bounded; and of `Begin`. Nothing in the code begins a
  synchronisation by itself: an administrator does. The liveness properties therefore
  speak of an administrator who tries again, and say so.
- `Gateway` needs none: its interval is a deadline (`cleanupDue`) that the clock does not
  pass, so that `SilentDropped` is a safety property.
- All other specifications state safety only, without fairness.

## 4. What does not hold, and what the checks leave open

Besides the finding above, TLC refutes these statements about the code; where there is no
sentence of the repository, the statement is what one might expect. Each is stated in its
module, and the configuration reproduces the trace (`tlc -config X.cfg M`).

| Property | Configuration | The sentence | What the trace shows |
|---|---|---|---|
| `Sessions!ExchangedOnce` | `SessionsExchange.cfg` (MCSessions) | "access and refresh token rotation" (`README.md:8`) | two overlapping refreshes with one token both succeed: the hash is compared in one query and replaced in another |
| `Sessions!AllExistingTokensInvalidated` | `SessionsRestart.cfg` (MCSessions) | "all existing tokens invalidated" (`user-role.service.ts:74`) | after a restart nothing is tracked, and a refresh token, which has no version, outlives the role change |
| `Gateway!LimitPerUser` | `GatewayLimit.cfg` | "Check for connection limit enforcement before adding" (`issue-updates.gateway.ts:80`) | one connection more than the limit: the user is unknown when the check is made |
| `Gateway!OnlyInactiveDropped` | `GatewayActive.cfg` | "Disconnected inactive connection" (`issue-updates.gateway.ts:243`) | a client dropped right after it was heard from: nothing updates `lastActivity` |
| `IssueFeed!BroadcastComplete` | `IssueFeedComplete.cfg` | "Fetch the complete issue with labels" (`webhook.issue.service.ts:87`) | the cache answers with the labels of before |
| `Accounts!SubsequentUsersPending` | `AccountsBootstrap.cfg` | "should create subsequent users as PENDING" (`auth.service.spec.ts:183`) | two sign-ups that both count zero users become administrators |
| `IssueFeed!WebhooksPrevail` | `IssueFeedStale.cfg` (MCIssueFeed) | none | a synchronisation writes what Linear answered before an edit over what the webhook of that edit has written |
| `DbSync!OrphansCleanedUp` | `DbSyncOrphans.cfg` | "will be handled in cleanup" (`team-sync.service.ts:170`) | a team with a member makes every synchronisation fail, so that it never goes |
| `DbSync!LabelsSkipped` | `DbSyncLabels.cfg` | "Continue processing other labels even if one fails" (`issue-sync.service.ts:337`) | a label that the sanitizer refuses ends the synchronisation: the issue has been sanitised with its labels before |
| `ConnectionPool!LabelsReplacedTogether` | `ConnectionPoolSmall.cfg` | none | in a small pool the transaction for the labels is over while the deletion outside of it waits, and the labels are deleted and not written |
| `TeamAdmin!OwnWriteShown` | `TeamAdminOwn.cfg` (MCTeamAdmin) | none | the second field of a mutation shows the teams that the first one loaded, without its own change |
| `TeamAdmin!LargePagesComplete` | `TeamAdminPages.cfg` (MCTeamAdmin) | "Cap at 100 items per page" (`issue.service.ts:82`) | a limit above the cap: a page has the cap, the next begins after the limit |
| `TeamAdmin!MyProjectsComplete` | `TeamAdminProjects.cfg` (MCTeamAdmin) | none | a failed load leaves out projects, and the answer does not say so |
| `TeamAdmin!IssuesKeepTeam` | `TeamAdminKeys.cfg` (MCTeamAdmin) | `teamKey` is not nullable (`issue.model.ts:40`) | a team goes, the issue's `teamKey` becomes null, and the page it is on has no answer |
| `DbSync!RatesKept` | `DbSyncRates.cfg` | "Orphaned team has local data. Keeping it." (`cleanup-sync.service.ts:175`) | a rate entered during the synchronisation goes with its team |
| `DbSync!OnlyOrphansRemoved` | `DbSyncPages.cfg` | "Used when projects are deleted from Linear" (`project-sync.service.ts:99`) | a project beyond the first page is deleted, with its times |
| `DbSync!OrphanProjectsDeleted` | `DbSyncLate.cfg` | "Deleting orphaned projects" (`cleanup-sync.service.ts:142`) | during the synchronisation a late webhook writes a project that Linear no longer has: the snapshot does not show it, and it is there after the commit, although Linear stands still |
| `GraphQLRateLimit!RefusedWithinWindow` | `GraphQLRateLimitSet.cfg` | `GRAPHQL_RATE_LIMIT_WINDOW=60000` (`.env.example:31`) | with the setting as documented no window ends: a client that has used its limit up is refused for ever, and "Clean up expired entries every 5 minutes" (`graphql-rate-limit.plugin.ts:26`) finds none |
| `IssueFeed!ProjectSuffices` | `IssueFeedLost.cfg` (MCIssueFeed) | "Issue doesn't exist, need projectId for creation" (`webhook.issue.service.ts:162`) | an issue of a team that the database lacks is never written, whatever its project |
| `IssueFeed!ProjectsFollow` | the same with `ProjectRegime` | "Try to get projectId from project.id if projectId is missing" (`webhook.issue.service.ts:246`) | an update that names a project by `project.id` alone leaves the issue in its old project |
| `TeamAdmin!EveryIssueShown` | `TeamAdminTies.cfg` (MCTeamAdmin) | none | two issues with the same `updatedAt` change places between the queries of two pages: one is shown twice, the other never |
| `DbSync!NoWebhookMissed` | `DbSyncWebhooks.cfg` | "Triggering team synchronization." (`webhook.service.ts:86`) | `getTeamById` throws, so that the branch is unreachable and the webhook is dropped |
| `Billing!BilledOnce` | `BillingTwice.cfg` (MCBilling) | "handles overlapping time periods correctly" (`invoice.service.ts:172`) | an entry that reaches into two disjoint periods is charged in full by both |

`SyncMirrors` and `LocalDataKept` hold of synchronisations during which Linear stands
still (`"linear" \in sync.calm`): the code asks Linear five times and nothing ties the
answers together. They also need that Linear's teams and projects fit the only page that is asked for (`OnePage`):
`DbSyncPages.cfg` shows what else goes. Webhooks may be late in them. What such a webhook writes of a project that Linear has is
written over by the synchronisation, or makes it fail; a project that Linear does not have is out of its sight, and
stays until the next one: that all others are gone (`NoOtherProjects`) holds only if none was written meanwhile
(`"others" \in sync.calm`), as `DbSyncLate.cfg` shows. Likewise a rate that is entered meanwhile (`"local"`). `MirrorsLinear` and `CachesForget` speak of in-order delivery, one handler at a time
and no failures, `MirrorsLinear` also of projects that are all known and of synchronisations that no edit overtakes; with overlap, disorder or failure it
does not hold. Nor where an issue belongs to a project or a team that the database does not have (`ProjectsKnown`, `TeamsKnown`):
`ensureProjectId` takes the id of the webhook as it is, nothing looks for the team, and the write fails on the foreign
key (`Insert`, `CanUpdate`). It says nothing of the project of an issue, which an update need not set (`ProjectsFollow`). The code does not compare
`updatedAt`, and no sentence of its documents says it would, so that this is a hazard with
a note and not a finding. `ReportedOnce` and `BilledOnce` speak of entries whose end is not before
their start. `OrphansHandled` excuses a team that stays as long as Linear has something that
the sanitizer refuses. The properties of `ConnectionPool` speak of pools with two connections for each
handler and one more: with as many webhooks at once as half of the pool the code can come to a
standstill, until a limit ends it. That nobody gives up, and that labels are deleted in time, also takes
limits that fit the number of handlers (`Patient`, `Lasting`): one connection more than the
transactions hold is enough for everybody's queries only one after the other. `PagesComplete` speaks of issues that do not change while
somebody turns the pages, and promises less where `updatedAt` is not unique: an issue with an `updatedAt` of its own is on
exactly one page, what was updated later never comes after what was updated earlier, and whoever misses an issue has seen
another twice. `BurstBounded` holds with `GRAPHQL_RATE_LIMIT_WINDOW` set and without; `RefusalEarned` then only says that the client
has once had its limit, and `EntriesDropped` speaks of the default. Two synchronisations at once are not modelled.

## 5. Proofs

All theorems are checked by TLAPS with Z3, Zenon and LS4, without any lemma taken on trust.
What they assume is the named assumption of each module: lifetimes, limits and timeouts are positive
naturals, `None` is not a member of the sets it is added to, `AccessTTL <= RefreshTTL <= SevenDays`.
Sets of users, clients, pairs, fields, operations, teams, issues, projects and sockets are arbitrary. Finite are
those whose members are counted or summed: `Email` in `Accounts`, `Handler` in `ConnectionPool`, `Request` and `Label`
in `IssueFeed`, `Rate` and `Entry` in `Billing`, `Issue` in `TeamAdmin`, `Team` and `Project` in `DbSync`, where a page is full when as many
are on it as fit. Teams, projects and issues have ids of their own there (no set shares a member with another).

| Theorem | States | Inductive invariant |
|---|---|---|
| `AccountsProofs!BlacklistImplementsPromise` | `ImplementsPromise` | `TypeOK`; each action maps to a step of `RevocationList` or to a stutter |
| `AccountsProofs!FirstAccountAdministers` | `FirstIsAdministrator` | with `BootstrapInv` |
| `AccountsProofs!SignUpsKeepAccounts` | `SignUpKeepsAccounts` | the same |
| `SessionsProofs!TypeCorrect` | `TypeOK`, and what requests and clients know | `TypeInv`: `TypeOK`, `RequestsOK`, `KnownPairs` |
| `SessionsProofs!VersionSound` | `VersionDeterminesRole` | with `SeenClaimsOnceHeld` |
| `SessionsProofs!SpentStaysSpent` | `SpentNeverStored` | with `HashWrittenOnce` |
| `SessionsProofs!RotationSound` | `RotationRetiresParent` | the same |
| `SessionsProofs!LogoutSound` | `LoggedOutRefused` | `RevocationsCovered` |
| `SessionsProofs!DismissalSound` | `DismissedRefused` | the same |
| `RequestGuardProofs!TypeCorrect` | `TypeOK` | `Inv`: `TypeOK`, `LostForGood`, `VerifiedSinceBegin`, `CacheSound` |
| `RequestGuardProofs!GrantsScoped` | `GrantedWhileAcceptable` | the same |
| `RequestGuardProofs!StalenessSound` | `StalenessBounded` | the same |
| `RequestGuardProofs!RefusalsSound` | `RefusalEarned` | the same |
| `SumProofs!InstantSound` | `LimitTypeOK`, `InstantBounded` | `LimitInv`, with `WindowCounted` |
| `SumProofs!BurstsBounded` | `BurstBounded` | `BurstInv` |
| `SumProofs!RefusalsEarned` | `RefusalEarned` | the same |
| `LimitsProofs!NoStandstill` | `SparePreventsStandstill` | `PoolInv`, and `Nested` of the programs |
| `LimitsProofs!NobodyGivesUp` | `RoomyServes` | `ServeInv`: `PoolInv`, and `Served`, which is `Queued`, `Brief`, `Waited` |
| `LimitsProofs!LabelsDeletedInTime` | `DeletesWithinTransaction` | the same, with `LabelsOpen` and `DeletesRightly` of the programs |
| `LimitsProofs!RegistrySound` | `TypeOK`, `RegistryMatches` | with `TimersAgree` |
| `LimitsProofs!SilenceEnds` | `SilentDropped` | the same |
| `SumProofs!BillingTypes` | `TypeOK` | `Inv`: `TypeOK`, no entry names a rate that is gone, `Consistent` of each call |
| `SumProofs!InvoicesComplete` | `InvoiceComplete` | the same |
| `SumProofs!IntegrityErrorsEarned` | `IntegrityErrorEarned` | the same |
| `SumProofs!InvoicesAddUp` | `InvoiceAddsUp` | the same, and what rounding does to sums (`HoursAddUp`) |
| `SumProofs!RemovalsKeepTime` | `RemovalKeepsTime` | the same |
| `SumProofs!BilledWhenTheyOverlap` | `BilledWhenOverlapping` | `TypeOK`; it is a fact about the filter |
| `SumProofs!ReportsCountOnce` | `ReportedOnce` | `TypeOK`; the same |
| `IssueFeedProofs!FeedTypes` | `TypeOK` | `TypeInv`: `TypeOK`, `HandlersSound`, `SyncCounted` |
| `IssueFeedProofs!RemovalsAnnounced` | `RemovalAnnouncedOnce` | `AnnouncedInv`: with `TypeInv` |
| `IssueFeedProofs!DuplicatesStayBounded` | `DuplicatesBounded` | `CopiesInv`: `CopiesBounded` of each issue and label |
| `IssueFeedProofs!CachesAreForgotten` | `CachesForget` | `OrderlyInv`: `RowThere`, `NoOrphans`, `Forgotten`, `PageTrue` |
| `IssueFeedProofs!IssuesMirrored` | `MirrorsLinear` | `MirrorInv`, `SingleRows`, with `OrderlyInv` |
| `DbSyncProofs!SyncTypes` | `TypeOK` | itself |
| `DbSyncProofs!SyncsMirror` | `SyncMirrors` | `CalmInv`: `KeysInv` (`TypeOK`, `ForeignKeys`, `Consistent`), `LinearSound`, `CalmSync`, `RatesSeen` |
| `DbSyncProofs!LocalDataSafe` | `LocalDataKept` | the same |
| `TeamAdminProofs!ErrorsSound` | `ErrorsEarned` | `Inv`: `Shape`, and for each operation `Noticed`, `Passing`, `Looked`, `CacheTrue`, `Earned`, `ListTrue` |
| `TeamAdminProofs!ListsSound` | `ListsTrue` | the same |
| `TeamAdminProofs!TeamTypes` | `TypeOK` | itself |
| `TeamAdminProofs!MembersSound` | `MembersSeeTheirs` | `MemberInv`: `Inv`, and for each operation `Placed`, `Unasked`, `ViewTrue`, `Shows` |
| `TeamAdminProofs!PagesSound` | `PagesComplete` | none; it is a fact about `Orders` and `Page` |

Why the strengthenings are needed:

- *Roles.* `VersionDeterminesRole` speaks of minted tokens, but a token is minted from a row
  that was read one step earlier, and the row may have changed since. `SeenClaimsOnceHeld` says
  the same of what requests have read: it is older than the row, or equal to it. The row only moves
  to a higher version (`NextClaimsMove`), and claims in flight only come from it (`NextSeen`).
- *Rotation.* An old hash does not come back, because only the request that minted a pair
  writes its hash, once, and before any client has it (`HashWrittenOnce`).
- *Revocation.* A blacklist entry is dropped only after its deadline; the deadline is not
  before the token's expiry (`Covered`), because logout takes the rest of the token's life and
  a role change takes seven days. Whatever was minted is tracked until then (`Revocable`). A
  restart empties the sets that the properties speak of: that the blacklist is lost with the
  process is what `SessionsRestart.cfg` shows.
- *Guard.* A token that stopped being acceptable never is again (`LostForGood`: versions only grow,
  and a deadline is not before the expiry), so that one instant at which it was acceptable bounds what
  a verification may have seen (`VerifiedSinceBegin`). A hit in the cache grants what such a
  verification granted, no later than its time to live (`CacheSound`).
- *Bootstrap.* Until the first row exists every sign-up in flight has counted zero.
- *Gateway.* The next cleanup is at most an interval away and at most two intervals after the
  connect of every open socket.
- *Rate limiter.* `BurstBounded` sums over instants, and a count of the past does not tell how much of it falls
  into a given span. `WindowKept` in `BurstInv` says so for each client: what the open window has served is its count, up
  to the limit, and the window's length before it served no more than the limit; where there is no window, the
  last window's length served no more. A span reaches into two of these. Where the length is a text, the first window is the only
one, and began with the clock (`OpenedFor`).
- *Pool.* No program opens a third transaction (`Nested`), so that a handler that waits holds at
  most two connections. If all waited, the pool would be used up by at most twice as many
  connections as there are handlers, and it has one more.
- *Waiting.* So, while no connection is free, somebody is at a query (`QueryRuns`), which takes `QueryTime` at most.
  `Waited` counts with these queries: at place `i` of the queue one has waited for as many of them as there are others
  who are not behind, and while no connection is free one of them is still running and is counted with the
  time it has run. When it ends the queue moves on by one (`MovedUp`); nobody comes in in front. As everybody is in the
  queue once at most, and whoever queries is not in it, the queue is not longer than the others are many
  (`QueueShort`). The transaction of the labels is as old as its first query and the wait for the second (`LabelsOpen`):
in every program, a deletion comes right after that query and the beginning of its transaction (`DeletesRightly`).
- *Invoices.* An answer is made of sums that were taken two queries before. `Consistent` says at each phase of a call
  what it still knows: the sums are all the time they were made of, and only a rate that was removed meanwhile can
  be missing. That groups of entries have the sum of the entries (`SumGrouped`), and that a sum of roundings is off by
  at most half a unit each (`SumNear`), are facts of `SumProofs`, too.
- *Sums.* `SumFunctionOnSet` is a fold, in an order that `CHOOSE` picks. `SumProofs` shows that the order does
  not matter: strict inclusion is well-founded among the subsets of a finite set, so that there would be a smallest
  one for which it does, and there is none.
- *Announcements.* A removal is announced a step after the row was deleted, and meanwhile other
  handlers delete and announce. What was announced and what is yet to be announced together never exceed what was deleted.
- *Duplicates.* A handler adds the labels that it did not find when it looked. `CopiesBounded` counts with the rows those
  handlers that have looked and will add (`Creators`): a handler is on one side or the other, never on both.
- *Caches.* An issue that is gone is cached only while the handler that deleted its row has not got to the caches yet.
- *The mirror.* `MirrorsLinear` speaks of the moment when nothing is under way. In between the
  database is behind Linear, by what the waiting webhooks and the one in the handler will still change.
  `WaitingTrue` and `HandledTrue` say what webhooks tell of Linear: the last one of an issue has its number, the last one
  that brings labels has its labels, and creations and removals alternate. `IssueTrue` says of each issue that what no
  webhook is going to change is as in Linear already, and `StepTrue` that what the handler is about to write is
  not there yet or is right. A webhook that is sent again, and a synchronisation that wrote what a webhook is still to say, are
  the cases that make these long. `SingleRows` adds that the handler's rows are those it saw.
- *Teams.* What is inserted was looked for in a state that the operation remembers (`Looked`); the insert
  fails only if the state has changed since, which is the second state that an error tells of. A
  loader's list was true at one of the operation's states (`CacheTrue`), and these only get more.
  `Shape` says of the variables no more than the steps need.
- *What members see.* An issue is shown because of memberships that were read before the page. `ViewTrue` keeps the
  state they were read in, which is one of the field's own (`lately`), because a query's loaders begin empty (`Unasked`); in a
  mutation they need not (`TeamAdminOwn.cfg`).
- *Pages.* Each page has an order of its own, but rows that have the same place in two of them were updated at the same
  time (`NotEarlier`, `SamePlace`): else the rows before one of them would be more than there are places. So a row whose
  `updatedAt` is its own has the same place in all of them, and is on the page that the place is on. The pages have as many places as there are rows: if a row is on none, the others fill
  more places than they are many, so that one of them is on two.
- *Foreign keys* are the database's to keep, and `ForeignKeys` says that the model keeps them: the copy of Linear rests on
  it. Before the commit the transaction's rows are in nobody's sight, and the tables change under it. `Consistent`
  says how the two fit: what it has not touched is in the table as in its view, or is touched by nobody; projects that refer
  to a team, and issues that refer to a project, refer to what will be there after the commit (`Coming`); a team that it
  is about to delete (`Dropped`) has no member left.
- *The copy of Linear.* While Linear stands still, `CalmSync` says at each phase what has been copied: projects of the
  teams that were read (`ProjectsRead`), all projects, all issues, and after the cleanup nothing else (`OthersGone`). A late
  webhook cannot undo that: what the synchronisation has written is locked, and before it writes a project, or in place of an upsert
  that fails, nothing is promised of it. Projects that Linear does not have come back only where one was written
  (`NotRevived`, `"others" \in sync.calm`).

`CopiesInv`, `OrderlyInv`, `MirrorInv`, `SingleRows`, `BurstInv`, `CalmInv`, `MemberInv` and `ServeInv` were model-checked
on the instances of section 3 before they were proved, `ServeInv` on one with slower queries as well. The attempts to prove have shown
what the small instances could not:

- the mirror of `IssueFeed` needs `ProjectsKnown` (section 4);
- `DbSync` lacked two things that the database does: the issues that the synchronisation has just written go with
  a team that its cleanup deletes, and those that stay keep others from deleting their project before the commit (`Referred`).
  Without them the model's commit could leave an issue without its project;
- `SyncMirrors` and `LocalDataKept` need `OnePage`, and the two properties about waiting need `Patient` and `Lasting`, which
  two handlers and a page that is large enough always satisfy.

Only model-checked is liveness, which is out of the prover's reach: `ExpiredEntriesDropped` of `TokenBlacklist`,
`EntriesDropped` of `GraphQLRateLimit` and `OrphansHandled` of `DbSync`. So are the statements of section 4, which are
false, and that the instances reach every action.

The `TypeOK` of `Sessions`, `RequestGuard`, `Gateway`, `TokenBlacklist`, `DbSync` and `TeamAdmin`, `AccountsTypeOK` and
`LimitTypeOK` are proved, which is why no run lists them.

## 6. Not modelled, and why

- *Code that never runs.* The WebSocket authentication guard (`issue-updates/guards/`): a guard runs before a
  message handler, and the gateway has none. `dbSynch.service.new.ts` and `base-sync.service.ts`, which no module
  provides. `LinearWebhookBodyDto` of `webhook-validation.dto.ts`. `update`, `bulkCreate`, `bulkRemove` and
  `createLabelForIssue` of `issue.service.ts`; `updateActivity`, `checkRateLimit` and `disconnectUser` of the
  connection manager; `clearCache` of the guard's cache; `cleanup` of the issue cache. `prisma/seed.ts` is a
  script for development.
- *Stateless code.* The guard of webhook signatures (an HMAC over the body), the complexity and
  timeout plugins, validation of the environment, CORS: one input, one answer, nothing that a
  later step finds. The throttler is a library that is only configured here.
- *Single queries.* Lists and profiles of users (their pages included), projects, rates and teams beyond what `TeamAdmin` has: one
  call to the database, and its answer.
- *Parts of webhooks.* `DbSync` has what project webhooks write beside a synchronisation, and of issue webhooks only the project that they
  create; what they do to issues beside one is in `IssueFeed`. Of a project with several teams only the first is
  looked at, in the code as in the model. A text that is too long for its column is a query that fails (`Fail`).
- *Data.* How the sanitizer rewrites texts (what it refuses is modelled), formatting, the wording of errors
  (their codes are modelled), hashes, signatures, floating point.
- *Two synchronisations at once* (section 7).

`PROJECT.json` names each component with its status.

## 7. Plan

All the modules of section 2 are written, checked and proved about. Left, in order of what matters:

1. Two synchronisations at once, by lifting the synchronisation of `DbSync` to a set of them: row
   locks, waiting and the deadlock that the database breaks by failing one.
2. An abstract specification that `DbSync` implements while Linear stands still: an atomic synchronisation.
   `SyncMirrors` and `LocalDataKept`, which are proved, are what such a step would promise. For `IssueFeed` the counterpart
   is `MirrorsLinear`. A guard without a cache is not one that `RequestGuard` implements; what it promises instead are
   `GrantedWhileAcceptable` and `StalenessBounded`.
