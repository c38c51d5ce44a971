------------------------------ MODULE Sessions ------------------------------
(* Sign-in, refresh, logout, role change and the access-token guard: the     *)
(* requests of auth/auth.service.ts, auth/token.service.ts, auth/auth.guard.ts *)
(* and user/services/user-role.service.ts over one database row per user and *)
(* one TokenBlacklist per server process.                                    *)
(*                                                                           *)
(* A request is a sequence of steps, cut where the code awaits the database: *)
(* between two steps of one request any other request may run, the clock may *)
(* move, a database call may fail and the process may restart.  Signing and  *)
(* verifying a JWT and comparing a bcrypt hash touch no shared state, and    *)
(* belong to the step before or after them.                                  *)
EXTENDS Naturals

CONSTANTS
    User, Role,
    Pair,           \* the token pairs that generateTokens can mint
    Request,        \* requests that can be in flight at once
    None,           \* null, undefined
    AccessTTL,      \* JWT_SECRET_EXPIRATION
    RefreshTTL,     \* JWT_REFRESH_EXPIRATION
    SevenDays,      \* the blacklist's default lifetime
    MaxTime, MaxVersion, MaxRestarts    \* bounds on clock, tokenVersion, restarts

VARIABLES
    row,                \* the users table
    token,              \* the pairs minted so far, as signed
    held,               \* the pairs that some client has received
    blacklistedTokens, userTokens,      \* TokenBlacklist
    now,
    req,                \* the requests in flight
    restarts,
    \* History, read by the properties only.
    spent,              \* pairs whose hash was stored and then replaced or cleared
    minted,             \* pairs minted by the running process
    loggedOut,          \* pairs whose access token this process logged out
    dismissed           \* pairs held by a user when this process finished changing
                        \* that user's role

blacklist == <<blacklistedTokens, userTokens>>
history   == <<spent, minted, loggedOut, dismissed>>
vars == <<row, token, held, blacklistedTokens, userTokens, now, req, restarts,
          spent, minted, loggedOut, dismissed>>

Access(p)  == <<"access", p>>
Refresh(p) == <<"refresh", p>>
TokenId    == {"access", "refresh"} \X Pair

BL == INSTANCE TokenBlacklist WITH MaxTtl <- RefreshTTL

---------------------------------------------------------------------------
Row == [role : Role, tokenVersion : Nat, hashedRefreshToken : Pair \cup {None}]

\* The columns of a row that end up in an access token.
Claims == [role : Role, tokenVersion : Nat]
ClaimsOf(u) == [role |-> row[u].role, tokenVersion |-> row[u].tokenVersion]

\* What generateTokens signs into a pair, and the instant it does.  The parent
\* is history: the pair that was presented for it, None after a sign-in.
Signed == [user : User, role : Role, tokenVersion : Nat, iat : Nat,
           parent : Pair \cup {None}]

\* The defaults are 15 minutes, 7 days and 7 days.  A refresh lifetime that is
\* configured above seven days leaves the blacklist too short: see the README.
ASSUME SessionsAssumption ==
    /\ AccessTTL \in Nat \ {0}
    /\ RefreshTTL \in Nat \ {0}
    /\ SevenDays \in Nat
    /\ AccessTTL <= RefreshTTL
    /\ RefreshTTL <= SevenDays
    /\ MaxTime \in Nat /\ MaxVersion \in Nat /\ MaxRestarts \in Nat
    /\ None \notin User /\ None \notin Role /\ None \notin Pair
    /\ None \notin Signed

\* Where a request waits: the name says which call it makes when it resumes.
Waiting == {"findById", "generateTokens", "updateHash", "guardFind",
            "authorized", "clearRefreshToken", "updateRole", "blacklistUser"}

RequestState ==
    [at : {"idle"} \cup Waiting, user : User \cup {None}, pair : Pair \cup {None},
     seen : Claims \cup {None}, fresh : Pair \cup {None}, role : Role \cup {None}]

Idle == [at |-> "idle", user |-> None, pair |-> None,
         seen |-> None, fresh |-> None, role |-> None]

Minted == {p \in Pair : token[p] # None}

AccessExpiry(p)  == token[p].iat + AccessTTL
RefreshExpiry(p) == token[p].iat + RefreshTTL

\* One type invariant for the module.
TypeOK ==
    /\ row \in [User -> Row]
    /\ token \in [Pair -> Signed \cup {None}]
    /\ held \subseteq Pair
    /\ blacklistedTokens \in [TokenId -> Nat]
    /\ userTokens \in [User -> SUBSET TokenId]
    /\ now \in Nat
    /\ req \in [Request -> RequestState]
    /\ restarts \in Nat
    /\ spent \subseteq Pair
    /\ minted \subseteq Pair
    /\ loggedOut \subseteq Pair
    /\ dismissed \subseteq Pair

\* The table holds registered users with any roles, tokenVersion at the
\* schema's default and nobody signed in.
Init ==
    /\ \E roles \in [User -> Role] :
           row = [u \in User |-> [role |-> roles[u], tokenVersion |-> 1,
                                  hashedRefreshToken |-> None]]
    /\ token = [p \in Pair |-> None]
    /\ held = {}
    /\ BL!Init
    /\ req = [r \in Request |-> Idle]
    /\ restarts = 0
    /\ spent = {} /\ minted = {} /\ loggedOut = {} /\ dismissed = {}

---------------------------------------------------------------------------
\* signIn: findOne and verifyPassword.  The row that is read here is the one
\* the tokens are minted from.  An unknown email or a wrong password changes
\* nothing and is left out.
SignIn(r, u) ==
    /\ req[r] = Idle
    /\ req' = [req EXCEPT ![r] = [Idle EXCEPT !.at = "generateTokens",
                                              !.user = u, !.seen = ClaimsOf(u)]]
    /\ UNCHANGED <<row, token, held, blacklist, now, restarts, history>>

\* refreshToken: verifyRefreshToken and the blacklist check.  A token that is
\* expired or listed is refused and nothing changes.
RefreshVerify(r, p) ==
    /\ req[r] = Idle
    /\ p \in held
    /\ now < RefreshExpiry(p)
    /\ ~BL!IsListed(Refresh(p))
    /\ BL!LookUp(Refresh(p))
    /\ req' = [req EXCEPT ![r] = [Idle EXCEPT !.at = "findById",
                                              !.user = token[p].user, !.pair = p]]
    /\ UNCHANGED <<row, token, held, userTokens, now, restarts, history>>

\* Mutant: no rotation, the presented token is stored again.
RefreshGrantedNoRotation(r) ==
    LET u == req[r].user IN
    /\ req[r].at = "findById"
    /\ row[u].hashedRefreshToken = req[r].pair
    /\ req' = [req EXCEPT ![r].at = "updateHash", ![r].fresh = req[r].pair]
    /\ UNCHANGED <<row, token, held, blacklist, now, restarts, history>>

\* findById, and the comparison with the hash in the row it answered: the
\* hash identifies the token, so it matches exactly the pair it was made of.
RefreshGranted(r) ==
    LET u == req[r].user IN
    /\ req[r].at = "findById"
    /\ row[u].hashedRefreshToken = req[r].pair
    /\ req' = [req EXCEPT ![r].at = "generateTokens", ![r].seen = ClaimsOf(u)]
    /\ UNCHANGED <<row, token, held, blacklist, now, restarts, history>>

RefreshDenied(r) ==
    /\ req[r].at = "findById"
    /\ row[req[r].user].hashedRefreshToken # req[r].pair
    /\ req' = [req EXCEPT ![r] = Idle]
    /\ UNCHANGED <<row, token, held, blacklist, now, restarts, history>>

\* The jtis that are tracked for a new pair, and a mutant that tracks only one.
TrackedAccessOnly(p) == {Access(p)}
Tracked(p) == {Access(p), Refresh(p)}

\* generateTokens: a pair with two new jtis carries the role and the
\* tokenVersion of the row that was read earlier; both jtis are tracked.
GenerateTokens(r, p) ==
    LET u == req[r].user
        seen == req[r].seen
    IN
    /\ req[r].at = "generateTokens"
    /\ token[p] = None
    /\ token' = [token EXCEPT ![p] =
                    [user |-> u, role |-> seen.role,
                     tokenVersion |-> seen.tokenVersion, iat |-> now,
                     parent |-> req[r].pair]]
    /\ BL!TrackUserTokens(u, Tracked(p))
    /\ minted' = minted \cup {p}
    /\ req' = [req EXCEPT ![r].at = "updateHash", ![r].seen = None,
                          ![r].fresh = p]
    /\ UNCHANGED <<row, held, blacklistedTokens, now, restarts, spent,
                   loggedOut, dismissed>>

\* Mutant: a refresh answers without storing the hash of the new token.
UpdateHashOnSignInOnly(r) ==
    LET u == req[r].user IN
    /\ req[r].at = "updateHash"
    /\ row' = IF req[r].pair = None
                THEN [row EXCEPT ![u].hashedRefreshToken = req[r].fresh]
                ELSE row
    /\ held' \in {held, held \cup {req[r].fresh}}
    /\ spent' = IF req[r].pair = None
                  THEN spent \cup ({row[u].hashedRefreshToken} \ {None})
                  ELSE spent
    /\ req' = [req EXCEPT ![r] = Idle]
    /\ UNCHANGED <<token, blacklist, now, restarts, minted, loggedOut, dismissed>>

\* updateRefreshTokenHash: the new hash replaces whatever is in the row now.
\* When the answer of the database is lost the row has changed, and the
\* client receives an error instead of its tokens.
UpdateHash(r) ==
    LET u == req[r].user IN
    /\ req[r].at = "updateHash"
    /\ row' = [row EXCEPT ![u].hashedRefreshToken = req[r].fresh]
    /\ held' \in {held, held \cup {req[r].fresh}}
    /\ spent' = spent \cup ({row[u].hashedRefreshToken} \ {None, req[r].fresh})
    /\ req' = [req EXCEPT ![r] = Idle]
    /\ UNCHANGED <<token, blacklist, now, restarts, minted, loggedOut, dismissed>>

---------------------------------------------------------------------------
\* canActivate: the signature, the expiry and the blacklist.
GuardVerify(r, p) ==
    /\ req[r] = Idle
    /\ p \in held
    /\ now < AccessExpiry(p)
    /\ ~BL!IsListed(Access(p))
    /\ BL!LookUp(Access(p))
    /\ req' = [req EXCEPT ![r] = [Idle EXCEPT !.at = "guardFind", !.pair = p]]
    /\ UNCHANGED <<row, token, held, userTokens, now, restarts, history>>

\* canActivate: tokenVersion and role of the user's row against the token's.
Current(p) ==
    /\ row[token[p].user].tokenVersion = token[p].tokenVersion
    /\ row[token[p].user].role = token[p].role

GuardAccept(r) ==
    /\ req[r].at = "guardFind"
    /\ Current(req[r].pair)
    /\ req' = [req EXCEPT ![r].at = "authorized"]
    /\ UNCHANGED <<row, token, held, blacklist, now, restarts, history>>

GuardReject(r) ==
    /\ req[r].at = "guardFind"
    /\ ~Current(req[r].pair)
    /\ req' = [req EXCEPT ![r] = Idle]
    /\ UNCHANGED <<row, token, held, blacklist, now, restarts, history>>

\* Any resolver that leaves the session state alone.
Serve(r) ==
    /\ req[r].at = "authorized"
    /\ req' = [req EXCEPT ![r] = Idle]
    /\ UNCHANGED <<row, token, held, blacklist, now, restarts, history>>

\* logout: the access token of the request is listed for what is left of its
\* life, before the first await.
RemainingLife(p) == IF AccessExpiry(p) > now THEN AccessExpiry(p) - now ELSE 0

LogoutRevoke(r) ==
    LET p == req[r].pair IN
    /\ req[r].at = "authorized"
    /\ BL!BlacklistToken(Access(p), RemainingLife(p))
    /\ loggedOut' = loggedOut \cup {p}
    /\ req' = [req EXCEPT ![r].at = "clearRefreshToken"]
    /\ UNCHANGED <<row, token, held, userTokens, now, restarts, spent, minted,
                   dismissed>>

\* clearRefreshToken; the resolver answers success whether or not it worked.
LogoutClear(r) ==
    LET u == token[req[r].pair].user IN
    /\ req[r].at = "clearRefreshToken"
    /\ row' = [row EXCEPT ![u].hashedRefreshToken = None]
    /\ spent' = spent \cup ({row[u].hashedRefreshToken} \ {None})
    /\ req' = [req EXCEPT ![r] = Idle]
    /\ UNCHANGED <<token, held, blacklist, now, restarts, minted, loggedOut, dismissed>>

---------------------------------------------------------------------------
\* updateUserRole, called by an administrator: the row is read first, and a
\* change to the role the user has already is an error.
RoleFind(r, u, newRole) ==
    /\ req[r] = Idle
    /\ row[u].role # newRole
    /\ req' = [req EXCEPT ![r] = [Idle EXCEPT !.at = "updateRole",
                                              !.user = u, !.role = newRole]]
    /\ UNCHANGED <<row, token, held, blacklist, now, restarts, history>>

\* Mutant: the role changes and tokenVersion does not.
RoleUpdateSameVersion(r) ==
    LET u == req[r].user IN
    /\ req[r].at = "updateRole"
    /\ row' = [row EXCEPT ![u].role = req[r].role]
    /\ \/ req' = [req EXCEPT ![r].at = "blacklistUser"]
       \/ req' = [req EXCEPT ![r] = Idle]
    /\ UNCHANGED <<token, held, blacklist, now, restarts, history>>

\* The update itself: role and tokenVersion in one statement, whatever the
\* role is by now.  When the answer is lost the handler ends in its catch
\* block, and the tokens are not listed.
RoleUpdate(r) ==
    LET u == req[r].user IN
    /\ req[r].at = "updateRole"
    /\ row[u].tokenVersion < MaxVersion
    /\ row' = [row EXCEPT ![u].role = req[r].role, ![u].tokenVersion = @ + 1]
    /\ \/ req' = [req EXCEPT ![r].at = "blacklistUser"]
       \/ req' = [req EXCEPT ![r] = Idle]
    /\ UNCHANGED <<token, held, blacklist, now, restarts, history>>

\* blacklistUserTokens, when the update has answered.
RoleRevoke(r) ==
    LET u == req[r].user IN
    /\ req[r].at = "blacklistUser"
    /\ BL!BlacklistUserTokens(u)
    /\ dismissed' = dismissed \cup {p \in held : token[p].user = u}
    /\ req' = [req EXCEPT ![r] = Idle]
    /\ UNCHANGED <<row, token, held, now, restarts, spent, minted, loggedOut>>

---------------------------------------------------------------------------
\* A database call of the request fails without effect: the request ends
\* with an error, and what it did before stays.
Fail(r) ==
    /\ req[r].at \in {"findById", "updateHash", "guardFind",
                      "clearRefreshToken", "updateRole"}
    /\ req' = [req EXCEPT ![r] = Idle]
    /\ UNCHANGED <<row, token, held, blacklist, now, restarts, history>>

Cleanup ==
    /\ BL!CleanupExpiredTokens
    /\ UNCHANGED <<row, token, held, userTokens, now, req, restarts, history>>

Tick ==
    /\ BL!Tick
    /\ UNCHANGED <<row, token, held, req, restarts, history>>

\* A shutdown or a crash, and a new process: the database and the clients'
\* tokens survive; the blacklist and the requests in flight do not.
Restart ==
    /\ restarts < MaxRestarts
    /\ restarts' = restarts + 1
    /\ BL!OnModuleDestroy
    /\ req' = [r \in Request |-> Idle]
    /\ minted' = {} /\ loggedOut' = {} /\ dismissed' = {}
    /\ UNCHANGED <<row, token, held, now, spent>>

---------------------------------------------------------------------------
RefreshStep(r) == RefreshGranted(r) \/ RefreshDenied(r)
IssueStep(r)   == (\E p \in Pair : GenerateTokens(r, p)) \/ UpdateHash(r)
GuardStep(r)   == GuardAccept(r) \/ GuardReject(r) \/ Serve(r)
LogoutStep(r)  == LogoutRevoke(r) \/ LogoutClear(r)
RoleStep(r)    == RoleUpdate(r) \/ RoleRevoke(r)

\* A client or an administrator sends a request.
Arrive(r) ==
    \/ \E u \in User : SignIn(r, u)
    \/ \E p \in Pair : RefreshVerify(r, p)
    \/ \E p \in Pair : GuardVerify(r, p)
    \/ \E u \in User, newRole \in Role : RoleFind(r, u, newRole)

Next ==
    \/ \E r \in Request :
        \/ Arrive(r)
        \/ RefreshStep(r)
        \/ IssueStep(r)
        \/ GuardStep(r)
        \/ LogoutStep(r)
        \/ RoleStep(r)
        \/ Fail(r)
    \/ Cleanup
    \/ Tick
    \/ Restart

Spec == Init /\ [][Next]_vars

---------------------------------------------------------------------------
\* A tokenVersion belongs to one role.  An access token with the version that
\* is in the row therefore carries the role that is in the row, however long
\* before its tokens were minted the sign-in or refresh had read the row, and
\* the guard's two comparisons can never disagree.
VersionDeterminesRole ==
    \A p \in Minted :
        LET u == token[p].user IN
        /\ token[p].tokenVersion <= row[u].tokenVersion
        /\ token[p].tokenVersion = row[u].tokenVersion => token[p].role = row[u].role

\* A refresh token that was rotated, logged out or replaced by another sign-in
\* never becomes the stored one again, whatever was in flight when it was.
SpentNeverStored == \A u \in User : row[u].hashedRefreshToken \notin spent

\* Whoever holds the successor of a refresh token holds the only one of the
\* two that can still be exchanged, even when the two exchanges overlapped
\* another sign-in or a logout.
RotationRetiresParent ==
    \A p \in held :
        token[p].parent # None
            => row[token[p].user].hashedRefreshToken # token[p].parent

\* What the guard and the refresh handler would answer now.
AccessRefused(p)  == now >= AccessExpiry(p) \/ BL!IsListed(Access(p))
RefreshRefused(p) == now >= RefreshExpiry(p) \/ BL!IsListed(Refresh(p))

\* An access token that was logged out in this process is refused until it
\* expires: no lookup, cleanup, role change or second logout lets it in again.
LoggedOutRefused == \A p \in loggedOut : AccessRefused(p)

\* Once a role change is finished, both tokens of every pair that this process
\* had issued to the user are refused until they expire.
DismissedRefused ==
    \A p \in dismissed \cap minted : AccessRefused(p) /\ RefreshRefused(p)

---------------------------------------------------------------------------
\* Why the properties above are invariant: the parts of the inductive
\* invariants of SessionsProofs.

\* What each request carries at the point where it waits.
RequestOK(q) ==
    /\ q.at = "findById" => q.pair \in held /\ q.user = token[q.pair].user
    /\ q.at = "generateTokens" => q.seen \in Claims
    /\ q.at = "updateHash" =>
           /\ q.fresh \in Minted
           /\ token[q.fresh].user = q.user
           /\ token[q.fresh].parent = q.pair
    /\ q.at \in {"generateTokens", "updateHash"} =>
           /\ q.user \in User
           /\ q.pair # None => q.pair \in held /\ token[q.pair].user = q.user
    /\ q.at \in {"guardFind", "authorized", "clearRefreshToken"} => q.pair \in held
    /\ q.at = "updateRole" => q.role \in Role
    /\ q.at \in {"updateRole", "blacklistUser"} => q.user \in User

RequestsOK == \A r \in Request : RequestOK(req[r])

\* Clients and history only know pairs that were minted.
KnownPairs ==
    /\ held \subseteq Minted
    /\ minted \subseteq Minted
    /\ loggedOut \subseteq held
    /\ dismissed \subseteq held
    /\ spent \subseteq Minted
    /\ \A u \in User : row[u].hashedRefreshToken # None =>
           /\ row[u].hashedRefreshToken \in Minted
           /\ token[row[u].hashedRefreshToken].user = u

\* A row that a request has read may be old, but it is one the user had.
SeenClaimsOnceHeld ==
    \A r \in Request :
        req[r].at = "generateTokens" =>
            LET c == req[r].seen
                u == req[r].user
            IN /\ c.tokenVersion <= row[u].tokenVersion
               /\ c.tokenVersion = row[u].tokenVersion => c.role = row[u].role

\* The hash of a pair is written by the one request that minted it, once; a
\* client gets the pair when it has been.
HashWrittenOnce ==
    /\ \A r \in Request : req[r].at = "updateHash" =>
           /\ req[r].fresh \notin spent \cup held
           /\ \A u \in User : row[u].hashedRefreshToken # req[r].fresh
           /\ \A s \in Request \ {r} :
                  req[s].at = "updateHash" => req[s].fresh # req[r].fresh
    /\ \A p \in held :
           p \in spent \/ row[token[p].user].hashedRefreshToken = p
    /\ \A p \in held : token[p].parent # None => token[p].parent \in spent

\* The entry of j, if it is still needed, outlives the token.
Covered(j, expiry) == blacklistedTokens[j] >= expiry \/ now >= expiry

\* Whatever this process minted can be revoked: it is tracked, or no longer
\* needs to be.
Revocable(p) ==
    LET tracked == userTokens[token[p].user] IN
    /\ Access(p) \in tracked \/ Covered(Access(p), AccessExpiry(p))
    /\ Refresh(p) \in tracked \/ Covered(Refresh(p), RefreshExpiry(p))

RevocationsCovered ==
    /\ \A p \in Minted : token[p].iat <= now
    /\ \A p \in minted : Revocable(p)
    /\ \A p \in loggedOut : Covered(Access(p), AccessExpiry(p))
    /\ \A p \in dismissed \cap minted :
           /\ Covered(Access(p), AccessExpiry(p))
           /\ Covered(Refresh(p), RefreshExpiry(p))

\* updateUserRole reports "all existing tokens invalidated"
\* (user-role.service.ts:74): every refresh token the user held is refused.
AllExistingTokensInvalidated ==
    \A p \in dismissed :
        RefreshRefused(p) \/ row[token[p].user].hashedRefreshToken # p

\* Refresh token rotation (README.md:8): a refresh token is exchanged for a
\* new pair at most once.
ExchangedOnce ==
    \A p, q \in held :
        p # q /\ token[p].parent # None => token[p].parent # token[q].parent
=============================================================================
