---------------------------- MODULE RequestGuard ----------------------------
(* auth/auth.guard.ts and auth/jwt-cache.service.ts: one GraphQL operation    *)
(* with several root fields, each of which the guard admits or refuses.  The  *)
(* first verification is kept on the request object, and the guards of the    *)
(* other fields skip the blacklist and the User row while it is fresh.        *)
(*                                                                            *)
(* Sessions has the guard of a request with one field and the life of tokens. *)
(* Here one access token of one user is fixed, and what matters is who else   *)
(* logs out or changes the role while an operation is under way.  The fields  *)
(* of a query are resolved side by side, those of a mutation one after the    *)
(* other; as none of the mutations may answer null, an error ends the others. *)
(* A finished operation makes room for the next one, with a new request.      *)
EXTENDS Naturals

CONSTANTS
    Fields,         \* the number of root fields of an operation
    Role,
    Asked,          \* what @Roles of a resolver may list; Role where there is no @Roles
    None,
    AccessTTL,      \* life of an access token
    SevenDays,      \* the blacklist's default
    Ttls,           \* the values JWT_CACHE_TTL_MS may have; 0: entries never expire
    MaxVersion,     \* bound on role changes
    MaxTime         \* bound on the clock

ASSUME RequestGuardAssumption ==
    /\ Fields \in Nat \ {0}
    /\ AccessTTL \in Nat \ {0} /\ SevenDays \in Nat \ {0}
    /\ AccessTTL <= SevenDays
    /\ Asked \subseteq SUBSET Role
    /\ Ttls \subseteq Nat
    /\ MaxVersion \in Nat /\ MaxTime \in Nat
    /\ None \notin Nat

Field == 1..Fields
Row == [role : Role, version : Nat]
Status == {"waiting", "asked", "answered", "granted", "served", "refused", "failed"}
Presented == {"token", "other"}

VARIABLES
    op,                 \* the operation: serial (a mutation), what it presents, the roles
                        \* each field asks for (Open: no guard), and when it began
    status,             \* how far each field is
    check,              \* of a field that is being verified: since when, and the row
    verifiedAt,         \* the cache on the request object, or None
    row,                \* the user
    claims,             \* what the token says of the user
    cacheTtl,           \* JwtCacheService.cacheTtlMs
    blacklistedTokens, userTokens, now,
    spoiled,            \* history: since when the token is not acceptable any more
    slowest             \* history: the longest verification so far

guard == <<op, status, check, verifiedAt>>
user == <<row, claims, cacheTtl>>
blacklist == <<blacklistedTokens, userTokens>>
vars == <<guard, user, blacklist, now, spoiled, slowest>>

Token == "token"
Blacklist == INSTANCE TokenBlacklist
    WITH TokenId <- {Token}, User <- {"user"}, MaxTtl <- 0

Open == {"public"}
Needs == Asked \cup {Open}
Unchecked == [since |-> 0, seen |-> None]
Operation == [serial : BOOLEAN, presents : Presented, needs : [Field -> Needs], begun : Nat]

TypeOK ==
    /\ op \in Operation
    /\ status \in [Field -> Status]
    /\ check \in [Field -> [since : Nat, seen : Row \cup {None}]]
    /\ verifiedAt \in Nat \cup {None}
    /\ row \in Row
    /\ claims \in Row
    /\ cacheTtl \in Ttls
    /\ Blacklist!TypeOK
    /\ spoiled \in Nat \cup {None}
    /\ slowest \in Nat

\* The token has just been handed out, and nothing has been asked with it yet.
Init ==
    /\ op \in [serial : {FALSE}, presents : {"other"},
               needs : {[f \in Field |-> Open]}, begun : {0}]
    /\ status = [f \in Field |-> "served"]
    /\ check = [f \in Field |-> Unchecked]
    /\ verifiedAt = None
    /\ row \in [role : Role, version : {0}]
    /\ claims = row
    /\ cacheTtl \in Ttls
    /\ blacklistedTokens = [j \in {Token} |-> Blacklist!Missing]
    /\ userTokens = [u \in {"user"} |-> {Token}]
    /\ now = 0
    /\ spoiled = None
    /\ slowest = 0

---------------------------------------------------------------------------
Expiry == AccessTTL
Valid == now < Expiry

\* What the guard asks of the token, all at one instant.
Acceptable == Valid /\ ~Blacklist!IsListed(Token) /\ row = claims

Settled(f) == status[f] \in {"served", "refused", "failed"}

\* canActivate of the fields a field has to wait for.
MayStart(f) ==
    /\ status[f] = "waiting"
    /\ op.serial => \A g \in 1..(f - 1) : status[g] = "served"

\* A field is decided.  In a mutation an error ends those behind it.
Decide(f, verdict) ==
    status' = [g \in Field |->
        IF g = f THEN verdict
        ELSE IF op.serial /\ g > f /\ verdict \in {"refused", "failed"} THEN "failed"
        ELSE status[g]]

\* Mutant: the list of roles is compared as a whole.
HasRoleAlone(f) == op.needs[f] = {claims.role}

\* checkUserRoles: without @Roles anybody may.
HasRole(f) == claims.role \in op.needs[f]
CheckUserRoles(f) == Decide(f, IF HasRole(f) THEN "granted" ELSE "refused")

\* Mutant: an entry serves as long as its request lasts.
FreshAlways == verifiedAt # None

\* getCachedVerification.  The age may reach the time to live, not exceed it.
Fresh == verifiedAt # None /\ (cacheTtl > 0 => now - verifiedAt <= cacheTtl)

---------------------------------------------------------------------------
\* Mutant: the cache belongs to the service, and the next request finds it.
BeginKeepsCache(serial, presents, needs) ==
    /\ \A f \in Field : Settled(f)
    /\ op' = [serial |-> serial, presents |-> presents, needs |-> needs, begun |-> now]
    /\ status' = [f \in Field |-> "waiting"]
    /\ UNCHANGED <<check, verifiedAt, user, blacklist, now, spoiled, slowest>>

\* An operation arrives.
Begin(serial, presents, needs) ==
    /\ \A f \in Field : Settled(f)
    /\ op' = [serial |-> serial, presents |-> presents, needs |-> needs, begun |-> now]
    /\ status' = [f \in Field |-> "waiting"]
    /\ verifiedAt' = None
    /\ UNCHANGED <<check, user, blacklist, now, spoiled, slowest>>

\* @Public
Public(f) ==
    /\ MayStart(f)
    /\ op.needs[f] = Open
    /\ Decide(f, "granted")
    /\ UNCHANGED <<op, check, verifiedAt, user, blacklist, now, spoiled, slowest>>

\* No token, or none that verifyAsync accepts; a cached verification of it cannot be.
Unverified(f) ==
    /\ MayStart(f)
    /\ op.needs[f] # Open
    /\ \/ op.presents # "token"
       \/ ~Fresh /\ ~Valid
    /\ verifiedAt' = IF Fresh THEN verifiedAt ELSE None
    /\ Decide(f, "refused")
    /\ UNCHANGED <<op, check, user, blacklist, now, spoiled, slowest>>

\* A cached verification: only the roles are checked.
CacheHit(f) ==
    /\ MayStart(f)
    /\ op.needs[f] # Open
    /\ op.presents = "token"
    /\ Fresh
    /\ CheckUserRoles(f)
    /\ UNCHANGED <<op, check, verifiedAt, user, blacklist, now, spoiled, slowest>>

\* verifyAsync and the blacklist, up to the query for the row.
Verify(f) ==
    /\ MayStart(f)
    /\ op.needs[f] # Open
    /\ op.presents = "token"
    /\ ~Fresh
    /\ Valid
    /\ verifiedAt' = None
    /\ Blacklist!LookUp(Token)
    /\ IF Blacklist!IsListed(Token)
         THEN Decide(f, "refused") /\ UNCHANGED check
         ELSE /\ status' = [status EXCEPT ![f] = "asked"]
              /\ check' = [check EXCEPT ![f].since = now]
    /\ UNCHANGED <<op, user, userTokens, now, spoiled, slowest>>

\* The database reads the row.
ReadRow(f) ==
    /\ status[f] = "asked"
    /\ status' = [status EXCEPT ![f] = "answered"]
    /\ check' = [check EXCEPT ![f].seen = row]
    /\ UNCHANGED <<op, verifiedAt, user, blacklist, now, spoiled, slowest>>

Measure(f) ==
    LET took == now - check[f].since IN slowest' = IF took > slowest THEN took ELSE slowest

\* Mutant: the verification is kept before the row is compared.
AnswerCachesFirst(f) ==
    /\ status[f] = "answered"
    /\ verifiedAt' = now
    /\ IF check[f].seen = claims THEN CheckUserRoles(f) ELSE Decide(f, "refused")
    /\ Measure(f)
    /\ check' = [check EXCEPT ![f] = Unchecked]
    /\ UNCHANGED <<op, user, blacklist, now, spoiled>>

\* Version and role are compared with the answer, the verification is kept, and
\* then the roles are checked.
Answer(f) ==
    /\ status[f] = "answered"
    /\ IF check[f].seen = claims
         THEN /\ verifiedAt' = now
              /\ CheckUserRoles(f)
         ELSE /\ Decide(f, "refused")
              /\ UNCHANGED verifiedAt
    /\ Measure(f)
    /\ check' = [check EXCEPT ![f] = Unchecked]
    /\ UNCHANGED <<op, user, blacklist, now, spoiled>>

\* The query fails, or the resolver behind the guard.
Fail(f) ==
    /\ status[f] \in {"asked", "granted"}
    /\ Decide(f, "failed")
    /\ check' = [check EXCEPT ![f] = Unchecked]
    /\ UNCHANGED <<op, verifiedAt, user, blacklist, now, spoiled, slowest>>

\* The resolver is done.
Serve(f) ==
    /\ status[f] = "granted"
    /\ Decide(f, "served")
    /\ UNCHANGED <<op, check, verifiedAt, user, blacklist, now, spoiled, slowest>>

---------------------------------------------------------------------------
\* From the first instant at which the token is not acceptable.
Note == spoiled' = IF spoiled = None /\ ~Acceptable' THEN now' ELSE spoiled

\* logout, as a field of this operation or of another one: what is left of the
\* token's life, or seven days if nothing is.
RevokeToken ==
    /\ Blacklist!BlacklistToken(Token, IF now < Expiry THEN Expiry - now ELSE 0)
    /\ UNCHANGED <<user, userTokens, now, slowest>>
    /\ Note

Logout(f) ==
    /\ op.serial
    /\ op.needs[f] # Open
    /\ status[f] = "granted"
    /\ RevokeToken
    /\ Decide(f, "served")
    /\ UNCHANGED <<op, check, verifiedAt>>

LogoutElsewhere == RevokeToken /\ UNCHANGED guard

\* updateUserRole of another request: the row, and some time later the tokens.
ChangeRole(role) ==
    /\ role # row.role
    /\ row.version < MaxVersion
    /\ row' = [role |-> role, version |-> row.version + 1]
    /\ UNCHANGED <<guard, claims, cacheTtl, blacklist, now, slowest>>
    /\ Note

RevokeUserTokens ==
    /\ row # claims
    /\ Blacklist!BlacklistUserTokens("user")
    /\ UNCHANGED <<guard, user, now, slowest>>
    /\ Note

Tick ==
    /\ now < MaxTime
    /\ now' = now + 1
    /\ UNCHANGED <<guard, user, blacklist, slowest>>
    /\ Note

Handle(f) ==
    \/ Public(f) \/ Unverified(f) \/ CacheHit(f) \/ Verify(f)
    \/ ReadRow(f) \/ Answer(f) \/ Fail(f) \/ Serve(f) \/ Logout(f)

Next ==
    \/ \E serial \in BOOLEAN, presents \in Presented, needs \in [Field -> Needs] :
           /\ presents = "other" => \A f, g \in Field : needs[f] = needs[g] \* any will do
           /\ Begin(serial, presents, needs)
    \/ \E f \in Field : Handle(f)
    \/ LogoutElsewhere
    \/ \E role \in Role : ChangeRole(role)
    \/ RevokeUserTokens
    \/ Tick

Spec == Init /\ [][Next]_vars

---------------------------------------------------------------------------
Grants(f) == status[f] \in {"waiting", "answered"} /\ status'[f] = "granted"
Refuses(f) == status[f] \in {"waiting", "answered"} /\ status'[f] = "refused"

\* Whatever overlaps with an operation and however its fields share a verification:
\* a guarded field is granted only if at some instant since the operation began the
\* token was acceptable in every respect, for a user with a role the field asks for.
GrantedWhileAcceptable ==
    [][\A f \in Field : Grants(f) /\ op.needs[f] # Open =>
           /\ op.presents = "token"
           /\ spoiled = None \/ spoiled >= op.begun
           /\ claims.role \in op.needs[f]]_vars

\* After a logout, a role change or the token's expiry the cache admits fields for
\* at most its time to live, counted from the end of the slowest verification that
\* was under way: hits do not prolong an entry.
StalenessBounded ==
    [][\A f \in Field : Grants(f) /\ op.needs[f] # Open /\ cacheTtl > 0 =>
           spoiled = None \/ now <= spoiled + slowest' + cacheTtl]_vars

\* No field is refused that could be granted: not while the token is acceptable,
\* the role is one of those asked for, and every query is answered.
RefusalEarned ==
    [][\A f \in Field : Refuses(f) =>
           op.presents # "token" \/ spoiled # None \/ claims.role \notin op.needs[f]]_vars

---------------------------------------------------------------------------
\* Why they hold.  What is lost is lost for good: the row does not come back to the
\* claims, a listed token stays listed until it expires, and spoiled says since when.
LostForGood ==
    /\ claims.version = 0
    /\ row.version = 0 => row = claims
    /\ Blacklist!IsListed(Token) => blacklistedTokens[Token] >= Expiry
    /\ spoiled = None <=> Acceptable
    /\ spoiled # None => spoiled <= now

\* The token was acceptable when its verification began, if the row agrees.
WasAcceptable(f) == spoiled = None \/ spoiled >= check[f].since

VerifiedSinceBegin ==
    /\ op.begun <= now
    /\ \A f \in Field : status[f] \in {"asked", "answered"} =>
           /\ op.presents = "token" /\ op.needs[f] # Open
           /\ op.begun <= check[f].since /\ check[f].since <= now
    /\ \A f \in Field : status[f] = "asked" /\ row = claims => WasAcceptable(f)
    /\ \A f \in Field : status[f] = "answered" /\ check[f].seen = claims => WasAcceptable(f)
    /\ \A f \in Field : status[f] = "answered" /\ row = claims => check[f].seen = claims

\* What the cache holds was verified in this operation, and was acceptable then.
CacheSound ==
    verifiedAt # None =>
        /\ op.presents = "token"
        /\ verifiedAt <= now
        /\ spoiled = None \/ (spoiled >= op.begun /\ verifiedAt <= spoiled + slowest)
=============================================================================
