--------------------------- MODULE TokenBlacklist ---------------------------
(* common/services/token-blacklist.service.ts: two maps held in the memory   *)
(* of the server process.  blacklistedTokens gives the instant up to which a *)
(* token id is refused; userTokens gives the ids issued to each user, so     *)
(* that a role change can revoke them together.                              *)
(*                                                                           *)
(* Every method is synchronous, so each one is a single step.  Time is       *)
(* Date.now() in an arbitrary unit.  The module is used twice: on its own,   *)
(* with Next below as its callers, and as the component that Sessions        *)
(* instantiates and drives.                                                  *)
EXTENDS Naturals

CONSTANTS
    TokenId,        \* the jti of every access and refresh token
    User,
    SevenDays,      \* the default lifetime of an entry
    MaxTtl,         \* bound on the ttlMs a caller of Next passes
    MaxTime         \* bound on the clock

ASSUME BlacklistAssumption ==
    /\ SevenDays \in Nat \ {0}
    /\ MaxTtl \in Nat
    /\ MaxTime \in Nat

VARIABLES blacklistedTokens, userTokens, now

vars == <<blacklistedTokens, userTokens, now>>

\* blacklistedTokens.get() of an id that is not in the map; the code's
\* "if (!exp)" does not tell undefined from 0.
Missing == 0

TypeOK ==
    /\ blacklistedTokens \in [TokenId -> Nat]
    /\ userTokens \in [User -> SUBSET TokenId]
    /\ now \in Nat

Init ==
    /\ blacklistedTokens = [j \in TokenId |-> Missing]
    /\ userTokens = [u \in User |-> {}]
    /\ now = 0

---------------------------------------------------------------------------
\* Mutant: an entry lapses one instant early.
ExpiredAtDeadline(j) == now >= blacklistedTokens[j]

\* Expiry is strict: an entry still counts at its own expiry instant.
Expired(j) == now > blacklistedTokens[j]

IsListed(j) == blacklistedTokens[j] # Missing /\ ~Expired(j)

\* Mutant: the comparison is the wrong way round, and live entries go.
PrunedLive(J) ==
    [j \in TokenId |-> IF j \in J /\ ~Expired(j) THEN Missing
                                                 ELSE blacklistedTokens[j]]

\* The entries after the ids in J have been looked at and the expired ones
\* among them deleted.
Pruned(J) ==
    [j \in TokenId |-> IF j \in J /\ Expired(j) THEN Missing
                                                ELSE blacklistedTokens[j]]

\* A ttl of 0 is falsy in the code, and takes the default instead.
ExpiresAt(ttl) == IF ttl = 0 THEN now + SevenDays ELSE now + ttl

\* blacklistToken(j, {ttlMs: ttl})
BlacklistToken(j, ttl) ==
    blacklistedTokens' = [blacklistedTokens EXCEPT ![j] = ExpiresAt(ttl)]

\* isTokenBlacklisted(j): answers IsListed(j), and deletes an expired entry.
LookUp(j) == blacklistedTokens' = Pruned({j})

\* trackUserToken(u, j) for each j in J
TrackUserTokens(u, J) ==
    userTokens' = [userTokens EXCEPT ![u] = @ \cup J]

\* blacklistUserTokens(u): the default lifetime for every tracked id, which
\* is then no longer tracked.
BlacklistUserTokens(u) ==
    /\ blacklistedTokens' = [j \in TokenId |-> IF j \in userTokens[u]
                                                 THEN now + SevenDays
                                                 ELSE blacklistedTokens[j]]
    /\ userTokens' = [userTokens EXCEPT ![u] = {}]

\* cleanupExpiredTokens(), the hourly interval
CleanupExpiredTokens == blacklistedTokens' = Pruned(TokenId)

\* onModuleDestroy(), and equally a crash: both maps are gone.
OnModuleDestroy ==
    /\ blacklistedTokens' = [j \in TokenId |-> Missing]
    /\ userTokens' = [u \in User |-> {}]

---------------------------------------------------------------------------
Tick ==
    /\ now < MaxTime
    /\ now' = now + 1
    /\ UNCHANGED <<blacklistedTokens, userTokens>>

Revoke(j, ttl) == BlacklistToken(j, ttl) /\ UNCHANGED <<userTokens, now>>
Query(j)       == LookUp(j) /\ UNCHANGED <<userTokens, now>>
Track(u, j)    == TrackUserTokens(u, {j}) /\ UNCHANGED <<blacklistedTokens, now>>
RevokeAll(u)   == BlacklistUserTokens(u) /\ UNCHANGED now
Cleanup        == CleanupExpiredTokens /\ UNCHANGED <<userTokens, now>>
Destroy        == OnModuleDestroy /\ UNCHANGED now

Next ==
    \/ Tick
    \/ \E j \in TokenId, ttl \in 0..MaxTtl : Revoke(j, ttl)
    \/ \E j \in TokenId : Query(j)
    \/ \E u \in User, j \in TokenId : Track(u, j)
    \/ \E u \in User : RevokeAll(u)
    \/ Cleanup
    \/ Destroy

Spec == Init /\ [][Next]_vars

\* setInterval keeps firing while the process is up.
FairSpec == Spec /\ WF_vars(Cleanup)

---------------------------------------------------------------------------
\* Lazy deletion and the hourly cleanup are invisible: what a caller can see
\* is a list whose deadlines lapse by themselves.
Visible == [j \in TokenId |-> IF IsListed(j) THEN blacklistedTokens[j] ELSE 0]

Promise == INSTANCE RevocationList WITH deadline <- Visible

\* The service implements RevocationList: no deletion is early enough to be
\* seen, and no revocation outlives its deadline.
ImplementsPromise == Promise!Init /\ [][Promise!Next]_(Promise!vars)

\* An entry nobody asks about again does not stay in memory for ever: the
\* hourly cleanup removes it, unless the token is revoked anew first.
ExpiredEntriesDropped ==
    \A j \in TokenId :
        blacklistedTokens[j] # Missing /\ Expired(j)
            ~> blacklistedTokens[j] = Missing \/ ~Expired(j)
=============================================================================
