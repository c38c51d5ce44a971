-------------------------- MODULE GraphQLRateLimit --------------------------
(* common/plugins/graphql-rate-limit.plugin.ts: a fixed-window limiter.  The *)
(* first operation of a client opens a window; while the window is open its  *)
(* operations are counted, the refused ones too; the first operation after   *)
(* its end opens the next one.  The hook has no await, so an operation is    *)
(* one step.                                                                 *)
(*                                                                           *)
(* The length of a window is a number when it is left to the default, and a  *)
(* text when GRAPHQL_RATE_LIMIT_WINDOW is set, since nothing converts what   *)
(* the environment has.  Added to the clock, a text is put behind its digits. *)
EXTENDS Naturals, Functions

CONSTANTS
    Client,         \* the keys of storage: in effect client addresses
    WindowMs,
    Shift,          \* ten for every digit of WindowMs, multiplied
    MaxRequests,
    StartMs,        \* the clock when the process starts
    MaxCount,       \* bound on the operations of one window
    MaxClock        \* bound on the clock

\* The clock counts from 1970: with a digit more it is past everything that a
\* process lives to see.
ASSUME RateLimitAssumption ==
    /\ WindowMs \in Nat \ {0}
    /\ Shift \in Nat \ {0}
    /\ MaxRequests \in Nat \ {0}
    /\ MaxCount \in Nat
    /\ MaxClock \in Nat
    /\ StartMs \in 0..MaxClock
    /\ StartMs * Shift > MaxClock

VARIABLES
    storage,        \* per client: count and resetTime; count 0 when no entry
    clock,
    configured,     \* whether GRAPHQL_RATE_LIMIT_WINDOW is set
    served,         \* history: served[c][t], operations let through at instant t
    refused         \* history: clients whose latest operation was refused

limitVars == <<storage, clock, configured, served, refused>>

RateLimitEntry == [count : Nat, resetTime : Nat]
NoEntry == [count |-> 0, resetTime |-> 0]

LimitTypeOK ==
    /\ storage \in [Client -> RateLimitEntry]
    /\ clock \in StartMs..MaxClock
    /\ configured \in BOOLEAN
    /\ served \in [Client -> [0..MaxClock -> Nat]]
    /\ refused \subseteq Client

LimitInit ==
    /\ storage = [c \in Client |-> NoEntry]
    /\ clock = StartMs
    /\ configured \in BOOLEAN
    /\ served = [c \in Client |-> [t \in 0..MaxClock |-> 0]]
    /\ refused = {}

---------------------------------------------------------------------------
Missing(c) == storage[c].count = 0
Expired(c) == clock > storage[c].resetTime

\* now + windowMs: the sum of two numbers, or a number with a text behind it, which
\* a comparison takes for a number again.
WindowEnd == IF configured THEN clock * Shift + WindowMs ELSE clock + WindowMs

\* Mutant: an operation late in a window moves its end.
EntryAfterSliding(c) ==
    [count |-> IF Missing(c) \/ Expired(c) THEN 1 ELSE storage[c].count + 1,
     resetTime |-> WindowEnd]

\* The entry after one more operation of c.
EntryAfter(c) ==
    IF Missing(c) \/ Expired(c)
      THEN [count |-> 1, resetTime |-> WindowEnd]
      ELSE [storage[c] EXCEPT !.count = @ + 1]

Allows(entry) == entry.count <= MaxRequests

\* didResolveOperation
Operation(c) ==
    LET entry == EntryAfter(c) IN
    /\ Missing(c) \/ Expired(c) \/ storage[c].count < MaxCount
    /\ storage' = [storage EXCEPT ![c] = entry]
    /\ \/ /\ Allows(entry)
          /\ served' = [served EXCEPT ![c][clock] = @ + 1]
          /\ refused' = refused \ {c}
       \/ /\ ~Allows(entry)
          /\ refused' = refused \cup {c}
          /\ UNCHANGED served
    /\ UNCHANGED <<clock, configured>>

\* Mutant: the comparison the wrong way round.
CleanedLive == [c \in Client |-> IF Expired(c) THEN storage[c] ELSE NoEntry]

Cleaned == [c \in Client |-> IF Expired(c) THEN NoEntry ELSE storage[c]]

\* cleanup, every five minutes
LimitCleanup ==
    /\ storage' = Cleaned
    /\ UNCHANGED <<clock, configured, served, refused>>

LimitTick ==
    /\ clock < MaxClock
    /\ clock' = clock + 1
    /\ UNCHANGED <<storage, configured, served, refused>>

LimitNext == (\E c \in Client : Operation(c)) \/ LimitCleanup \/ LimitTick

\* The cleanup is a setInterval, and time passes.
LimitSpec == /\ LimitInit /\ [][LimitNext]_limitVars
             /\ WF_limitVars(LimitCleanup) /\ WF_limitVars(LimitTick)

---------------------------------------------------------------------------
\* Operations of c let through from instant a to instant b.
ServedIn(c, a, b) == SumFunctionOnSet(served[c], a..b)

\* Two windows meet in any stretch of time as long as one: a client gets at
\* most twice the limit through in it, and resets and cleanups add nothing.
BurstBounded ==
    \A c \in Client, a \in 0..MaxClock :
        a + WindowMs <= MaxClock => ServedIn(c, a, a + WindowMs) <= 2 * MaxRequests

Refuses(c) == storage'[c].count > storage[c].count /\ c \in refused'
Earlier(ms) == IF clock > ms THEN clock - ms ELSE 0

\* A refusal is earned: the client has had its full limit of operations, and within
\* the last window's length unless somebody has set how long a window is.
RefusalEarned ==
    [][\A c \in Client : Refuses(c) =>
           ServedIn(c, IF configured THEN 0 ELSE Earlier(WindowMs), clock)
               >= MaxRequests]_limitVars

\* Without the setting, the entries of clients that went away do not stay in memory:
\* an entry is cleaned up, unless the client's window is still open at the end of
\* the clock.
EntriesDropped ==
    \A c \in Client :
        ~configured /\ ~Missing(c) ~> Missing(c) \/ storage[c].resetTime >= MaxClock

\* .env.example:31-32, "GraphQL rate limit window (1 minute)" and "GraphQL requests per
\* window": with the setting as well, only a client that has used up its limit
\* within a window's length is refused.
RefusedWithinWindow ==
    [][\A c \in Client : Refuses(c) =>
           ServedIn(c, Earlier(WindowMs), clock) >= MaxRequests]_limitVars
=============================================================================
