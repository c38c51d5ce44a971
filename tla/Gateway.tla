------------------------------- MODULE Gateway -------------------------------
(* issue-updates/issue-updates.gateway.ts and its connection-manager service: *)
(* the WebSocket connections of one server process, the registry kept beside *)
(* them, the limit per user and the cleanup of inactive connections.         *)
(*                                                                           *)
(* The handlers are synchronous, and socket.io runs handleDisconnect inside  *)
(* disconnect(), so each handler is one step.  Closing a socket and its      *)
(* removal from the registry belong to the same step for the same reason.    *)
EXTENDS Naturals, FiniteSets

CONSTANTS
    Socket, User,
    None,           \* undefined, or no entry
    MaxPerUser,     \* MAX_CONNECTIONS_PER_USER
    Timeout,        \* CONNECTION_TIMEOUT, also the interval of the cleanup
    MaxTime         \* bound on the clock

VARIABLES
    open,               \* server.sockets.sockets
    connections,        \* ConnectionManagerService: one entry per connection
    userConnections,    \* ConnectionManagerService: the sockets of each user
    now,
    cleanupDue,         \* when the gateway's cleanup interval fires next
    owner,              \* environment: whose client opened the socket
    heard               \* environment: when that client was last heard from

registry == <<connections, userConnections>>
vars == <<open, connections, userConnections, now, cleanupDue, owner, heard>>

Info == [userId : User \cup {None}, connectedAt : Nat, lastActivity : Nat]

ASSUME GatewayAssumption ==
    /\ MaxPerUser \in Nat \ {0}
    /\ Timeout \in Nat \ {0}
    /\ MaxTime \in Nat
    /\ None \notin User \cup Socket \cup Info

TypeOK ==
    /\ open \subseteq Socket
    /\ connections \in [Socket -> Info \cup {None}]
    /\ userConnections \in [User -> SUBSET Socket]
    /\ now \in 0..MaxTime
    /\ cleanupDue \in Nat
    /\ owner \in [Socket -> User \cup {None}]
    /\ heard \in [Socket -> Nat]

Init ==
    /\ open = {}
    /\ connections = [s \in Socket |-> None]
    /\ userConnections = [u \in User |-> {}]
    /\ now = 0
    /\ cleanupDue = Timeout
    /\ owner = [s \in Socket |-> None]
    /\ heard = [s \in Socket |-> 0]

---------------------------------------------------------------------------
\* client.data.userId || client.data.user?.id.  Only WebSocketAuthGuard sets
\* them, and a guard runs before a message handler, never before
\* handleConnection: both are undefined here, whoever the client is.
UserId(s) == None

Registered == {s \in Socket : connections[s] # None}

\* getOldestUserConnection: the sockets of u that connected earliest, and
\* strictly before this millisecond.
Oldest(u) ==
    {s \in userConnections[u] \cap Registered :
        /\ connections[s].connectedAt < now
        /\ \A t \in userConnections[u] \cap Registered :
               connections[s].connectedAt <= connections[t].connectedAt}

\* The socket that has to go before another one of u is added.
Evicted(u) ==
    IF u # None /\ Cardinality(userConnections[u]) >= MaxPerUser /\ Oldest(u) # {}
      THEN {CHOOSE s \in Oldest(u) : TRUE} \cap open
      ELSE {}

\* Mutant: the entry stays when its socket has no user.
WithoutAnonymousKept(S) ==
    [s \in Socket |-> IF s \in S /\ connections[s] # None /\ connections[s].userId # None
                        THEN None ELSE connections[s]]

\* The registry after removeConnection for every socket in S.
Without(S) == [s \in Socket |-> IF s \in S THEN None ELSE connections[s]]
UsersWithout(S) == [u \in User |-> userConnections[u] \ S]

\* handleConnection: make room, then addConnection.
Connect(s, u) ==
    LET gone == Evicted(UserId(s)) IN
    /\ s \notin open
    /\ owner' = [owner EXCEPT ![s] = u]
    /\ heard' = [heard EXCEPT ![s] = now]
    /\ open' = (open \ gone) \cup {s}
    /\ connections' = [Without(gone) EXCEPT ![s] =
           [userId |-> UserId(s), connectedAt |-> now, lastActivity |-> now]]
    /\ userConnections' = [v \in User |-> IF v = UserId(s)
                                            THEN UsersWithout(gone)[v] \cup {s}
                                            ELSE UsersWithout(gone)[v]]
    /\ UNCHANGED <<now, cleanupDue>>

\* The sockets in S close, and handleDisconnect runs for each of them.
Close(S) ==
    /\ open' = open \ S
    /\ connections' = Without(S)
    /\ userConnections' = UsersWithout(S)

\* The client goes away, or its connection breaks.
Disconnect(s) ==
    /\ s \in open
    /\ Close({s})
    /\ UNCHANGED <<now, cleanupDue, owner, heard>>

\* The client answers a heartbeat.  updateActivity has no caller.
Hear(s) ==
    /\ s \in open
    /\ heard' = [heard EXCEPT ![s] = now]
    /\ UNCHANGED <<open, registry, now, cleanupDue, owner>>

\* Mutant: the timeout is read in another unit.
InactiveTooLate == {s \in Registered : now - connections[s].lastActivity > 3 * Timeout}

\* cleanupInactiveConnections of the service
Inactive == {s \in Registered : now - connections[s].lastActivity > Timeout}

\* cleanupInactiveConnections of the gateway, an interval
Cleanup ==
    /\ now >= cleanupDue
    /\ Close(Inactive \cap open)
    /\ cleanupDue' = now + Timeout
    /\ UNCHANGED <<now, owner, heard>>

\* The interval fires on time: the clock does not pass it by.
Tick ==
    /\ now < MaxTime
    /\ now < cleanupDue
    /\ now' = now + 1
    /\ UNCHANGED <<open, registry, cleanupDue, owner, heard>>

Next ==
    \/ \E s \in Socket, u \in User : Connect(s, u)
    \/ \E s \in Socket : Disconnect(s)
    \/ \E s \in Socket : Hear(s)
    \/ Cleanup
    \/ Tick

Spec == Init /\ [][Next]_vars

---------------------------------------------------------------------------
\* The registry describes the sockets that are open, no more and no fewer, and
\* its index by user agrees with it, however connections come, go and time out.
RegistryMatches ==
    /\ Registered = open
    /\ \A u \in User : userConnections[u] = {s \in Registered : connections[s].userId = u}

\* A client that has gone silent is disconnected within two cleanup intervals.
SilentDropped == \A s \in open : now - heard[s] <= 2 * Timeout

\* Why it is: the next cleanup is never more than an interval away, and finds
\* every connection before it has lasted for two.  (With RegistryMatches the
\* inductive invariant of LimitsProofs.)
TimersAgree ==
    /\ now <= cleanupDue
    /\ cleanupDue <= now + Timeout
    /\ \A s \in open :
           /\ connections[s].lastActivity <= heard[s]
           /\ heard[s] <= now
           /\ cleanupDue <= connections[s].lastActivity + 2 * Timeout

\* issue-updates.gateway.ts:80 "Check for connection limit enforcement before
\* adding": a user has at most MAX_CONNECTIONS_PER_USER connections.
LimitPerUser ==
    \A u \in User : Cardinality({s \in open : owner[s] = u}) <= MaxPerUser

\* issue-updates.gateway.ts:243 "Disconnected inactive connection": the cleanup
\* disconnects clients that have not been heard from for the timeout.
OnlyInactiveDropped ==
    [][\A s \in open \ open' : cleanupDue' # cleanupDue => now - heard[s] > Timeout]_vars
=============================================================================
