--------------------------- MODULE SessionsProofs ---------------------------
(* Theorems about Sessions, for every set of users, roles, pairs and         *)
(* requests, every lifetime that SessionsAssumption allows and every bound.  *)
EXTENDS Sessions, TLAPS

TypeInv == TypeOK /\ RequestsOK /\ KnownPairs

\* Nobody is signed in and no request is in flight: the initial state is typed.
LEMMA InitTypeInv == Init => TypeInv
<1> SUFFICES ASSUME Init PROVE TypeInv
  OBVIOUS
<1> USE SessionsAssumption
<1>1. PICK roles \in [User -> Role] :
        row = [u \in User |-> [role |-> roles[u], tokenVersion |-> 1,
                               hashedRefreshToken |-> None]]
  BY DEF Init
<1>2. TypeOK
  BY <1>1 DEF Init, TypeOK, BL!Init, BL!Missing, Row, RequestState, Idle
<1>3. RequestsOK
  BY DEF Init, RequestsOK, RequestOK, Idle
<1>4. KnownPairs
  BY <1>1 DEF Init, KnownPairs
<1> QED
  BY <1>2, <1>3, <1>4 DEF TypeInv

\* What a minted pair was signed with, component by component: generateTokens.
LEMMA MintedTyped ==
  ASSUME TypeOK, NEW p \in Minted
  PROVE  /\ p \in Pair
         /\ token[p] \in Signed
         /\ token[p].user \in User
         /\ token[p].iat \in Nat
         /\ token[p].parent \in Pair \cup {None}
<1>1. token[p] \in Signed
  BY DEF TypeOK, Minted
<1> QED
  BY <1>1 DEF Signed, Minted

\* What a request carries, component by component.
LEMMA RequestTyped ==
  ASSUME TypeOK, NEW r \in Request
  PROVE  /\ req[r] \in RequestState
         /\ req[r].user \in User \cup {None}
         /\ req[r].pair \in Pair \cup {None}
         /\ req[r].fresh \in Pair \cup {None}
         /\ req[r].role \in Role \cup {None}
BY DEF TypeOK, RequestState

\* The columns of a row of the users table, one by one.
LEMMA RowTyped ==
  ASSUME TypeOK, NEW u \in User
  PROVE  /\ row[u] \in Row
         /\ row[u].role \in Role
         /\ row[u].tokenVersion \in Nat
         /\ row[u].hashedRefreshToken \in Pair \cup {None}
         /\ ClaimsOf(u) \in Claims
BY DEF TypeOK, Row, Claims, ClaimsOf


\* A step of request r leaves the other requests where they wait.
LEMMA OwnRequest ==
  ASSUME TypeOK, NEW r \in Request, NEW q, req' = [req EXCEPT ![r] = q]
  PROVE  req'[r] = q /\ \A s \in Request \ {r} : req'[s] = req[s]
BY DEF TypeOK

\* A request that moves on, or reads a row, or is given a new pair, is still a
\* request; nothing else about it changes.
LEMMA MovedOn ==
  ASSUME NEW q \in RequestState, NEW a \in {"idle"} \cup Waiting
  PROVE  [q EXCEPT !.at = a] \in RequestState
BY DEF RequestState

\* ... and so is one that has read a row (signIn, refreshToken).
LEMMA RowRead ==
  ASSUME NEW q \in RequestState, NEW a \in {"idle"} \cup Waiting, NEW c \in Claims
  PROVE  [q EXCEPT !.at = a, !.seen = c] \in RequestState
BY DEF RequestState

\* ... and one that has been given a new pair (generateTokens).
LEMMA PairGiven ==
  ASSUME NEW q \in RequestState, NEW a \in {"idle"} \cup Waiting, NEW p \in Pair
  PROVE  [q EXCEPT !.at = a, !.seen = None, !.fresh = p] \in RequestState
BY DEF RequestState

\* A request that has ended is a request.
LEMMA IdleTyped == Idle \in RequestState
BY DEF Idle, RequestState

\* A step of request r keeps what the other requests carry, as long as pairs
\* stay minted and held.
LEMMA OthersOK ==
  ASSUME TypeInv, NEW r \in Request, RequestOK(req[r])',
         \A s \in Request \ {r} : req'[s] = req[s],
         held \subseteq held', Minted \subseteq Minted',
         \A p \in Minted : token'[p] = token[p]
  PROVE  RequestsOK'
<1> SUFFICES ASSUME NEW s \in Request \ {r}
             PROVE  RequestOK(req[s])'
  BY DEF RequestsOK
<1>1. RequestOK(req[s]) /\ req'[s] = req[s] /\ held \subseteq Minted
  BY DEF TypeInv, RequestsOK, KnownPairs
<1> QED
  BY <1>1 DEF RequestOK

\* One lemma per handler step.  signIn carries the claims of the row it read.
LEMMA SignInTypeInv ==
  ASSUME TypeInv, NEW r \in Request, NEW u \in User, SignIn(r, u)
  PROVE  TypeInv'
<1> USE SessionsAssumption DEF TypeInv, SignIn, blacklist, history
<1>1. ClaimsOf(u) \in Claims
  BY RowTyped
<1>2. TypeOK'
  BY <1>1, RequestTyped DEF TypeOK, RequestState, Idle, Row, Waiting
<1>3. RequestsOK'
  <2>1. RequestOK(req[r])'
    BY <1>1, <1>2 DEF TypeOK, RequestsOK, RequestOK, RequestState, Idle, Minted
  <2> QED
    BY <2>1, OthersOK DEF TypeOK, RequestsOK, RequestOK, Minted
<1>4. KnownPairs'
  BY <1>1, RowTyped DEF TypeOK, KnownPairs, RequestState, Row, Minted
<1> QED
  BY <1>2, <1>3, <1>4

\* refreshToken carries a pair that a client holds, and its user.
LEMMA RefreshVerifyTypeInv ==
  ASSUME TypeInv, NEW r \in Request, NEW p \in Pair, RefreshVerify(r, p)
  PROVE  TypeInv'
<1> USE SessionsAssumption DEF TypeInv, RefreshVerify, blacklist, history
<1>1. p \in held /\ p \in Minted /\ token[p].user \in User
  BY MintedTyped DEF KnownPairs
<1>2. TypeOK'
  BY <1>1, RequestTyped
     DEF TypeOK, RequestState, Idle, Row, Waiting, BL!LookUp, BL!Pruned, BL!Expired,
         BL!Missing
<1>3. RequestsOK'
  <2>1. RequestOK(req[r])'
    BY <1>1, <1>2 DEF TypeOK, RequestsOK, RequestOK, RequestState, Idle, Minted
  <2> QED
    BY <2>1, OthersOK DEF TypeOK, RequestsOK, RequestOK, Minted
<1>4. KnownPairs'
  BY <1>1, RowTyped DEF TypeOK, KnownPairs, RequestState, Row, Minted
<1> QED
  BY <1>2, <1>3, <1>4

\* A matching hash lets the refresh go on with the row's claims.
LEMMA RefreshGrantedTypeInv ==
  ASSUME TypeInv, NEW r \in Request, RefreshGranted(r)
  PROVE  TypeInv'
<1> USE SessionsAssumption DEF TypeInv, RefreshGranted, blacklist, history
<1>1. /\ req[r].user \in User /\ ClaimsOf(req[r].user) \in Claims
      /\ req[r].pair \in held /\ token[req[r].pair].user = req[r].user
  BY MintedTyped, RowTyped DEF KnownPairs, RequestsOK, RequestOK
<1>2. TypeOK'
  <2> DEFINE q == [req[r] EXCEPT !.at = "generateTokens", !.seen = ClaimsOf(req[r].user)]
  <2>1. q \in RequestState
    <3>1. req[r] \in RequestState /\ ClaimsOf(req[r].user) \in Claims
      BY <1>1, RequestTyped
    <3> HIDE DEF TypeInv, RefreshGranted
    <3> QED
      BY <3>1, RowRead DEF Waiting
  <2>2. req' = [req EXCEPT ![r] = q]
    OBVIOUS
  <2> HIDE DEF q
  <2>3. UNCHANGED <<row, token, held, blacklistedTokens, userTokens, now, restarts,
                    spent, minted, loggedOut, dismissed>>
    OBVIOUS
  <2>4. TypeOK
    OBVIOUS
  <2> HIDE DEF TypeInv, RefreshGranted
  <2> QED
    BY <2>1, <2>2, <2>3, <2>4 DEF TypeOK
<1>3. RequestsOK'
  <2>1. RequestOK(req[r])'
    BY <1>1, <1>2 DEF TypeOK, RequestsOK, RequestOK, RequestState, Idle, Minted
  <2> QED
    BY <2>1, OthersOK DEF TypeOK, RequestsOK, RequestOK, Minted
<1>4. KnownPairs'
  BY <1>1, RowTyped DEF TypeOK, KnownPairs, RequestState, Row, Minted
<1> QED
  BY <1>2, <1>3, <1>4

\* canActivate carries a pair that a client holds.
LEMMA GuardVerifyTypeInv ==
  ASSUME TypeInv, NEW r \in Request, NEW p \in Pair, GuardVerify(r, p)
  PROVE  TypeInv'
<1> USE SessionsAssumption DEF TypeInv, GuardVerify, blacklist, history
<1>1. p \in held /\ p \in Minted
  BY DEF KnownPairs
<1>2. TypeOK'
  BY <1>1, RequestTyped
     DEF TypeOK, RequestState, Idle, Row, Waiting, BL!LookUp, BL!Pruned, BL!Expired,
         BL!Missing
<1>3. RequestsOK'
  <2>1. RequestOK(req[r])'
    BY <1>1, <1>2 DEF TypeOK, RequestsOK, RequestOK, RequestState, Idle, Minted
  <2> QED
    BY <2>1, OthersOK DEF TypeOK, RequestsOK, RequestOK, Minted
<1>4. KnownPairs'
  BY <1>1, RowTyped DEF TypeOK, KnownPairs, RequestState, Row, Minted
<1> QED
  BY <1>2, <1>3, <1>4

\* An accepted request keeps its pair.
LEMMA GuardAcceptTypeInv ==
  ASSUME TypeInv, NEW r \in Request, GuardAccept(r)
  PROVE  TypeInv'
<1> USE SessionsAssumption DEF TypeInv, GuardAccept, blacklist, history
<1>1. req[r].pair \in held
  BY DEF RequestsOK, RequestOK
<1>2. TypeOK'
  <2> DEFINE q == [req[r] EXCEPT !.at = "authorized"]
  <2>1. q \in RequestState
    <3>1. req[r] \in RequestState
      BY RequestTyped
    <3> HIDE DEF TypeInv, GuardAccept
    <3> QED
      BY <3>1, MovedOn DEF Waiting
  <2>2. req' = [req EXCEPT ![r] = q]
    OBVIOUS
  <2> HIDE DEF q
  <2>3. UNCHANGED <<row, token, held, blacklistedTokens, userTokens, now, restarts,
                    spent, minted, loggedOut, dismissed>>
    OBVIOUS
  <2>4. TypeOK
    OBVIOUS
  <2> HIDE DEF TypeInv, GuardAccept
  <2> QED
    BY <2>1, <2>2, <2>3, <2>4 DEF TypeOK
<1>3. RequestsOK'
  <2>1. RequestOK(req[r])'
    BY <1>1, <1>2 DEF TypeOK, RequestsOK, RequestOK, RequestState, Idle, Minted
  <2> QED
    BY <2>1, OthersOK DEF TypeOK, RequestsOK, RequestOK, Minted
<1>4. KnownPairs'
  BY <1>1, RowTyped DEF TypeOK, KnownPairs, RequestState, Row, Minted
<1> QED
  BY <1>2, <1>3, <1>4

\* logout lists the access token of a pair that is held.
LEMMA LogoutRevokeTypeInv ==
  ASSUME TypeInv, NEW r \in Request, LogoutRevoke(r)
  PROVE  TypeInv'
<1> USE SessionsAssumption DEF TypeInv, LogoutRevoke, blacklist, history
<1>1. req[r].pair \in held /\ req[r].pair \in Pair /\ token[req[r].pair].iat \in Nat
  BY MintedTyped DEF KnownPairs, RequestsOK, RequestOK, Minted
<1>2. TypeOK'
  <2>1. BL!ExpiresAt(RemainingLife(req[r].pair)) \in Nat
    BY <1>1 DEF TypeOK, BL!ExpiresAt, RemainingLife, AccessExpiry
  <2>2. req'[r] \in RequestState
    BY RequestTyped DEF TypeOK, RequestState, Waiting
  <2>3. blacklistedTokens' \in [TokenId -> Nat]
    BY <2>1 DEF TypeOK, BL!BlacklistToken
  <2> QED
    BY <1>1, <2>2, <2>3 DEF TypeOK
<1>3. RequestsOK'
  <2>1. RequestOK(req[r])'
    BY <1>1, <1>2 DEF TypeOK, RequestsOK, RequestOK, RequestState, Idle, Minted
  <2> QED
    BY <2>1, OthersOK DEF TypeOK, RequestsOK, RequestOK, Minted
<1>4. KnownPairs'
  BY <1>1, RowTyped DEF TypeOK, KnownPairs, RequestState, Row, Minted
<1> QED
  BY <1>2, <1>3, <1>4

\* clearRefreshToken spends a hash of a pair that was minted.
LEMMA LogoutClearTypeInv ==
  ASSUME TypeInv, NEW r \in Request, LogoutClear(r)
  PROVE  TypeInv'
<1> USE SessionsAssumption DEF TypeInv, LogoutClear, blacklist, history
<1>1. /\ token[req[r].pair].user \in User
      /\ row[token[req[r].pair].user].hashedRefreshToken \in Pair \cup {None}
  BY MintedTyped, RowTyped DEF KnownPairs, RequestsOK, RequestOK
<1>2. TypeOK'
  <2>1. row' \in [User -> Row]
    BY <1>1 DEF TypeOK, Row
  <2>2. req' \in [Request -> RequestState]
    BY IdleTyped DEF TypeOK
  <2>3. spent' \subseteq Pair
    BY <1>1 DEF TypeOK
  <2> QED
    BY <2>1, <2>2, <2>3 DEF TypeOK
<1>3. RequestsOK'
  <2>1. RequestOK(req[r])'
    BY <1>1, <1>2 DEF TypeOK, RequestsOK, RequestOK, RequestState, Idle, Minted
  <2> QED
    BY <2>1, OthersOK DEF TypeOK, RequestsOK, RequestOK, Minted
<1>4. KnownPairs'
  BY <1>1, RowTyped DEF TypeOK, KnownPairs, RequestState, Row, Minted
<1> QED
  BY <1>2, <1>3, <1>4

\* updateUserRole carries a user and a role.
LEMMA RoleFindTypeInv ==
  ASSUME TypeInv, NEW r \in Request, NEW u \in User, NEW newRole \in Role,
         RoleFind(r, u, newRole)
  PROVE  TypeInv'
<1> USE SessionsAssumption DEF TypeInv, RoleFind, blacklist, history
<1>1. TRUE
  OBVIOUS
<1>2. TypeOK'
  BY <1>1, RequestTyped DEF TypeOK, RequestState, Idle, Row, Waiting
<1>3. RequestsOK'
  <2>1. RequestOK(req[r])'
    BY <1>1, <1>2 DEF TypeOK, RequestsOK, RequestOK, RequestState, Idle, Minted
  <2> QED
    BY <2>1, OthersOK DEF TypeOK, RequestsOK, RequestOK, Minted
<1>4. KnownPairs'
  BY <1>1, RowTyped DEF TypeOK, KnownPairs, RequestState, Row, Minted
<1> QED
  BY <1>2, <1>3, <1>4

\* The update writes the role that the request carries.
LEMMA RoleUpdateTypeInv ==
  ASSUME TypeInv, NEW r \in Request, RoleUpdate(r)
  PROVE  TypeInv'
<1> USE SessionsAssumption DEF TypeInv, RoleUpdate, blacklist, history
<1>1. req[r].user \in User /\ req[r].role \in Role /\ row[req[r].user].tokenVersion \in Nat
  BY RowTyped DEF RequestsOK, RequestOK
<1>2. TypeOK'
  BY <1>1, RequestTyped, RowTyped DEF TypeOK, RequestState, Idle, Row, Waiting
<1>3. RequestsOK'
  <2>1. RequestOK(req[r])'
    BY <1>1, <1>2 DEF TypeOK, RequestsOK, RequestOK, RequestState, Idle, Minted
  <2> QED
    BY <2>1, OthersOK DEF TypeOK, RequestsOK, RequestOK, Minted
<1>4. KnownPairs'
  BY <1>1, RowTyped DEF TypeOK, KnownPairs, RequestState, Row, Minted
<1> QED
  BY <1>2, <1>3, <1>4

\* blacklistUserTokens dismisses pairs that are held.
LEMMA RoleRevokeTypeInv ==
  ASSUME TypeInv, NEW r \in Request, RoleRevoke(r)
  PROVE  TypeInv'
<1> USE SessionsAssumption DEF TypeInv, RoleRevoke, blacklist, history
<1>1. req[r].user \in User
  BY DEF RequestsOK, RequestOK
<1>2. TypeOK'
  BY <1>1, RequestTyped DEF TypeOK, RequestState, Idle, Row, Waiting, BL!BlacklistUserTokens
<1>3. RequestsOK'
  <2>1. RequestOK(req[r])'
    BY <1>1, <1>2 DEF TypeOK, RequestsOK, RequestOK, RequestState, Idle, Minted
  <2> QED
    BY <2>1, OthersOK DEF TypeOK, RequestsOK, RequestOK, Minted
<1>4. KnownPairs'
  BY <1>1, RowTyped DEF TypeOK, KnownPairs, RequestState, Row, Minted
<1> QED
  BY <1>2, <1>3, <1>4

\* generateTokens mints a pair for the user the request carries, whose parent is
\* the pair that was presented.
LEMMA GenerateTokensTypeInv ==
  ASSUME TypeInv, NEW r \in Request, NEW p \in Pair, GenerateTokens(r, p)
  PROVE  TypeInv'
<1> USE SessionsAssumption DEF TypeInv, GenerateTokens
<1> DEFINE minting == [user |-> req[r].user, role |-> req[r].seen.role,
                       tokenVersion |-> req[r].seen.tokenVersion, iat |-> now,
                       parent |-> req[r].pair]
<1>1. /\ req[r].user \in User
      /\ req[r].seen \in Claims
      /\ req[r].pair # None => /\ req[r].pair \in held
                              /\ token[req[r].pair].user = req[r].user
  BY DEF RequestsOK, RequestOK
<1>2. minting \in Signed /\ minting # None
  BY <1>1, RequestTyped DEF TypeOK, Claims, Signed
<1>3. token' = [token EXCEPT ![p] = minting] /\ p \notin Minted /\ p \notin held
  BY DEF Minted, KnownPairs
<1>4. Minted' = Minted \cup {p} /\ \A q \in Minted : token'[q] = token[q]
  BY <1>2, <1>3 DEF TypeOK, Minted
<1> HIDE DEF minting
<1>5. TypeOK'
  <2>1. req'[r] \in RequestState
    <3> DEFINE q == [req[r] EXCEPT !.at = "updateHash", !.seen = None, !.fresh = p]
    <3>1. q \in RequestState
      <4>1. req[r] \in RequestState
        BY RequestTyped
      <4> HIDE DEF TypeInv, GenerateTokens
      <4> QED
        BY <4>1, PairGiven DEF Waiting
    <3>2. req' = [req EXCEPT ![r] = q]
      OBVIOUS
    <3> HIDE DEF q
    <3> QED
      BY <3>1, <3>2, OwnRequest
  <2>2. userTokens' \in [User -> SUBSET TokenId]
    <3>1. Tracked(p) \subseteq TokenId
      BY DEF Tracked, Access, Refresh, TokenId
    <3> QED
      BY <3>1 DEF TypeOK, BL!TrackUserTokens
  <2> QED
    BY <1>2, <1>3, <2>1, <2>2 DEF TypeOK
<1>6. RequestsOK'
  <2>1. token'[p].user = req[r].user /\ token'[p].parent = req[r].pair
    BY <1>3 DEF TypeOK, minting
  <2>2. RequestOK(req[r])'
    BY <1>1, <1>3, <1>4, <2>1 DEF TypeOK, RequestOK, RequestState, KnownPairs
  <2> QED
    BY <1>4, <2>2, OthersOK DEF TypeOK, RequestsOK, RequestOK
<1>7. KnownPairs'
  BY <1>4, RowTyped DEF KnownPairs
<1> QED
  BY <1>5, <1>6, <1>7

\* updateRefreshTokenHash stores, and hands out, a pair that was minted for the
\* user of the row.
LEMMA UpdateHashTypeInv ==
  ASSUME TypeInv, NEW r \in Request, UpdateHash(r)
  PROVE  TypeInv'
<1> USE SessionsAssumption DEF TypeInv, UpdateHash, blacklist
<1>1. /\ req[r].user \in User
      /\ req[r].fresh \in Minted
      /\ token[req[r].fresh].user = req[r].user
  BY DEF RequestsOK, RequestOK
<1>2. row[req[r].user].hashedRefreshToken \in Pair \cup {None}
  BY <1>1, RowTyped
<1>3. TypeOK'
  BY <1>1, <1>2, MintedTyped DEF TypeOK, RequestState, Idle, Row
<1>4. RequestsOK'
  <2>1. RequestOK(req[r])'
    BY DEF TypeOK, RequestOK, Idle
  <2> QED
    BY <1>1, <2>1, OthersOK DEF TypeOK, RequestsOK, RequestOK, Minted
<1>5. KnownPairs'
  BY <1>1, <1>2 DEF TypeOK, KnownPairs, Row, Minted
<1> QED
  BY <1>3, <1>4, <1>5

\* RefreshDenied, GuardReject, Serve and Fail only end the request.
Ends(r) ==
    /\ req' = [req EXCEPT ![r] = Idle]
    /\ UNCHANGED <<row, token, held, blacklist, now, restarts, history>>

\* A request that ends leaves everything but itself as it was.
LEMMA EndsTypeInv ==
  ASSUME TypeInv, NEW r \in Request, Ends(r)
  PROVE  TypeInv'
<1> USE SessionsAssumption DEF TypeInv, Ends, blacklist, history
<1>1. TypeOK'
  BY DEF TypeOK, RequestState, Idle
<1>2. RequestsOK'
  <2>1. RequestOK(req[r])'
    BY DEF TypeOK, RequestOK, Idle
  <2> QED
    BY <2>1, OthersOK DEF TypeOK, RequestsOK, RequestOK, Minted
<1>3. KnownPairs'
  BY DEF KnownPairs, Minted
<1> QED
  BY <1>1, <1>2, <1>3

\* The hourly cleanup of the blacklist keeps the types.
LEMMA CleanupTypeInv == ASSUME TypeInv, Cleanup PROVE TypeInv'
<1> USE DEF TypeInv, Cleanup, history
<1>1. TypeOK'
  BY DEF TypeOK, BL!CleanupExpiredTokens, BL!Pruned, BL!Missing
<1> QED
  BY <1>1 DEF RequestsOK, RequestOK, KnownPairs, Minted

\* So does the clock,
LEMMA TickTypeInv == ASSUME TypeInv, Tick PROVE TypeInv'
BY DEF TypeInv, Tick, history, BL!Tick, TypeOK, RequestsOK, RequestOK, KnownPairs, Minted

\* and a restart, which forgets the requests and the blacklist.
LEMMA RestartTypeInv == ASSUME TypeInv, Restart PROVE TypeInv'
<1> USE SessionsAssumption DEF TypeInv, Restart
<1>1. TypeOK'
  BY DEF TypeOK, BL!OnModuleDestroy, BL!Missing, RequestState, Idle
<1>2. RequestsOK'
  BY DEF RequestsOK, RequestOK, Idle
<1>3. KnownPairs'
  BY DEF KnownPairs, Minted
<1> QED
  BY <1>1, <1>2, <1>3

\* Every step of the specification, by the lemmas above.
LEMMA NextTypeInv == TypeInv /\ [Next]_vars => TypeInv'
<1> SUFFICES ASSUME TypeInv, [Next]_vars PROVE TypeInv'
  OBVIOUS
<1>1. ASSUME NEW r \in Request, Arrive(r) PROVE TypeInv'
  BY <1>1, SignInTypeInv, RefreshVerifyTypeInv, GuardVerifyTypeInv, RoleFindTypeInv
     DEF Arrive
<1>2. ASSUME NEW r \in Request, RefreshStep(r) PROVE TypeInv'
  BY <1>2, RefreshGrantedTypeInv, EndsTypeInv DEF RefreshStep, RefreshDenied, Ends
<1>3. ASSUME NEW r \in Request, IssueStep(r) PROVE TypeInv'
  BY <1>3, GenerateTokensTypeInv, UpdateHashTypeInv DEF IssueStep
<1>4. ASSUME NEW r \in Request, GuardStep(r) PROVE TypeInv'
  BY <1>4, GuardAcceptTypeInv, EndsTypeInv DEF GuardStep, GuardReject, Serve, Ends
<1>5. ASSUME NEW r \in Request, LogoutStep(r) PROVE TypeInv'
  BY <1>5, LogoutRevokeTypeInv, LogoutClearTypeInv DEF LogoutStep
<1>6. ASSUME NEW r \in Request, RoleStep(r) PROVE TypeInv'
  BY <1>6, RoleUpdateTypeInv, RoleRevokeTypeInv DEF RoleStep
<1>7. ASSUME NEW r \in Request, Fail(r) PROVE TypeInv'
  BY <1>7, EndsTypeInv DEF Fail, Ends
<1>8. CASE Cleanup \/ Tick \/ Restart
  BY <1>8, CleanupTypeInv, TickTypeInv, RestartTypeInv
<1>9. CASE UNCHANGED vars
  BY <1>9 DEF vars, TypeInv, TypeOK, RequestsOK, RequestOK, KnownPairs, Minted
<1> QED
  BY <1>1, <1>2, <1>3, <1>4, <1>5, <1>6, <1>7, <1>8, <1>9 DEF Next

\* The tables, maps and requests of Sessions keep their types, and every
\* waiting request carries what its next step needs (auth.service.ts,
\* token.service.ts, token-blacklist.service.ts).
THEOREM TypeCorrect == Spec => [](TypeOK /\ RequestsOK /\ KnownPairs)
BY InitTypeInv, NextTypeInv, PTL DEF Spec, TypeInv

---------------------------------------------------------------------------
VersionInv == VersionDeterminesRole /\ SeenClaimsOnceHeld

\* A row's claims either stay, or get a greater tokenVersion.
ClaimsMove ==
    \A u \in User :
        \/ row'[u].tokenVersion = row[u].tokenVersion /\ row'[u].role = row[u].role
        \/ row'[u].tokenVersion = row[u].tokenVersion + 1

\* Only the update of a role changes a row's claims, and it increments tokenVersion.
LEMMA NextClaimsMove == TypeInv /\ [Next]_vars => ClaimsMove
<1> SUFFICES ASSUME TypeInv, [Next]_vars PROVE ClaimsMove
  OBVIOUS
<1> USE DEF ClaimsMove, TypeInv
<1>1. ASSUME NEW r \in Request, IssueStep(r) PROVE ClaimsMove
  BY <1>1 DEF IssueStep, GenerateTokens, UpdateHash, TypeOK, Row
<1>2. ASSUME NEW r \in Request, LogoutStep(r) PROVE ClaimsMove
  BY <1>2 DEF LogoutStep, LogoutRevoke, LogoutClear, TypeOK, Row
<1>3. ASSUME NEW r \in Request, RoleStep(r) PROVE ClaimsMove
  BY <1>3 DEF RoleStep, RoleUpdate, RoleRevoke, TypeOK, Row
<1>4. ASSUME NEW r \in Request, Arrive(r) \/ RefreshStep(r) \/ GuardStep(r) \/ Fail(r)
      PROVE  ClaimsMove
  BY <1>4 DEF Arrive, SignIn, RefreshVerify, GuardVerify, RoleFind, RefreshStep,
     RefreshGranted, RefreshDenied, GuardStep, GuardAccept, GuardReject, Serve, Fail
<1>5. CASE Cleanup \/ Tick \/ Restart \/ UNCHANGED vars
  BY <1>5 DEF Cleanup, Tick, Restart, vars
<1> QED
  BY <1>1, <1>2, <1>3, <1>4, <1>5 DEF Next

\* What a request has read was the row at some time: a step either leaves it,
\* reads it from the row as it is, or drops it.
LEMMA NextSeen ==
  ASSUME TypeInv, [Next]_vars, NEW r \in Request, req'[r].at = "generateTokens"
  PROVE  /\ req'[r].user \in User
         /\ \/ req'[r] = req[r]
            \/ /\ req'[r].seen = ClaimsOf(req'[r].user)
               /\ row' = row
<1> USE DEF TypeInv
<1>1. TypeInv'
  BY NextTypeInv
<1>2. req'[r].user \in User
  BY <1>1 DEF RequestsOK, RequestOK
<1>3. ASSUME NEW s \in Request, Arrive(s) \/ RefreshStep(s)
      PROVE  req'[r] = req[r] \/ (req'[r].seen = ClaimsOf(req'[r].user) /\ row' = row)
  <2>1. CASE r # s
    BY <1>3, <2>1 DEF TypeOK, Arrive, SignIn, RefreshVerify, GuardVerify, RoleFind,
       RefreshStep, RefreshGranted, RefreshDenied
  <2>2. CASE r = s /\ Arrive(s)
    <3>1. ASSUME NEW u \in User, SignIn(s, u)
          PROVE  req'[s].seen = ClaimsOf(req'[s].user) /\ row' = row
      BY <3>1 DEF TypeOK, SignIn, Idle
    <3>2. ASSUME NEW p \in Pair, RefreshVerify(s, p) \/ GuardVerify(s, p)
          PROVE  req'[s].at # "generateTokens"
      BY <3>2 DEF TypeOK, RefreshVerify, GuardVerify, Idle
    <3>3. ASSUME NEW u \in User, NEW newRole \in Role, RoleFind(s, u, newRole)
          PROVE  req'[s].at # "generateTokens"
      BY <3>3 DEF TypeOK, RoleFind, Idle
    <3> QED
      BY <2>2, <3>1, <3>2, <3>3 DEF Arrive
  <2>3. CASE r = s /\ RefreshStep(s)
    BY <2>3, RequestTyped
       DEF TypeOK, RefreshStep, RefreshGranted, RefreshDenied, Idle, RequestState
  <2> QED
    BY <1>3, <2>1, <2>2, <2>3
<1>4. ASSUME NEW s \in Request,
             IssueStep(s) \/ GuardStep(s) \/ LogoutStep(s) \/ RoleStep(s) \/ Fail(s)
      PROVE  req'[r] = req[r]
  <2>1. CASE r # s
    <3>1. CASE IssueStep(s)
      BY <2>1, <3>1 DEF TypeOK, IssueStep, GenerateTokens, UpdateHash
    <3>2. CASE GuardStep(s) \/ Fail(s)
      BY <2>1, <3>2 DEF TypeOK, GuardStep, GuardAccept, GuardReject, Serve, Fail
    <3>3. CASE LogoutStep(s)
      BY <2>1, <3>3 DEF TypeOK, LogoutStep, LogoutRevoke, LogoutClear
    <3>4. CASE RoleStep(s)
      BY <2>1, <3>4 DEF TypeOK, RoleStep, RoleUpdate, RoleRevoke
    <3> QED
      BY <1>4, <3>1, <3>2, <3>3, <3>4
  <2>2. CASE r = s
    <3>1. req[r] \in RequestState
      BY RequestTyped
    <3>2. ~IssueStep(r)
      BY <2>2, <3>1 DEF TypeOK, IssueStep, GenerateTokens, UpdateHash, Idle, RequestState
    <3>3. ~GuardStep(r) /\ ~Fail(r)
      BY <2>2, <3>1 DEF TypeOK, GuardStep, GuardAccept, GuardReject, Serve, Fail, Idle,
         RequestState
    <3>4. ~LogoutStep(r)
      BY <2>2, <3>1 DEF TypeOK, LogoutStep, LogoutRevoke, LogoutClear, Idle, RequestState
    <3>5. ~RoleStep(r)
      BY <2>2, <3>1 DEF TypeOK, RoleStep, RoleUpdate, RoleRevoke, Idle, RequestState
    <3> QED
      BY <1>4, <2>2, <3>2, <3>3, <3>4, <3>5
  <2> QED
    BY <2>1, <2>2
<1>5. CASE Cleanup \/ Tick \/ Restart \/ UNCHANGED vars
  BY <1>2, <1>5 DEF Cleanup, Tick, Restart, vars, Idle
<1> QED
  BY <1>2, <1>3, <1>4, <1>5 DEF Next

\* Only generateTokens mints, and it copies what its request has read.
LEMMA NextMinted ==
  ASSUME TypeInv, [Next]_vars, NEW p \in Minted'
  PROVE  \/ p \in Minted /\ token'[p] = token[p]
         \/ /\ p \notin Minted
            /\ row' = row
            /\ \E r \in Request :
                 /\ req[r].at = "generateTokens"
                 /\ token'[p].user = req[r].user
                 /\ token'[p].role = req[r].seen.role
                 /\ token'[p].tokenVersion = req[r].seen.tokenVersion
<1> USE DEF TypeInv
<1>1. ASSUME NEW r \in Request, NEW q \in Pair, GenerateTokens(r, q)
      PROVE  \/ p \in Minted /\ token'[p] = token[p]
             \/ /\ p \notin Minted
                /\ row' = row
                /\ req[r].at = "generateTokens"
                /\ token'[p].user = req[r].user
                /\ token'[p].role = req[r].seen.role
                /\ token'[p].tokenVersion = req[r].seen.tokenVersion
  BY <1>1 DEF GenerateTokens, TypeOK, Minted
<1>2. CASE UNCHANGED token
  BY <1>2 DEF Minted
<1>3. ASSUME NEW r \in Request,
             \/ Arrive(r) \/ RefreshStep(r) \/ UpdateHash(r) \/ GuardStep(r)
             \/ LogoutStep(r) \/ RoleStep(r) \/ Fail(r)
      PROVE  UNCHANGED token
  <2>1. CASE Arrive(r) \/ RefreshStep(r)
    BY <2>1 DEF Arrive, SignIn, RefreshVerify, GuardVerify, RoleFind, RefreshStep,
       RefreshGranted, RefreshDenied
  <2>2. CASE UpdateHash(r) \/ GuardStep(r) \/ Fail(r)
    BY <2>2 DEF UpdateHash, GuardStep, GuardAccept, GuardReject, Serve, Fail
  <2>3. CASE LogoutStep(r)
    BY <2>3 DEF LogoutStep, LogoutRevoke, LogoutClear
  <2>4. CASE RoleStep(r)
    BY <2>4 DEF RoleStep, RoleUpdate, RoleRevoke
  <2> QED
    BY <1>3, <2>1, <2>2, <2>3, <2>4
<1>4. CASE Cleanup \/ Tick \/ Restart \/ UNCHANGED vars
  BY <1>2, <1>4 DEF Cleanup, Tick, Restart, vars
<1> QED
  BY <1>1, <1>2, <1>3, <1>4 DEF Next, IssueStep

\* Nothing is minted and nothing has been read at the start.
LEMMA InitVersionInv == Init => VersionInv
<1> SUFFICES ASSUME Init PROVE VersionInv
  OBVIOUS
<1>1. VersionDeterminesRole
  BY DEF Init, VersionDeterminesRole, Minted
<1>2. SeenClaimsOnceHeld
  BY DEF Init, SeenClaimsOnceHeld, Idle
<1> QED
  BY <1>1, <1>2 DEF VersionInv

\* Pairs and rows in flight are at most as new as the row, and as new only with its
\* role: both come from the row, and the row only moves on.
LEMMA NextVersionInv == TypeInv /\ VersionInv /\ [Next]_vars => VersionInv'
<1> SUFFICES ASSUME TypeInv, VersionInv, [Next]_vars PROVE VersionInv'
  OBVIOUS
<1> USE DEF VersionInv
<1>1. TypeInv' /\ ClaimsMove
  BY NextTypeInv, NextClaimsMove
<1>2. VersionDeterminesRole'
  <2> SUFFICES ASSUME NEW p \in Minted'
               PROVE  /\ token'[p].tokenVersion <= row'[token'[p].user].tokenVersion
                      /\ token'[p].tokenVersion = row'[token'[p].user].tokenVersion
                           => token'[p].role = row'[token'[p].user].role
    BY DEF VersionDeterminesRole
  <2>1. CASE p \in Minted /\ token'[p] = token[p]
    <3>1. /\ token[p].user \in User
          /\ token[p].tokenVersion \in Nat
          /\ row[token[p].user].tokenVersion \in Nat
      BY <2>1, MintedTyped, RowTyped DEF TypeInv, Signed
    <3> QED
      BY <1>1, <2>1, <3>1 DEF VersionDeterminesRole, ClaimsMove
  <2>2. CASE row' = row /\ \E r \in Request :
                /\ req[r].at = "generateTokens"
                /\ token'[p].user = req[r].user
                /\ token'[p].role = req[r].seen.role
                /\ token'[p].tokenVersion = req[r].seen.tokenVersion
    BY <2>2 DEF SeenClaimsOnceHeld
  <2> QED
    BY <2>1, <2>2, NextMinted
<1>3. SeenClaimsOnceHeld'
  <2> SUFFICES ASSUME NEW r \in Request, req'[r].at = "generateTokens"
               PROVE  LET c == req'[r].seen
                          u == req'[r].user
                      IN /\ c.tokenVersion <= row'[u].tokenVersion
                         /\ c.tokenVersion = row'[u].tokenVersion => c.role = row'[u].role
    BY DEF SeenClaimsOnceHeld
  <2>1. CASE req'[r] = req[r]
    <3>1. /\ req[r].user \in User
          /\ req[r].seen.tokenVersion \in Nat
          /\ row[req[r].user].tokenVersion \in Nat
      BY <2>1, RowTyped DEF TypeInv, RequestsOK, RequestOK, Claims
    <3> QED
      BY <1>1, <2>1, <3>1 DEF SeenClaimsOnceHeld, ClaimsMove
  <2>2. CASE req'[r].seen = ClaimsOf(req'[r].user) /\ row' = row
    <3>1. row[req'[r].user].tokenVersion \in Nat
      BY NextSeen, RowTyped DEF TypeInv
    <3> QED
      BY <2>2, <3>1 DEF ClaimsOf
  <2> QED
    BY <2>1, <2>2, NextSeen
<1> QED
  BY <1>2, <1>3

\* However long a sign-in or refresh had been under way when the role changed,
\* an access token with the current tokenVersion carries the current role, so
\* the tokenVersion check of the guard (auth.guard.ts:114) is enough.
THEOREM VersionSound == Spec => []VersionDeterminesRole
<1>1. TypeInv /\ VersionInv /\ [Next]_vars => (TypeInv /\ VersionInv)'
  BY NextTypeInv, NextVersionInv
<1> QED
  BY InitTypeInv, InitVersionInv, <1>1, PTL DEF Spec, VersionInv

---------------------------------------------------------------------------
StorageInv == SpentNeverStored /\ HashWrittenOnce

\* No hash has been written at the start.
LEMMA InitStorageInv == Init => StorageInv
<1> SUFFICES ASSUME Init PROVE StorageInv
  OBVIOUS
<1>1. SpentNeverStored
  BY DEF Init, SpentNeverStored
<1>2. HashWrittenOnce
  BY DEF Init, HashWrittenOnce, Idle
<1> QED
  BY <1>1, <1>2 DEF StorageInv

\* Every request that waits to write a hash after the step waited before.
KeepsWriters ==
    \A s \in Request : req'[s].at = "updateHash" =>
        req[s].at = "updateHash" /\ req'[s].fresh = req[s].fresh

\* The steps that write no hash, mint no pair and hand none out.
LEMMA QuietStorageInv ==
  ASSUME TypeInv, StorageInv, KeepsWriters,
         UNCHANGED <<token, held, spent>>,
         \A u \in User : row'[u].hashedRefreshToken = row[u].hashedRefreshToken
  PROVE  StorageInv'
<1> USE DEF TypeInv, StorageInv
<1>1. SpentNeverStored'
  BY DEF SpentNeverStored
<1>2. \A p \in held : token[p].user \in User
  BY MintedTyped DEF KnownPairs
<1>3. HashWrittenOnce'
  BY <1>2 DEF HashWrittenOnce, KeepsWriters
<1> QED
  BY <1>1, <1>3

\* A new pair is nobody else's: no row, no client and no other request has it.
LEMMA GenerateTokensStorageInv ==
  ASSUME TypeInv, StorageInv, NEW r \in Request, NEW p \in Pair, GenerateTokens(r, p)
  PROVE  StorageInv'
<1> USE SessionsAssumption DEF TypeInv, StorageInv, GenerateTokens
<1>1. /\ p \notin Minted
      /\ p \notin held /\ p \notin spent
      /\ \A u \in User : row[u].hashedRefreshToken # p
      /\ \A s \in Request : req[s].at = "updateHash" => req[s].fresh # p
  BY DEF KnownPairs, Minted, RequestsOK, RequestOK
<1>2. \A q \in held : token'[q] = token[q]
  BY <1>1 DEF TypeOK
<1>3. /\ req'[r].at = "updateHash" /\ req'[r].fresh = p
      /\ \A s \in Request \ {r} : req'[s] = req[s]
  BY RequestTyped DEF TypeOK, RequestState
<1>4. SpentNeverStored'
  BY DEF SpentNeverStored
<1>5. ASSUME NEW s \in Request, req'[s].at = "updateHash"
      PROVE  /\ req'[s].fresh \notin spent \cup held
             /\ \A u \in User : row[u].hashedRefreshToken # req'[s].fresh
             /\ \A t \in Request \ {s} :
                    req'[t].at = "updateHash" => req'[t].fresh # req'[s].fresh
  <2>1. CASE s = r
    <3>1. req'[s].fresh = p
      BY <1>3, <2>1
    <3>2. ASSUME NEW t \in Request \ {s}, req'[t].at = "updateHash"
          PROVE  req'[t].fresh # p
      BY <1>1, <1>3, <2>1, <3>2
    <3> QED
      BY <1>1, <3>1, <3>2
  <2>2. CASE s # r
    <3>1. /\ req'[s] = req[s]
          /\ req[s].at = "updateHash"
          /\ req[s].fresh # p
      BY <1>1, <1>3, <1>5, <2>2
    <3>2. /\ req[s].fresh \notin spent \cup held
          /\ \A u \in User : row[u].hashedRefreshToken # req[s].fresh
      BY <3>1 DEF HashWrittenOnce
    <3>3. ASSUME NEW t \in Request \ {s}, req'[t].at = "updateHash"
          PROVE  req'[t].fresh # req[s].fresh
      <4>1. CASE t = r
        BY <1>3, <3>1, <4>1
      <4>2. CASE t # r
        <5>1. req[t].at = "updateHash" /\ req'[t].fresh = req[t].fresh
          BY <1>3, <3>3, <4>2
        <5> QED
          BY <3>1, <5>1 DEF HashWrittenOnce
      <4> QED
        BY <4>1, <4>2
    <3> QED
      BY <3>1, <3>2, <3>3
  <2> QED
    BY <2>1, <2>2
<1>6. \A q \in held :
        /\ q \in spent \/ row[token'[q].user].hashedRefreshToken = q
        /\ token'[q].parent # None => token'[q].parent \in spent
  BY <1>2 DEF HashWrittenOnce
<1>7. UNCHANGED <<row, held, spent>>
  OBVIOUS
<1> HIDE DEF TypeInv, GenerateTokens
<1> QED
  BY <1>4, <1>5, <1>6, <1>7 DEF HashWrittenOnce

\* The hash that is written is new, the one that it replaces is spent.
LEMMA UpdateHashStorageInv ==
  ASSUME TypeInv, StorageInv, NEW r \in Request, UpdateHash(r)
  PROVE  StorageInv'
<1> USE SessionsAssumption DEF TypeInv, StorageInv, UpdateHash
<1> DEFINE u == req[r].user
           new == req[r].fresh
           old == row[req[r].user].hashedRefreshToken
<1>1. /\ u \in User
      /\ new \in Minted /\ token[new].user = u /\ token[new].parent = req[r].pair
      /\ req[r].pair # None => req[r].pair \in held /\ token[req[r].pair].user = u
  BY DEF RequestsOK, RequestOK
<1>2. /\ new \notin spent /\ new \notin held
      /\ \A v \in User : row[v].hashedRefreshToken # new
  BY DEF HashWrittenOnce
<1>3. /\ row'[u].hashedRefreshToken = new
      /\ \A v \in User \ {u} : row'[v].hashedRefreshToken = row[v].hashedRefreshToken
  BY <1>1 DEF TypeOK, Row
<1>4. /\ spent' = spent \cup ({old} \ {None})
      /\ old # None => old \in Minted /\ token[old].user = u
  BY <1>1, <1>2 DEF KnownPairs
<1>5. \A s \in Request : req'[s].at = "updateHash" => s # r /\ req'[s] = req[s]
  BY DEF TypeOK, Idle
<1>6. SpentNeverStored'
  BY <1>1, <1>2, <1>3, <1>4 DEF SpentNeverStored, KnownPairs
<1>7. ASSUME NEW s \in Request, req'[s].at = "updateHash"
      PROVE  /\ req'[s].fresh \notin spent' \cup held'
             /\ \A v \in User : row'[v].hashedRefreshToken # req'[s].fresh
             /\ \A t \in Request \ {s} :
                    req'[t].at = "updateHash" => req'[t].fresh # req'[s].fresh
  BY <1>1, <1>2, <1>3, <1>4, <1>5, <1>7 DEF HashWrittenOnce
<1>8. ASSUME NEW p \in held'
      PROVE  p \in spent' \/ row'[token'[p].user].hashedRefreshToken = p
  <2>1. CASE p = new
    BY <1>1, <1>3, <2>1
  <2>2. CASE p \in held
    <3>1. token[p].user \in User /\ p # None
      BY <2>2, MintedTyped DEF KnownPairs
    <3> QED
      BY <1>3, <1>4, <2>2, <3>1 DEF HashWrittenOnce
  <2> QED
    BY <2>1, <2>2
<1>9. ASSUME NEW p \in held', token'[p].parent # None
      PROVE  token'[p].parent \in spent'
  <2>1. CASE p \in held
    BY <1>9, <2>1 DEF HashWrittenOnce
  <2>2. CASE p = new
    BY <1>1, <1>2, <1>4, <1>9, <2>2 DEF HashWrittenOnce
  <2> QED
    BY <2>1, <2>2
<1> QED
  BY <1>6, <1>7, <1>8, <1>9 DEF HashWrittenOnce

\* clearRefreshToken spends the hash it clears, and writes none.
LEMMA LogoutClearStorageInv ==
  ASSUME TypeInv, StorageInv, NEW r \in Request, LogoutClear(r)
  PROVE  StorageInv'
<1> USE SessionsAssumption DEF TypeInv, StorageInv, LogoutClear
<1> DEFINE u == token[req[r].pair].user
           old == row[token[req[r].pair].user].hashedRefreshToken
<1>1. u \in User
  BY MintedTyped DEF RequestsOK, RequestOK, KnownPairs
<1>2. /\ row'[u].hashedRefreshToken = None
      /\ \A v \in User \ {u} : row'[v].hashedRefreshToken = row[v].hashedRefreshToken
  BY <1>1 DEF TypeOK, Row
<1>3. old # None => old \in Minted /\ token[old].user = u
  BY <1>1 DEF KnownPairs
<1>4. \A s \in Request : req'[s].at = "updateHash" => s # r /\ req'[s] = req[s]
  <2>1. req'[r] = Idle /\ \A s \in Request \ {r} : req'[s] = req[s]
    BY OwnRequest
  <2>2. Idle.at # "updateHash"
    BY DEF Idle
  <2> HIDE DEF TypeInv, StorageInv, LogoutClear
  <2> QED
    BY <2>1, <2>2
<1>5. SpentNeverStored'
  <2>1. spent' \subseteq spent \cup {old} /\ None \notin spent'
    <3>1. None \notin spent
      BY DEF KnownPairs, Minted
    <3> QED
      BY <3>1
  <2>2. \A v \in User : row[v].hashedRefreshToken \notin spent
    BY DEF SpentNeverStored
  <2>3. \A v \in User \ {u} : old # None => row[v].hashedRefreshToken # old
    BY <1>3 DEF KnownPairs
  <2> HIDE DEF TypeInv, StorageInv, LogoutClear, u, old
  <2>4. ASSUME NEW v \in User
        PROVE  row'[v].hashedRefreshToken \notin spent'
    <3>1. CASE v = u
      BY <1>2, <2>1, <3>1
    <3>2. CASE v # u
      BY <1>2, <2>1, <2>2, <2>3, <3>2
    <3> QED
      BY <3>1, <3>2
  <2> QED
    BY <2>4 DEF SpentNeverStored
<1>6. ASSUME NEW s \in Request, req'[s].at = "updateHash"
      PROVE  /\ req'[s].fresh \notin spent' \cup held'
             /\ \A v \in User : row'[v].hashedRefreshToken # req'[s].fresh
             /\ \A t \in Request \ {s} :
                    req'[t].at = "updateHash" => req'[t].fresh # req'[s].fresh
  <2>1. req[s].fresh # None
    BY <1>4, <1>6 DEF RequestsOK, RequestOK, Minted
  <2> QED
    BY <1>1, <1>2, <1>4, <1>6, <2>1 DEF HashWrittenOnce
<1>7. ASSUME NEW p \in held
      PROVE  p \in spent' \/ row'[token[p].user].hashedRefreshToken = p
  <2>1. token[p].user \in User /\ p # None
    BY MintedTyped DEF KnownPairs
  <2> QED
    BY <1>2, <1>3, <2>1 DEF HashWrittenOnce
<1>8. \A p \in held : token[p].parent # None => token[p].parent \in spent'
  <2>1. spent \subseteq spent'
    OBVIOUS
  <2>2. HashWrittenOnce
    OBVIOUS
  <2> HIDE DEF TypeInv, StorageInv, LogoutClear
  <2> QED
    BY <2>1, <2>2 DEF HashWrittenOnce
<1>9. UNCHANGED <<token, held>>
  OBVIOUS
<1> HIDE DEF TypeInv, LogoutClear
<1> QED
  BY <1>5, <1>6, <1>7, <1>8, <1>9 DEF HashWrittenOnce

\* Every step of the specification, by the lemmas above.
LEMMA NextStorageInv == TypeInv /\ StorageInv /\ [Next]_vars => StorageInv'
<1> SUFFICES ASSUME TypeInv, StorageInv, [Next]_vars PROVE StorageInv'
  OBVIOUS
<1>1. ASSUME NEW r \in Request,
             Arrive(r) \/ RefreshStep(r) \/ GuardStep(r) \/ LogoutRevoke(r) \/ Fail(r)
      PROVE  StorageInv'
  <2>1. UNCHANGED <<row, token, held, spent>>
    BY <1>1 DEF Arrive, SignIn, RefreshVerify, GuardVerify, RoleFind, RefreshStep,
       RefreshGranted, RefreshDenied, GuardStep, GuardAccept, GuardReject, Serve,
       LogoutRevoke, Fail, history
  <2>2. KeepsWriters
    <3> SUFFICES ASSUME NEW s \in Request, req'[s].at = "updateHash"
                 PROVE  req'[s] = req[s]
      BY DEF KeepsWriters
    <3>1. CASE s # r
      BY <1>1, <3>1 DEF TypeInv, TypeOK, Arrive, SignIn, RefreshVerify, GuardVerify, RoleFind,
         RefreshStep, RefreshGranted, RefreshDenied, GuardStep, GuardAccept, GuardReject,
         Serve, LogoutRevoke, Fail
    <3>2. CASE s = r
      <4>1. req[r] \in RequestState
        BY RequestTyped DEF TypeInv
      <4>2. ~Arrive(r)
        <5>1. ASSUME NEW u \in User, SignIn(r, u) PROVE FALSE
          BY <3>2, <5>1 DEF TypeInv, TypeOK, SignIn, Idle
        <5>2. ASSUME NEW p \in Pair, RefreshVerify(r, p) \/ GuardVerify(r, p) PROVE FALSE
          BY <3>2, <5>2 DEF TypeInv, TypeOK, RefreshVerify, GuardVerify, Idle
        <5>3. ASSUME NEW u \in User, NEW newRole \in Role, RoleFind(r, u, newRole)
              PROVE  FALSE
          BY <3>2, <5>3 DEF TypeInv, TypeOK, RoleFind, Idle
        <5> QED
          BY <5>1, <5>2, <5>3 DEF Arrive
      <4>3. ~(RefreshStep(r) \/ GuardStep(r) \/ LogoutRevoke(r) \/ Fail(r))
        BY <3>2, <4>1 DEF TypeInv, TypeOK, RefreshStep, RefreshGranted, RefreshDenied,
           GuardStep, GuardAccept, GuardReject, Serve, LogoutRevoke, Fail, Idle, RequestState
      <4> QED
        BY <1>1, <4>2, <4>3
    <3> QED
      BY <3>1, <3>2
  <2> QED
    BY <2>1, <2>2, QuietStorageInv
<1>2. ASSUME NEW r \in Request, IssueStep(r) PROVE StorageInv'
  BY <1>2, GenerateTokensStorageInv, UpdateHashStorageInv DEF IssueStep
<1>3. ASSUME NEW r \in Request, LogoutClear(r) PROVE StorageInv'
  BY <1>3, LogoutClearStorageInv
<1>4. ASSUME NEW r \in Request, RoleStep(r) PROVE StorageInv'
  <2>1. /\ UNCHANGED <<token, held, spent>>
        /\ \A u \in User : row'[u].hashedRefreshToken = row[u].hashedRefreshToken
    BY <1>4 DEF TypeInv, TypeOK, Row, RoleStep, RoleUpdate, RoleRevoke, history
  <2>2. KeepsWriters
    BY <1>4, RequestTyped DEF TypeInv, TypeOK, KeepsWriters, RoleStep, RoleUpdate,
       RoleRevoke, Idle, RequestState
  <2> QED
    BY <2>1, <2>2, QuietStorageInv
<1>5. CASE Cleanup \/ Tick \/ Restart \/ UNCHANGED vars
  <2>1. UNCHANGED <<row, token, held, spent>> /\ KeepsWriters
    BY <1>5 DEF Cleanup, Tick, Restart, vars, history, KeepsWriters, Idle
  <2> QED
    BY <2>1, QuietStorageInv
<1> QED
  BY <1>1, <1>2, <1>3, <1>4, <1>5 DEF Next, LogoutStep

\* A refresh token whose hash has left the row never gets back in, whichever
\* sign-ins, refreshes and logouts overlapped (auth.service.ts:209-217, 152).
THEOREM SpentStaysSpent == Spec => []SpentNeverStored
<1>1. TypeInv /\ StorageInv /\ [Next]_vars => (TypeInv /\ StorageInv)'
  BY NextTypeInv, NextStorageInv
<1> QED
  BY InitTypeInv, InitStorageInv, <1>1, PTL DEF Spec, StorageInv

\* Once a client has the successor of a refresh token, the old one cannot be
\* exchanged any more (auth.service.ts:212, updateRefreshTokenHash).
THEOREM RotationSound == Spec => []RotationRetiresParent
<1>1. TypeInv /\ StorageInv /\ [Next]_vars => (TypeInv /\ StorageInv)'
  BY NextTypeInv, NextStorageInv
<1>2. TypeInv /\ StorageInv => RotationRetiresParent
  BY MintedTyped DEF TypeInv, KnownPairs, StorageInv, SpentNeverStored,
     HashWrittenOnce, RotationRetiresParent
<1> QED
  BY InitTypeInv, InitStorageInv, <1>1, <1>2, PTL DEF Spec

---------------------------------------------------------------------------
\* Nothing is minted, so that nothing needs to be covered.
LEMMA InitRevocationsCovered == Init => RevocationsCovered
BY DEF Init, RevocationsCovered, Minted

\* An entry that covered a token still does after the steps that prune.
LEMMA PruningCovers ==
  ASSUME TypeOK, NEW J, NEW j \in TokenId, NEW expiry \in Nat,
         blacklistedTokens' = BL!Pruned(J), now' = now,
         Covered(j, expiry)
  PROVE  Covered(j, expiry)'
<1>1. blacklistedTokens[j] \in Nat /\ now \in Nat
  BY DEF TypeOK
<1>2. \/ blacklistedTokens'[j] = blacklistedTokens[j]
      \/ now > blacklistedTokens[j]
  BY DEF BL!Pruned, BL!Expired
<1> QED
  BY <1>1, <1>2 DEF Covered

\* The ids and the expiry instants of a minted pair.
LEMMA ExpiriesTyped ==
  ASSUME TypeOK, NEW p \in Minted
  PROVE  /\ Access(p) \in TokenId /\ AccessExpiry(p) \in Nat
         /\ Refresh(p) \in TokenId /\ RefreshExpiry(p) \in Nat
BY MintedTyped, SessionsAssumption
   DEF Access, Refresh, TokenId, AccessExpiry, RefreshExpiry, Minted

\* The steps that leave every cover in place, and neither mint nor revoke.
LEMMA QuietRevocations ==
  ASSUME TypeInv, RevocationsCovered,
         UNCHANGED <<token, userTokens, minted, loggedOut, dismissed>>,
         now' \in Nat, now <= now',
         \A p \in Minted :
             /\ Covered(Access(p), AccessExpiry(p)) => Covered(Access(p), AccessExpiry(p))'
             /\ Covered(Refresh(p), RefreshExpiry(p)) => Covered(Refresh(p), RefreshExpiry(p))'
  PROVE  RevocationsCovered'
<1> USE DEF TypeInv
<1>1. Minted' = Minted
  BY DEF Minted
<1>2. \A p \in Minted : token'[p].iat <= now'
  BY MintedTyped DEF RevocationsCovered, TypeOK
<1>3. \A p \in minted : Revocable(p)'
  BY DEF RevocationsCovered, Revocable, KnownPairs
<1>4. /\ \A p \in loggedOut : Covered(Access(p), AccessExpiry(p))'
      /\ \A p \in dismissed \cap minted :
           /\ Covered(Access(p), AccessExpiry(p))'
           /\ Covered(Refresh(p), RefreshExpiry(p))'
  BY DEF RevocationsCovered, KnownPairs
<1> QED
  BY <1>1, <1>2, <1>3, <1>4 DEF RevocationsCovered

\* Lookups and the hourly cleanup drop only entries that nobody needs any more.
LEMMA PruneRevocations ==
  ASSUME TypeInv, RevocationsCovered, NEW J, blacklistedTokens' = BL!Pruned(J),
         UNCHANGED <<token, userTokens, now, minted, loggedOut, dismissed>>
  PROVE  RevocationsCovered'
<1>1. \A p \in Minted :
        /\ Covered(Access(p), AccessExpiry(p)) => Covered(Access(p), AccessExpiry(p))'
        /\ Covered(Refresh(p), RefreshExpiry(p)) => Covered(Refresh(p), RefreshExpiry(p))'
  <2> SUFFICES ASSUME NEW p \in Minted
               PROVE
                 /\ Covered(Access(p), AccessExpiry(p)) => Covered(Access(p), AccessExpiry(p))'
                 /\ Covered(Refresh(p), RefreshExpiry(p)) => Covered(Refresh(p), RefreshExpiry(p))'
    OBVIOUS
  <2>1. /\ AccessExpiry(p)' = AccessExpiry(p) /\ Access(p)' = Access(p)
        /\ RefreshExpiry(p)' = RefreshExpiry(p) /\ Refresh(p)' = Refresh(p)
    BY DEF AccessExpiry, RefreshExpiry, Access, Refresh
  <2> QED
    BY <2>1, ExpiriesTyped, PruningCovers DEF TypeInv, Covered
<1> QED
  BY <1>1, QuietRevocations DEF TypeInv, TypeOK

\* A new pair is tracked, and can be revoked from the start.
LEMMA GenerateTokensRevocations ==
  ASSUME TypeInv, RevocationsCovered, NEW r \in Request, NEW p \in Pair, GenerateTokens(r, p)
  PROVE  RevocationsCovered'
<1> USE SessionsAssumption DEF TypeInv, GenerateTokens
<1> DEFINE u == req[r].user
<1>1. u \in User /\ p \notin Minted /\ now \in Nat
  BY DEF RequestsOK, RequestOK, Minted, TypeOK
<1>2. /\ Minted' \subseteq Minted \cup {p}
      /\ \A q \in Minted : token'[q] = token[q]
      /\ token'[p].iat = now /\ token'[p].user = u
  BY <1>1 DEF TypeOK, Minted
<1>3. /\ \A v \in User : userTokens[v] \subseteq userTokens'[v]
      /\ Access(p) \in userTokens'[u] /\ Refresh(p) \in userTokens'[u]
  BY <1>1 DEF TypeOK, BL!TrackUserTokens, Tracked
<1>4. \A q \in Minted' : token'[q].iat <= now'
  BY <1>1, <1>2 DEF RevocationsCovered
<1>5. ASSUME NEW q \in minted' PROVE Revocable(q)'
  <2>1. CASE q = p
    BY <1>2, <1>3, <2>1 DEF Revocable
  <2>2. CASE q \in minted /\ q \in Minted
    <3>1. token[q].user \in User
      BY <2>2, MintedTyped
    <3> QED
      BY <1>2, <1>3, <2>2, <3>1
         DEF RevocationsCovered, Revocable, Covered, AccessExpiry, RefreshExpiry
  <2> QED
    BY <2>1, <2>2 DEF KnownPairs
<1>6. /\ \A q \in loggedOut : q \in Minted
      /\ \A q \in dismissed : q \in Minted
  BY DEF KnownPairs
<1>7. ASSUME NEW q \in loggedOut' PROVE Covered(Access(q), AccessExpiry(q))'
  BY <1>2, <1>6 DEF RevocationsCovered, Covered, AccessExpiry
<1>8. ASSUME NEW q \in dismissed' \cap minted'
      PROVE  Covered(Access(q), AccessExpiry(q))' /\ Covered(Refresh(q), RefreshExpiry(q))'
  <2>1. q \in Minted /\ q \in minted
    BY <1>1, <1>6
  <2> QED
    BY <1>2, <2>1 DEF RevocationsCovered, Covered, AccessExpiry, RefreshExpiry
<1> QED
  BY <1>4, <1>5, <1>7, <1>8 DEF RevocationsCovered

\* logout lists the access token for exactly what is left of its life.  A rest of
\* nothing becomes seven days, which covers it, too.
LEMMA LogoutRevokeRevocations ==
  ASSUME TypeInv, RevocationsCovered, NEW r \in Request, LogoutRevoke(r)
  PROVE  RevocationsCovered'
<1> USE SessionsAssumption DEF TypeInv, LogoutRevoke
<1> DEFINE p == req[r].pair
           entry == BL!ExpiresAt(RemainingLife(p))
<1>1. p \in held /\ p \in Minted
  BY DEF RequestsOK, RequestOK, KnownPairs
<1>2. /\ AccessExpiry(p) \in Nat /\ now \in Nat
      /\ Access(p) \in TokenId
      /\ token[p].iat <= now
  BY <1>1, ExpiriesTyped DEF TypeOK, RevocationsCovered
<1>3. entry >= AccessExpiry(p)
  BY <1>2 DEF BL!ExpiresAt, RemainingLife
<1>4. /\ blacklistedTokens'[Access(p)] = entry
      /\ \A j \in TokenId \ {Access(p)} : blacklistedTokens'[j] = blacklistedTokens[j]
  BY <1>2 DEF TypeOK, BL!BlacklistToken
<1>5. \A q \in Minted : Refresh(q) \in TokenId \ {Access(p)}
  BY DEF Refresh, Access, TokenId, Minted
<1>6. \A q \in Minted : Access(q) \in TokenId /\ (Access(q) = Access(p) => q = p)
  BY DEF Access, TokenId, Minted
<1>7. ASSUME NEW q \in Minted
      PROVE  /\ Covered(Access(q), AccessExpiry(q)) => Covered(Access(q), AccessExpiry(q))'
             /\ Covered(Refresh(q), RefreshExpiry(q)) => Covered(Refresh(q), RefreshExpiry(q))'
  BY <1>3, <1>4, <1>5, <1>6 DEF Covered, AccessExpiry, RefreshExpiry
<1>8. Covered(Access(p), AccessExpiry(p))'
  BY <1>3, <1>4 DEF Covered, AccessExpiry
<1>9. UNCHANGED <<token, userTokens, now, minted, dismissed>> /\ loggedOut' = loggedOut \cup {p}
  OBVIOUS
<1> QED
  BY <1>7, <1>8, <1>9 DEF RevocationsCovered, Revocable, KnownPairs, Minted

\* blacklistUserTokens lists everything that is tracked for seven days, longer than
\* any token lives (RefreshTTL <= SevenDays).
LEMMA RoleRevokeRevocations ==
  ASSUME TypeInv, RevocationsCovered, NEW r \in Request, RoleRevoke(r)
  PROVE  RevocationsCovered'
<1> USE SessionsAssumption DEF TypeInv, RoleRevoke
<1> DEFINE u == req[r].user
<1>1. u \in User /\ now \in Nat
  BY DEF RequestsOK, RequestOK, TypeOK
<1>2. /\ \A j \in userTokens[u] : blacklistedTokens'[j] = now + SevenDays
      /\ \A j \in TokenId \ userTokens[u] : blacklistedTokens'[j] = blacklistedTokens[j]
      /\ userTokens'[u] = {}
      /\ \A v \in User \ {u} : userTokens'[v] = userTokens[v]
  BY <1>1 DEF TypeOK, BL!BlacklistUserTokens
<1>3. ASSUME NEW q \in Minted
      PROVE  /\ now + SevenDays >= AccessExpiry(q)
             /\ now + SevenDays >= RefreshExpiry(q)
  BY <1>1, <1>3, MintedTyped DEF RevocationsCovered, AccessExpiry, RefreshExpiry
<1>4. ASSUME NEW q \in Minted
      PROVE  /\ Covered(Access(q), AccessExpiry(q)) \/ Access(q) \in userTokens[u]
                    => Covered(Access(q), AccessExpiry(q))'
             /\ Covered(Refresh(q), RefreshExpiry(q)) \/ Refresh(q) \in userTokens[u]
                    => Covered(Refresh(q), RefreshExpiry(q))'
  <2>1. Access(q) \in TokenId /\ Refresh(q) \in TokenId
    BY ExpiriesTyped
  <2> QED
    BY <1>2, <1>3, <2>1 DEF Covered, AccessExpiry, RefreshExpiry
<1>5. /\ UNCHANGED <<token, now, minted, loggedOut>> /\ Minted' = Minted
      /\ dismissed' = dismissed \cup {q \in held : token[q].user = u}
  BY DEF Minted
<1>6. \A q \in Minted' : token'[q].iat <= now'
  BY <1>5 DEF RevocationsCovered
<1>7. ASSUME NEW q \in minted' PROVE Revocable(q)'
  <2>1. q \in Minted /\ q \in minted /\ token[q].user \in User
    BY <1>5, MintedTyped DEF KnownPairs
  <2>2. Revocable(q)
    BY <2>1 DEF RevocationsCovered
  <2>3. CASE token[q].user = u
    BY <1>4, <2>1, <2>2, <2>3 DEF Revocable
  <2>4. CASE token[q].user # u
    <3>1. userTokens'[token'[q].user] = userTokens[token[q].user]
      BY <1>2, <1>5, <2>1, <2>4
    <3> QED
      BY <1>4, <2>1, <2>2, <3>1 DEF Revocable
  <2> QED
    BY <2>3, <2>4
<1>8. ASSUME NEW q \in loggedOut' PROVE Covered(Access(q), AccessExpiry(q))'
  BY <1>4, <1>5 DEF RevocationsCovered, KnownPairs
<1>9. ASSUME NEW q \in dismissed' \cap minted'
      PROVE  Covered(Access(q), AccessExpiry(q))' /\ Covered(Refresh(q), RefreshExpiry(q))'
  <2>1. q \in Minted /\ q \in minted
    BY <1>5 DEF KnownPairs
  <2>2. CASE q \in dismissed
    BY <1>4, <2>1, <2>2 DEF RevocationsCovered
  <2>3. CASE token[q].user = u
    <3>1. Revocable(q)
      BY <2>1 DEF RevocationsCovered
    <3> QED
      BY <1>4, <2>1, <2>3, <3>1 DEF Revocable
  <2> QED
    BY <1>5, <2>2, <2>3
<1> QED
  BY <1>6, <1>7, <1>8, <1>9 DEF RevocationsCovered

\* Every step of the specification, by the lemmas above.
LEMMA NextRevocationsCovered ==
  TypeInv /\ RevocationsCovered /\ [Next]_vars => RevocationsCovered'
<1> SUFFICES ASSUME TypeInv, RevocationsCovered, [Next]_vars PROVE RevocationsCovered'
  OBVIOUS
<1>1. ASSUME UNCHANGED <<token, blacklistedTokens, userTokens, now, minted, loggedOut, dismissed>>
      PROVE  RevocationsCovered'
  BY <1>1 DEF RevocationsCovered, Minted, Revocable, Covered, AccessExpiry, RefreshExpiry
<1>2. ASSUME NEW r \in Request, Arrive(r) PROVE RevocationsCovered'
  <2>1. ASSUME NEW u \in User, SignIn(r, u) PROVE RevocationsCovered'
    BY <1>1, <2>1 DEF SignIn, blacklist, history
  <2>2. ASSUME NEW p \in Pair, RefreshVerify(r, p) PROVE RevocationsCovered'
    BY <2>2, PruneRevocations DEF RefreshVerify, BL!LookUp, history
  <2>3. ASSUME NEW p \in Pair, GuardVerify(r, p) PROVE RevocationsCovered'
    BY <2>3, PruneRevocations DEF GuardVerify, BL!LookUp, history
  <2>4. ASSUME NEW u \in User, NEW newRole \in Role, RoleFind(r, u, newRole)
        PROVE  RevocationsCovered'
    BY <1>1, <2>4 DEF RoleFind, blacklist, history
  <2> QED
    BY <1>2, <2>1, <2>2, <2>3, <2>4 DEF Arrive
<1>3. ASSUME NEW r \in Request, IssueStep(r) PROVE RevocationsCovered'
  BY <1>1, <1>3, GenerateTokensRevocations DEF IssueStep, UpdateHash, blacklist
<1>4. ASSUME NEW r \in Request, LogoutStep(r) PROVE RevocationsCovered'
  BY <1>1, <1>4, LogoutRevokeRevocations DEF LogoutStep, LogoutClear, blacklist
<1>5. ASSUME NEW r \in Request, RoleStep(r) PROVE RevocationsCovered'
  BY <1>1, <1>5, RoleRevokeRevocations DEF RoleStep, RoleUpdate, blacklist, history
<1>6. ASSUME NEW r \in Request, RefreshStep(r) \/ GuardStep(r) \/ Fail(r)
      PROVE  RevocationsCovered'
  BY <1>1, <1>6 DEF RefreshStep, RefreshGranted, RefreshDenied, GuardStep, GuardAccept,
     GuardReject, Serve, Fail, blacklist, history
<1>7. CASE Cleanup
  BY <1>7, PruneRevocations DEF Cleanup, BL!CleanupExpiredTokens, history
<1>8. CASE Tick
  <2>1. /\ UNCHANGED <<token, blacklistedTokens, userTokens, minted, loggedOut, dismissed>>
        /\ now \in Nat /\ now' = now + 1
    BY <1>8 DEF Tick, BL!Tick, history, TypeInv, TypeOK
  <2>2. ASSUME NEW p \in Minted
        PROVE
          /\ Covered(Access(p), AccessExpiry(p)) => Covered(Access(p), AccessExpiry(p))'
          /\ Covered(Refresh(p), RefreshExpiry(p)) => Covered(Refresh(p), RefreshExpiry(p))'
    BY <2>1, ExpiriesTyped DEF TypeInv, Covered, AccessExpiry, RefreshExpiry
  <2> QED
    BY <2>1, <2>2, QuietRevocations
<1>9. CASE Restart
  BY <1>9 DEF Restart, RevocationsCovered, Minted
<1>10. CASE UNCHANGED vars
  BY <1>1, <1>10 DEF vars
<1> QED
  BY <1>2, <1>3, <1>4, <1>5, <1>6, <1>7, <1>8, <1>9, <1>10 DEF Next

\* An entry that covers a live token is one the lookup finds.
LEMMA CoveredRefused ==
  ASSUME TypeOK, NEW j \in TokenId, NEW expiry \in Nat, Covered(j, expiry)
  PROVE  now >= expiry \/ BL!IsListed(j)
<1>1. blacklistedTokens[j] \in Nat /\ now \in Nat
  BY DEF TypeOK
<1> QED
  BY <1>1 DEF Covered, BL!IsListed, BL!Expired, BL!Missing

\* An access token that this process logged out is refused until it expires
\* (auth.service.ts:133-143, token-blacklist.service.ts:22-46).
THEOREM LogoutSound == Spec => []LoggedOutRefused
<1>1. TypeInv /\ RevocationsCovered /\ [Next]_vars => (TypeInv /\ RevocationsCovered)'
  BY NextTypeInv, NextRevocationsCovered
<1>2. TypeInv /\ RevocationsCovered => LoggedOutRefused
  BY ExpiriesTyped, CoveredRefused
     DEF TypeInv, KnownPairs, RevocationsCovered, LoggedOutRefused, AccessRefused
<1> QED
  BY InitTypeInv, InitRevocationsCovered, <1>1, <1>2, PTL DEF Spec

\* After a role change, both tokens of every pair this process had issued to
\* the user are refused until they expire, provided no refresh token lives
\* longer than the blacklist's seven days (user-role.service.ts:59,
\* token-blacklist.service.ts:56-80).
THEOREM DismissalSound == Spec => []DismissedRefused
<1>1. TypeInv /\ RevocationsCovered /\ [Next]_vars => (TypeInv /\ RevocationsCovered)'
  BY NextTypeInv, NextRevocationsCovered
<1>2. TypeInv /\ RevocationsCovered => DismissedRefused
  BY ExpiriesTyped, CoveredRefused
     DEF TypeInv, KnownPairs, RevocationsCovered, DismissedRefused, AccessRefused, RefreshRefused
<1> QED
  BY InitTypeInv, InitRevocationsCovered, <1>1, <1>2, PTL DEF Spec
=============================================================================
