---------------------------- MODULE AccountsProofs ----------------------------
(* Who becomes an administrator by signing up, for any number of addresses    *)
(* and of overlapping requests; and that TokenBlacklist implements            *)
(* RevocationList, for any tokens, users, lifetimes and clock.  The two share *)
(* no name, and neither argument rests on the other.                          *)
EXTENDS Accounts, TokenBlacklist, FiniteSetTheorems, TLAPS

(***************************************************************************)
(* Accounts                                                                *)
(***************************************************************************)
IInv == AccountsTypeOK /\ BootstrapInv /\ FirstIsAdministrator

\* A count of zero means an empty table.
LEMMA CountZero == (Cardinality(Registered) = 0) <=> (Registered = {})
<1>1. IsFiniteSet(Registered)
  BY AccountsAssumption, FS_Subset DEF Registered
<1> QED
  BY <1>1, FS_EmptySet

\* A step that leaves the table alone keeps the invariant, if the sign-ups it
\* starts or moves on carry ADMIN as long as the table is empty.
LEMMA QuietStep ==
  ASSUME IInv, UNCHANGED <<role, first, bornAdmin>>,
         req' \in [Request -> RequestState],
         \A r \in Request : req'[r].at # "idle"
                                => req'[r].email # None /\ req'[r].role # None,
         first = None => \A r \in Request : req'[r].at \in {"findOne", "create"}
                                                => req'[r].role = "ADMIN",
         \A r \in Request : req'[r].at = "updateRole" => req'[r].email \in Registered
  PROVE  IInv'
BY DEF IInv, AccountsTypeOK, BootstrapInv, FirstIsAdministrator, Registered

\* The invariant is inductive: every step of every request keeps it.
LEMMA NextIInv == IInv /\ [AccountsNext]_accountVars => IInv'
<1> SUFFICES ASSUME IInv, [AccountsNext]_accountVars PROVE IInv'
  OBVIOUS
<1> USE AccountsAssumption
<1>0. /\ AccountsTypeOK /\ BootstrapInv /\ FirstIsAdministrator
      /\ req \in [Request -> RequestState]
      /\ Idle \in [at : Step \cup {"idle"}, email : Email \cup {None},
                   role : Role \cup {None}]
  BY DEF IInv, AccountsTypeOK, Idle
<1>1. ASSUME NEW r \in Request, NEW e \in Email, SignUpCount(r, e)
      PROVE  IInv'
  <2>1. InitialRole(Cardinality(Registered)) \in Role
        /\ (first = None => InitialRole(Cardinality(Registered)) = "ADMIN")
    BY <1>0, CountZero DEF InitialRole, Role, BootstrapInv
  <2> DEFINE q == [at |-> "findOne", email |-> e,
                   role |-> InitialRole(Cardinality(Registered))]
  <2>2. q \in RequestState /\ q.email # None /\ q.role # None /\ q.at = "findOne"
    BY <2>1 DEF RequestState, Step
  <2>3. req' = [req EXCEPT ![r] = q] /\ (first = None => q.role = "ADMIN")
    BY <1>1, <2>1 DEF SignUpCount
  <2>4. UNCHANGED <<role, first, bornAdmin>>
    BY <1>1 DEF SignUpCount
  <2> HIDE DEF q
  <2> QED
    BY <1>0, <2>2, <2>3, <2>4, QuietStep DEF AccountsTypeOK, BootstrapInv
<1>2. ASSUME NEW r \in Request, SignUpFind(r)
      PROVE  IInv'
  <2>1. UNCHANGED <<role, first, bornAdmin>>
    BY <1>2 DEF SignUpFind
  <2>2. req[r] \in RequestState /\ req[r].email # None /\ req[r].role # None
    BY <1>0, <1>2 DEF SignUpFind, AccountsTypeOK
  <2>3. CASE req' = [req EXCEPT ![r] = Idle]
    BY <1>0, <2>1, <2>3, QuietStep DEF AccountsTypeOK, BootstrapInv, Idle, RequestState
  <2>4. CASE req' = [req EXCEPT ![r].at = "create"]
    BY <1>0, <1>2, <2>1, <2>2, <2>4, QuietStep
    DEF AccountsTypeOK, BootstrapInv, RequestState, Step, SignUpFind
  <2> QED
    BY <1>2, <2>3, <2>4 DEF SignUpFind
<1>3. ASSUME NEW r \in Request, SignUpCreate(r)
      PROVE  IInv'
  <2>1. req' = [req EXCEPT ![r] = Idle] /\ req[r].at = "create"
    BY <1>3 DEF SignUpCreate
  <2>2. /\ req[r].email \in Email /\ req[r].role \in Role /\ req[r].role # None
    BY <1>0, <2>1 DEF AccountsTypeOK, RequestState
  <2>3. CASE req[r].email \in Registered
    <3>1. UNCHANGED <<role, first, bornAdmin>>
      BY <1>3, <2>3 DEF SignUpCreate
    <3> QED
      BY <1>0, <2>1, <3>1, QuietStep DEF AccountsTypeOK, BootstrapInv, Idle, RequestState
  <2>4. CASE req[r].email \notin Registered
    <3> DEFINE e == req[r].email
    <3>1. /\ role' = [role EXCEPT ![e] = req[r].role]
          /\ first' = IF first = None THEN e ELSE first
          /\ bornAdmin' = IF req[r].role = "ADMIN" THEN bornAdmin \cup {e} ELSE bornAdmin
      BY <1>3, <2>4 DEF SignUpCreate
    <3>2. Registered' = Registered \cup {e}
      BY <1>0, <2>2, <3>1 DEF AccountsTypeOK, Registered
    <3>3. first' \in Email /\ first' # None
      BY <1>0, <2>2, <3>1 DEF AccountsTypeOK
    <3>4. FirstIsAdministrator'
      BY <1>0, <2>1, <3>1 DEF FirstIsAdministrator, BootstrapInv
    <3>5. BootstrapInv'
      BY <1>0, <2>1, <3>2, <3>3 DEF BootstrapInv, AccountsTypeOK, Idle
    <3>6. \A s \in Request : req'[s].at # "idle" => req'[s].email # None /\ req'[s].role # None
      BY <1>0, <2>1 DEF AccountsTypeOK, Idle
    <3>7. req' \in [Request -> RequestState]
      BY <1>0, <2>1 DEF RequestState
    <3>8. role' \in [Email -> Role \cup {None}]
      BY <1>0, <2>2, <3>1 DEF AccountsTypeOK
    <3>9. AccountsTypeOK'
      BY <1>0, <3>1, <3>2, <3>3, <3>6, <3>7, <3>8 DEF AccountsTypeOK
    <3> QED
      BY <3>4, <3>5, <3>9 DEF IInv
  <2> QED
    BY <2>3, <2>4
<1>4. ASSUME NEW r \in Request, NEW e \in Email, NEW newRole \in Role,
             RoleRequested(r, e, newRole)
      PROVE  IInv'
  <2> DEFINE q == [at |-> "findUser", email |-> e, role |-> newRole]
  <2>1. q \in RequestState /\ q.email # None /\ q.role # None
        /\ q.at = "findUser"
    BY DEF RequestState, Step
  <2>2. req' = [req EXCEPT ![r] = q] /\ UNCHANGED <<role, first, bornAdmin>>
    BY <1>4 DEF RoleRequested
  <2> HIDE DEF q
  <2> QED
    BY <1>0, <2>1, <2>2, QuietStep DEF AccountsTypeOK, BootstrapInv
<1>5. ASSUME NEW r \in Request, RoleFind(r)
      PROVE  IInv'
  <2>1. UNCHANGED <<role, first, bornAdmin>>
    BY <1>5 DEF RoleFind
  <2>2. req[r] \in RequestState /\ req[r].email # None /\ req[r].role # None
    BY <1>0, <1>5 DEF RoleFind, AccountsTypeOK
  <2>3. CASE role[req[r].email] \in {None, req[r].role}
    <3>1. req' = [req EXCEPT ![r] = Idle]
      BY <1>5, <2>3 DEF RoleFind
    <3> QED
      BY <1>0, <2>1, <3>1, QuietStep DEF AccountsTypeOK, BootstrapInv, Idle, RequestState
  <2>4. CASE role[req[r].email] \notin {None, req[r].role}
    <3> DEFINE q == [req[r] EXCEPT !.at = "updateRole"]
    <3>1. req' = [req EXCEPT ![r] = q]
      BY <1>5, <2>4 DEF RoleFind
    <3>2. /\ q \in RequestState /\ q.at = "updateRole"
          /\ q.email # None /\ q.role # None /\ q.email \in Registered
      BY <2>2, <2>4 DEF RequestState, Step, Registered
    <3> HIDE DEF q
    <3> QED
      BY <1>0, <2>1, <3>1, <3>2, QuietStep DEF AccountsTypeOK, BootstrapInv
  <2> QED
    BY <2>3, <2>4
<1>6. ASSUME NEW r \in Request, RoleUpdate(r)
      PROVE  IInv'
  <2>0. /\ req[r].at = "updateRole" /\ req[r].email \in Email
        /\ req[r].role \in Role
    BY <1>0, <1>6 DEF RoleUpdate, AccountsTypeOK, RequestState
  <2>1. req' = [req EXCEPT ![r] = Idle]
    BY <1>6 DEF RoleUpdate
  <2>2. role' = [role EXCEPT ![req[r].email] = req[r].role]
        /\ UNCHANGED <<first, bornAdmin>>
    BY <1>6 DEF RoleUpdate
  <2>3. req[r].email \in Registered
    BY <1>0, <2>0 DEF BootstrapInv
  <2>4. Registered' = Registered
    BY <1>0, <2>0, <2>2, <2>3 DEF AccountsTypeOK, Registered, Role
  <2>5. AccountsTypeOK'
    <3>1. role' \in [Email -> Role \cup {None}]
      BY <1>0, <2>0, <2>2 DEF AccountsTypeOK
    <3>2. req' \in [Request -> RequestState]
      BY <1>0, <2>1 DEF RequestState
    <3> QED
      BY <1>0, <2>1, <2>2, <2>4, <3>1, <3>2 DEF AccountsTypeOK, Idle
  <2>6. BootstrapInv'
    BY <1>0, <2>1, <2>2, <2>4 DEF BootstrapInv, AccountsTypeOK, Idle
  <2>7. FirstIsAdministrator'
    BY <1>0, <2>2 DEF FirstIsAdministrator
  <2> QED
    BY <2>5, <2>6, <2>7 DEF IInv
<1>7. ASSUME NEW r \in Request, Fail(r)
      PROVE  IInv'
  BY <1>0, <1>7, QuietStep DEF Fail, AccountsTypeOK, BootstrapInv, Idle, RequestState
<1>8. CASE UNCHANGED accountVars
  BY <1>0, <1>8, QuietStep DEF accountVars, AccountsTypeOK, BootstrapInv
<1> QED
  BY <1>1, <1>2, <1>3, <1>4, <1>5, <1>6, <1>7, <1>8 DEF AccountsNext

LEMMA InitIInv == AccountsInit => IInv
BY DEF AccountsInit, IInv, AccountsTypeOK, BootstrapInv, FirstIsAdministrator, Registered,
       RequestState, Idle

\* The first account is an administrator's (auth.service.ts:94-95), whatever
\* overlaps or fails.
THEOREM FirstAccountAdministers == AccountsSpec => [](AccountsTypeOK /\ FirstIsAdministrator)
<1>1. IInv => AccountsTypeOK /\ FirstIsAdministrator
  BY DEF IInv
<1> QED
  BY <1>1, InitIInv, NextIInv, PTL DEF AccountsSpec

\* No sign-up touches an account that exists: its role changes by the role change
\* of an administrator that names it, and to the role that one asks for.
THEOREM SignUpsKeepAccounts == AccountsSpec => SignUpKeepsAccounts
<1> DEFINE Kept == \A e \in Registered :
               role'[e] # role[e] =>
                   \E r \in Request : /\ req[r].at = "updateRole"
                                      /\ req[r].email = e /\ role'[e] = req[r].role
<1>1. ASSUME IInv, AccountsNext PROVE Kept
  <2> SUFFICES ASSUME NEW e \in Registered, role'[e] # role[e]
               PROVE  \E r \in Request : /\ req[r].at = "updateRole"
                                         /\ req[r].email = e /\ role'[e] = req[r].role
    OBVIOUS
  <2>1. role \in [Email -> Role \cup {None}] /\ e \in Email
    BY <1>1 DEF IInv, AccountsTypeOK, Registered
  <2>2. ~ \E r \in Request : SignUpCreate(r)
    BY <2>1 DEF SignUpCreate
  <2>3. PICK r \in Request : RoleUpdate(r)
    BY <1>1, <2>2 DEF AccountsNext, SignUpCount, SignUpFind, RoleRequested, RoleFind, Fail
  <2>4. req[r].email = e /\ role'[e] = req[r].role
    BY <2>1, <2>3 DEF RoleUpdate
  <2> QED
    BY <2>3, <2>4 DEF RoleUpdate
<1>2. IInv /\ [AccountsNext]_accountVars => [Kept]_accountVars
  BY <1>1
<1> QED
  BY <1>2, InitIInv, NextIInv, PTL DEF AccountsSpec, SignUpKeepsAccounts

(***************************************************************************)
(* The token blacklist                                                     *)
(***************************************************************************)
\* Deleting expired entries keeps the type of the map.
LEMMA PrunedTyped ==
  ASSUME TypeOK, NEW J
  PROVE  Pruned(J) \in [TokenId -> Nat]
  BY DEF TypeOK, Pruned, Missing

\* The clock never runs backwards and the two maps keep their types, whatever
\* the callers do.
THEOREM BlacklistTypes == Spec => []TypeOK
<1> USE BlacklistAssumption
<1>1. Init => TypeOK
  BY DEF Init, TypeOK, Missing
<1>2. TypeOK /\ [Next]_vars => TypeOK'
  <2> SUFFICES ASSUME TypeOK, [Next]_vars
               PROVE  TypeOK'
    OBVIOUS
  <2>1. CASE Tick
    BY <2>1 DEF TypeOK, Tick
  <2>2. ASSUME NEW j \in TokenId, NEW ttl \in 0..MaxTtl, Revoke(j, ttl)
        PROVE  TypeOK'
    BY <2>2 DEF TypeOK, Revoke, BlacklistToken, ExpiresAt
  <2>3. ASSUME NEW j \in TokenId, Query(j)
        PROVE  TypeOK'
    BY <2>3, PrunedTyped DEF TypeOK, Query, LookUp
  <2>4. ASSUME NEW u \in User, NEW j \in TokenId, Track(u, j)
        PROVE  TypeOK'
    BY <2>4 DEF TypeOK, Track, TrackUserTokens
  <2>5. ASSUME NEW u \in User, RevokeAll(u)
        PROVE  TypeOK'
    BY <2>5 DEF TypeOK, RevokeAll, BlacklistUserTokens
  <2>6. CASE Cleanup
    BY <2>6, PrunedTyped DEF TypeOK, Cleanup, CleanupExpiredTokens
  <2>7. CASE Destroy
    BY <2>7 DEF TypeOK, Destroy, OnModuleDestroy, Missing
  <2>8. CASE UNCHANGED vars
    BY <2>8 DEF TypeOK, vars
  <2> QED
    BY <2>1, <2>2, <2>3, <2>4, <2>5, <2>6, <2>7, <2>8 DEF Next
<1> QED
  BY <1>1, <1>2, PTL DEF Spec

---------------------------------------------------------------------------
\* Nobody can see an expired entry being deleted.
LEMMA DeletionInvisible ==
  ASSUME TypeOK, NEW J,
         blacklistedTokens' = Pruned(J), now' = now
  PROVE  Visible' = Visible
<1> SUFFICES ASSUME NEW j \in TokenId
             PROVE  IsListed(j)' = IsListed(j)
                    /\ (IsListed(j) => blacklistedTokens'[j] = blacklistedTokens[j])
  BY DEF Visible
<1> QED
  BY DEF TypeOK, Pruned, IsListed, Expired, Missing

\* The visible list is typed as RevocationList wants it.
LEMMA VisibleTyped ==
  ASSUME TypeOK
  PROVE  Visible \in [TokenId -> Nat]
  BY DEF TypeOK, Visible

\* New entries never lie in the past, and never look like a missing one.
LEMMA RevokingIsRevoke ==
  ASSUME TypeOK, TypeOK', now' = now,
         NEW J \in SUBSET TokenId, NEW d \in Nat, now <= d, d # 0,
         blacklistedTokens' =
             [j \in TokenId |-> IF j \in J THEN d ELSE blacklistedTokens[j]]
  PROVE  Promise!Revoke
<1>1. Visible' \in [TokenId -> Nat]
  BY DEF TypeOK, Visible
<1>2. ASSUME NEW j \in TokenId, Visible'[j] # Visible[j]
      PROVE  Visible'[j] # 0 /\ now <= Visible'[j]
  BY <1>2 DEF TypeOK, Visible, IsListed, Expired, Missing
<1> QED
  BY <1>1, <1>2 DEF Promise!Revoke

\* Every step of the service is a step of RevocationList, or invisible.
LEMMA StepImplements ==
  ASSUME TypeOK, TypeOK', [Next]_vars
  PROVE  [Promise!Next]_(Promise!vars)
<1> USE BlacklistAssumption
<1>1. CASE Tick
  <2>1. now' = now + 1 /\ blacklistedTokens' = blacklistedTokens
    BY <1>1 DEF Tick
  <2>2. ASSUME NEW j \in TokenId
        PROVE  Visible'[j] = IF Visible[j] < now' THEN 0 ELSE Visible[j]
    BY <2>1 DEF TypeOK, Visible, IsListed, Expired, Missing
  <2>3. Visible' = [j \in TokenId |-> IF Visible[j] < now' THEN 0 ELSE Visible[j]]
    BY <2>2 DEF Visible
  <2> QED
    BY <2>1, <2>3 DEF Promise!Next, Promise!Tick
<1>2. ASSUME NEW j \in TokenId, NEW ttl \in 0..MaxTtl, Revoke(j, ttl)
      PROVE  Promise!Next
  <2>1. /\ ExpiresAt(ttl) \in Nat /\ now <= ExpiresAt(ttl) /\ ExpiresAt(ttl) # 0
        /\ now' = now
    BY <1>2 DEF TypeOK, ExpiresAt, Revoke
  <2>2. blacklistedTokens' = [i \in TokenId |-> IF i \in {j} THEN ExpiresAt(ttl)
                                                  ELSE blacklistedTokens[i]]
    BY <1>2 DEF TypeOK, Revoke, BlacklistToken
  <2> QED
    BY <2>1, <2>2, RevokingIsRevoke DEF Promise!Next
<1>3. ASSUME NEW j \in TokenId, Query(j)
      PROVE  UNCHANGED Promise!vars
  BY <1>3, DeletionInvisible DEF Query, LookUp, Promise!vars
<1>4. ASSUME NEW u \in User, NEW j \in TokenId, Track(u, j)
      PROVE  UNCHANGED Promise!vars
  BY <1>4 DEF Track, Promise!vars, Visible, IsListed, Expired, Missing
<1>5. ASSUME NEW u \in User, RevokeAll(u)
      PROVE  Promise!Next
  <2>1. /\ now + SevenDays \in Nat /\ now <= now + SevenDays /\ now + SevenDays # 0
        /\ now' = now
        /\ userTokens[u] \in SUBSET TokenId
    BY <1>5 DEF TypeOK, RevokeAll
  <2> QED
    BY <1>5, <2>1, RevokingIsRevoke
    DEF RevokeAll, BlacklistUserTokens, Promise!Next
<1>6. CASE Cleanup
  BY <1>6, DeletionInvisible DEF Cleanup, CleanupExpiredTokens, Promise!vars
<1>7. CASE Destroy
  BY <1>7 DEF Destroy, OnModuleDestroy, Missing, Visible, IsListed,
              Promise!Next, Promise!Forget
<1>8. CASE UNCHANGED vars
  BY <1>8 DEF vars, Promise!vars, Visible, IsListed, Expired, Missing
<1> QED
  BY <1>1, <1>2, <1>3, <1>4, <1>5, <1>6, <1>7, <1>8 DEF Next

\* The service keeps its promise: lazy deletion and the hourly cleanup never
\* un-revoke a token, and no token stays revoked past its deadline.
THEOREM BlacklistImplementsPromise == Spec => ImplementsPromise
<1>1. Init => Promise!Init
  BY DEF Init, Promise!Init, Visible, IsListed, Missing
<1>2. TypeOK /\ TypeOK' /\ [Next]_vars => [Promise!Next]_(Promise!vars)
  BY StepImplements
<1> QED
  BY <1>1, <1>2, BlacklistTypes, PTL DEF Spec, ImplementsPromise
===============================================================================
