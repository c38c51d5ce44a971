------------------------------ MODULE Accounts ------------------------------
(* Sign-up and the role of a new account (auth/auth.service.ts, signUp), with *)
(* the role changes of user-role.service.ts.  Whoever signs up while the     *)
(* table is empty becomes the administrator; everybody else starts as        *)
(* PENDING, and only an administrator changes roles.  The count, the lookup  *)
(* and the insert are three database calls, and bcrypt hashes the password   *)
(* between the last two, so sign-ups overlap freely.                         *)
EXTENDS Naturals, FiniteSets

CONSTANTS
    Email,          \* the addresses that people sign up with
    Request,        \* requests that can be in flight at once
    None            \* no row, no value

VARIABLES
    role,           \* role[e]: the role in the row with email e, None if no row
    req,            \* the requests in flight
    first,          \* history: the first account ever created
    bornAdmin       \* history: accounts that were created as ADMIN

accountVars == <<role, req, first, bornAdmin>>

Role == {"ADMIN", "ENABLER", "COLLABORATOR", "PENDING"}

ASSUME AccountsAssumption ==
    /\ IsFiniteSet(Email)
    /\ None \notin Email \cup Role

Step == {"findOne", "create", "findUser", "updateRole"}

RequestState == [at : Step \cup {"idle"}, email : Email \cup {None},
                 role : Role \cup {None}]

Idle == [at |-> "idle", email |-> None, role |-> None]

Registered == {e \in Email : role[e] # None}

AccountsTypeOK ==
    /\ role \in [Email -> Role \cup {None}]
    /\ req \in [Request -> RequestState]
    /\ first \in Email \cup {None}
    /\ bornAdmin \subseteq Registered
    /\ \A r \in Request : req[r].at # "idle" => req[r].email # None /\ req[r].role # None

AccountsInit ==
    /\ role = [e \in Email |-> None]
    /\ req = [r \in Request |-> Idle]
    /\ first = None
    /\ bornAdmin = {}

---------------------------------------------------------------------------
\* Mutant: the count is taken with the new account in mind.
InitialRoleOffByOne(count) == IF count = 1 THEN "ADMIN" ELSE "PENDING"

InitialRole(count) == IF count = 0 THEN "ADMIN" ELSE "PENDING"

\* signUp: the count decides the role there and then.
SignUpCount(r, e) ==
    /\ req[r] = Idle
    /\ req' = [req EXCEPT ![r] = [at |-> "findOne", email |-> e,
                                  role |-> InitialRole(Cardinality(Registered))]]
    /\ UNCHANGED <<role, first, bornAdmin>>

\* findOne: a known address is a conflict.
SignUpFind(r) ==
    /\ req[r].at = "findOne"
    /\ req' = IF req[r].email \in Registered
                THEN [req EXCEPT ![r] = Idle]
                ELSE [req EXCEPT ![r].at = "create"]
    /\ UNCHANGED <<role, first, bornAdmin>>

\* Mutant: an insert that overwrites the row of whoever was faster.
SignUpCreateUpserts(r) ==
    LET e == req[r].email IN
    /\ req[r].at = "create"
    /\ role' = [role EXCEPT ![e] = req[r].role]
    /\ first' = IF first = None THEN e ELSE first
    /\ bornAdmin' = IF req[r].role = "ADMIN" THEN bornAdmin \cup {e} ELSE bornAdmin
    /\ req' = [req EXCEPT ![r] = Idle]

\* create: the role is the one decided at the count.  The unique index on
\* email refuses the second of two rows.
SignUpCreate(r) ==
    LET e == req[r].email IN
    /\ req[r].at = "create"
    /\ IF e \in Registered
         THEN UNCHANGED <<role, first, bornAdmin>>
         ELSE /\ role' = [role EXCEPT ![e] = req[r].role]
              /\ first' = IF first = None THEN e ELSE first
              /\ bornAdmin' = IF req[r].role = "ADMIN" THEN bornAdmin \cup {e}
                                                       ELSE bornAdmin
    /\ req' = [req EXCEPT ![r] = Idle]

---------------------------------------------------------------------------
\* updateUserRole: @Roles(ADMIN) lets administrators in, by the role their
\* row has now; nothing keeps them from naming themselves.
RoleRequested(r, e, newRole) ==
    /\ req[r] = Idle
    /\ \E admin \in Registered : role[admin] = "ADMIN"
    /\ req' = [req EXCEPT ![r] = [at |-> "findUser", email |-> e, role |-> newRole]]
    /\ UNCHANGED <<role, first, bornAdmin>>

\* findUnique: an unknown user, or one with this role already, is an error.
RoleFind(r) ==
    /\ req[r].at = "findUser"
    /\ req' = IF role[req[r].email] \in {None, req[r].role}
                THEN [req EXCEPT ![r] = Idle]
                ELSE [req EXCEPT ![r].at = "updateRole"]
    /\ UNCHANGED <<role, first, bornAdmin>>

RoleUpdate(r) ==
    /\ req[r].at = "updateRole"
    /\ role' = [role EXCEPT ![req[r].email] = req[r].role]
    /\ req' = [req EXCEPT ![r] = Idle]
    /\ UNCHANGED <<first, bornAdmin>>

\* Any of the database calls fails, and the request with it.
Fail(r) ==
    /\ req[r] # Idle
    /\ req' = [req EXCEPT ![r] = Idle]
    /\ UNCHANGED <<role, first, bornAdmin>>

AccountsNext ==
    \E r \in Request :
        \/ \E e \in Email : SignUpCount(r, e)
        \/ SignUpFind(r)
        \/ SignUpCreate(r)
        \/ \E e \in Email, newRole \in Role : RoleRequested(r, e, newRole)
        \/ RoleFind(r)
        \/ RoleUpdate(r)
        \/ Fail(r)

AccountsSpec == AccountsInit /\ [][AccountsNext]_accountVars

---------------------------------------------------------------------------
\* However sign-ups overlap or fail, the account that ends up first in the
\* table is an administrator: nobody starts a system that nobody administers.
FirstIsAdministrator == first # None => first \in bornAdmin

\* Only an administrator's role change alters the role of an account that
\* exists: a sign-up that loses the race for an address does not.
SignUpKeepsAccounts ==
    [][\A e \in Registered :
           role'[e] # role[e] =>
               \E r \in Request : /\ req[r].at = "updateRole"
                                  /\ req[r].email = e /\ role'[e] = req[r].role]_accountVars

\* Why it is: a sign-up counts zero accounts only before the first, so until
\* then every sign-up in flight carries ADMIN.  (The inductive invariant of
\* AccountsProofs.)
BootstrapInv ==
    /\ first = None <=> Registered = {}
    /\ first = None =>
          \A r \in Request : req[r].at \in {"findOne", "create"} => req[r].role = "ADMIN"
    /\ \A r \in Request : req[r].at = "updateRole" => req[r].email \in Registered

\* auth.service.spec.ts:183, "should create subsequent users as PENDING": only
\* the first account is created as an administrator.
SubsequentUsersPending == bornAdmin \subseteq {first}
=============================================================================
