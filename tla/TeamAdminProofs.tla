--------------------------- MODULE TeamAdminProofs ---------------------------
(* What errors and lists say is true, for any number of operations, fields,  *)
(* users and teams, and whatever the synchronisation does in between.        *)
EXTENDS TeamAdmin, FiniteSetTheorems, FunctionTheorems, TLAPS

Phase == {"idle", "field", "write", "load", "projects", "page", "done"}

\* The part of the type invariant that the argument needs.
Shape ==
    /\ pc \in [Operation -> Phase]
    /\ field \in [Operation -> Field]
    /\ reply = [o \in Operation |-> reply[o]]
    /\ teamsOf = [o \in Operation |-> teamsOf[o]]
    /\ \A o \in Operation : teamsOf[o] = [u \in User |-> teamsOf[o][u]]
    /\ seen = [o \in Operation |-> seen[o]]
    /\ lately = [o \in Operation |-> lately[o]]

\* The database as it is now is among the states that an operation remembers.
Noticed(o) == ~At(o, "idle") => db \in lately[o] /\ lately[o] \subseteq seen[o]

\* Only some fields get to a phase.
Passing(o) ==
    /\ At(o, "load") => Does(o, "addUserToTeam") \/ Does(o, "removeUserFromTeam")
    /\ At(o, "projects") \/ At(o, "page") =>
           ~Does(o, "addUserToTeam") /\ ~Does(o, "removeUserFromTeam")

\* What is about to be inserted was not there when somebody looked.
Looked(o) ==
    /\ At(o, "write") /\ Does(o, "addUserToTeam") =>
           /\ \E d \in lately[o] : field[o].team \in d.teams
           /\ \E d \in lately[o] : Row(o) \notin d.members
    /\ At(o, "write") /\ Does(o, "createTeam") =>
           \E d \in lately[o] : field[o].team \notin d.teams

\* What a loader remembers was so during its operation.
CacheTrue(o) ==
    \A u \in User : teamsOf[o][u].asked =>
        /\ ~At(o, "idle")
        /\ \E d \in seen[o] : teamsOf[o][u].list = TeamsIn(d, u)

Earned(o) ==
    LET t == field[o].team IN
    At(o, "done") =>
        /\ reply[o].code = "TEAM_NOT_FOUND" => \E d \in lately[o] : t \notin d.teams
        /\ reply[o].code = "TEAM_CONFLICT" => \E d \in lately[o] : t \in d.teams
        /\ reply[o].code = "USER_TEAM_RELATION_NOT_FOUND" =>
               \E d \in lately[o] : Row(o) \notin d.members
        /\ reply[o].code = "DUPLICATE_ENTRY" =>
               /\ \E d \in lately[o] : t \in d.teams
               /\ \E d \in lately[o] : t \notin d.teams
        /\ reply[o].code = "DATABASE_ERROR" /\ ~reply[o].failed =>
               \/ /\ \E d \in lately[o] : Row(o) \in d.members
                  /\ \E d \in lately[o] : Row(o) \notin d.members
               \/ /\ \E d \in lately[o] : t \in d.teams
                  /\ \E d \in lately[o] : t \notin d.teams

ListTrue(o) ==
    Listed(o, "addUserToTeam") \/ Listed(o, "removeUserFromTeam") =>
        \E d \in IF reply[o].fresh THEN lately[o] ELSE seen[o] :
            reply[o].list = TeamsIn(d, field[o].user)

OpInv(o) == Noticed(o) /\ Passing(o) /\ Looked(o) /\ CacheTrue(o) /\ Earned(o) /\ ListTrue(o)

Inv == Shape /\ \A o \in Operation : OpInv(o)

---------------------------------------------------------------------------
\* An operation that does nothing itself keeps what it has, while others change
\* the database and it takes notice.
LEMMA Bystander ==
  ASSUME NEW o \in Operation, OpInv(o),
         pc'[o] = pc[o], field'[o] = field[o], reply'[o] = reply[o],
         teamsOf'[o] = teamsOf[o],
         lately[o] \subseteq lately'[o], seen[o] \subseteq seen'[o],
         Noticed(o)'
  PROVE  OpInv(o)'
<1> USE DEF At, Does, Row, Listed
<1>1. Passing(o)'
  BY DEF OpInv, Passing
<1>2. Looked(o)'
  BY DEF OpInv, Looked
<1>3. CacheTrue(o)'
  BY DEF OpInv, CacheTrue
<1>4. Earned(o)'
  BY DEF OpInv, Earned
<1>5. ListTrue(o)'
  <2>1. CASE reply[o].fresh
    BY <2>1 DEF OpInv, ListTrue
  <2>2. CASE ~reply[o].fresh
    BY <2>2 DEF OpInv, ListTrue
  <2> QED
    BY <2>1, <2>2
<1> QED
  BY <1>1, <1>2, <1>3, <1>4, <1>5 DEF OpInv

\* A step of o that reads leaves the others where they were.
LEMMA OwnRead ==
  ASSUME Inv, NEW o \in Operation, Reads, Shape', OpInv(o)',
         \A x \in Operation \ {o} : /\ pc'[x] = pc[x] /\ field'[x] = field[x]
                                    /\ reply'[x] = reply[x] /\ teamsOf'[x] = teamsOf[x]
  PROVE  Inv'
<1> SUFFICES ASSUME NEW x \in Operation, x # o PROVE OpInv(x)'
  BY DEF Inv
<1>1. OpInv(x) /\ Noticed(x)
  BY DEF Inv, OpInv
<1>2. Noticed(x)'
  BY <1>1 DEF Noticed, Reads, At
<1> QED
  BY <1>1, <1>2, Bystander DEF Reads

\* Nor does one that writes, but the others take notice.
LEMMA OwnWrite ==
  ASSUME Inv, NEW o \in Operation, NEW d, Writes(o, d), Shape', OpInv(o)',
         \A x \in Operation \ {o} : /\ pc'[x] = pc[x] /\ field'[x] = field[x]
                                    /\ reply'[x] = reply[x] /\ teamsOf'[x] = teamsOf[x]
  PROVE  Inv'
<1> SUFFICES ASSUME NEW x \in Operation, x # o PROVE OpInv(x)'
  BY DEF Inv
<1>1. OpInv(x) /\ Noticed(x)
  BY DEF Inv, OpInv
<1>2. /\ lately'[x] = IF At(x, "idle") THEN lately[x] ELSE lately[x] \cup {d}
      /\ seen'[x] = IF At(x, "idle") THEN seen[x] ELSE seen[x] \cup {d}
      /\ db' = d
  BY DEF Writes, Noted
<1>3. Noticed(x)'
  BY <1>1, <1>2 DEF Noticed, At
<1> QED
  BY <1>1, <1>2, <1>3, Bystander

\* A step by the synchronisation.
LEMMA SyncStep == ASSUME Inv, NEW d, Synchronise(d) PROVE Inv'
<1>1. Shape'
  BY DEF Inv, Shape, Synchronise, Noted
<1> SUFFICES ASSUME NEW x \in Operation PROVE OpInv(x)'
  BY <1>1 DEF Inv
<1>2. OpInv(x) /\ Noticed(x)
  BY DEF Inv, OpInv
<1>3. /\ lately'[x] = IF At(x, "idle") THEN lately[x] ELSE lately[x] \cup {d}
      /\ seen'[x] = IF At(x, "idle") THEN seen[x] ELSE seen[x] \cup {d}
      /\ db' = d /\ UNCHANGED <<pc, field, reply, teamsOf>>
  BY DEF Synchronise, Noted
<1>4. Noticed(x)'
  BY <1>2, <1>3 DEF Noticed, At
<1> QED
  BY <1>2, <1>3, <1>4, Bystander

---------------------------------------------------------------------------
\* A reading step of o that moves it from one place to another in its field.
LEMMA Moves ==
  ASSUME Inv, NEW o \in Operation, NEW where \in Phase \ {"idle", "done"},
         ~At(o, "idle"), Goto(o, where), Reads, UNCHANGED <<field, teamsOf>>,
         Passing(o)', Looked(o)'
  PROVE  Inv'
<1>1. Shape'
  BY DEF Inv, Shape, Goto, Reads
<1>2. /\ pc'[o] = where /\ \A x \in Operation \ {o} : pc'[x] = pc[x]
      /\ UNCHANGED <<reply, field, teamsOf, db, seen, lately>>
  BY DEF Inv, Shape, Goto, Reads
<1>3. OpInv(o)
  BY DEF Inv
<1>4. OpInv(o)'
  BY <1>2, <1>3 DEF OpInv, Noticed, CacheTrue, Earned, ListTrue, Listed, At
<1> QED
  BY <1>1, <1>2, <1>4, OwnRead

\* A reading step of o that answers.
LEMMA Answers ==
  ASSUME Inv, NEW o \in Operation, NEW r, ~At(o, "idle"), Reply(o, r), Reads,
         UNCHANGED <<field, teamsOf>>, Earned(o)', ListTrue(o)'
  PROVE  Inv'
<1>1. Shape'
  BY DEF Inv, Shape, Reply, Reads, Phase
<1>2. /\ pc'[o] = "done" /\ reply'[o] = r
      /\ \A x \in Operation \ {o} : pc'[x] = pc[x] /\ reply'[x] = reply[x]
      /\ UNCHANGED <<field, teamsOf, db, seen, lately>>
  BY DEF Inv, Shape, Reply, Reads
<1>3. OpInv(o)
  BY DEF Inv
<1>4. OpInv(o)'
  BY <1>2, <1>3 DEF OpInv, Noticed, Passing, Looked, CacheTrue, At
<1> QED
  BY <1>1, <1>2, <1>4, OwnRead

\* A call to the database that fails, or an exception.
LEMMA Errors ==
  ASSUME Inv, NEW o \in Operation, NEW c, NEW failed, ~At(o, "idle"),
         Reply(o, Answer(c, {}, TRUE, failed)), Reads, UNCHANGED <<field, teamsOf>>,
         c # "ok", Earned(o)'
  PROVE  Inv'
<1>1. pc'[o] = "done" /\ reply'[o].code = c
  BY DEF Inv, Shape, Reply, Answer
<1>2. ListTrue(o)'
  BY <1>1 DEF ListTrue, Listed
<1> QED
  BY <1>2, Answers

\* A write of o: what it answers is an error of a lost answer, or comes later.
LEMMA Commits ==
  ASSUME Inv, NEW o \in Operation, NEW d, NEW where \in {"load", "projects"},
         NEW error \in {"OperationFailedException", "otherPrismaError"},
         ~At(o, "idle"), Commit(o, d, where, error), UNCHANGED <<field, teamsOf>>,
         where = "load" => Does(o, "addUserToTeam") \/ Does(o, "removeUserFromTeam"),
         where = "projects" => Does(o, "createTeam")
  PROVE  Inv'
<1>1. Writes(o, d) /\ UNCHANGED <<field, teamsOf>>
  BY DEF Commit
<1>2. Code[error] = "DATABASE_ERROR"
  BY DEF Code
<1>3. /\ lately'[o] = {d} /\ seen'[o] = seen[o] \cup {d} /\ db' = d
  BY <1>1 DEF Writes, Noted, Inv, Shape
<1>4. OpInv(o)
  BY DEF Inv
<1>5. CASE Goto(o, where)
  <2>1. Shape'
    BY <1>1, <1>5 DEF Inv, Shape, Goto, Writes, Noted, Phase
  <2>2. /\ pc'[o] = where /\ UNCHANGED reply
        /\ \A x \in Operation \ {o} : pc'[x] = pc[x]
    BY <1>5 DEF Inv, Shape, Goto
  <2>3. Noticed(o)' /\ Passing(o)' /\ Looked(o)' /\ Earned(o)' /\ ListTrue(o)'
    BY <1>1, <1>3, <2>2
    DEF Noticed, Passing, Looked, Earned, ListTrue, Listed, At, Does
  <2>4. CacheTrue(o)'
    BY <1>1, <1>3, <1>4, <2>2 DEF OpInv, CacheTrue, At
  <2> QED
    BY <1>1, <2>1, <2>2, <2>3, <2>4, OwnWrite DEF OpInv
<1>6. CASE Failed(o, error)
  <2>1. Shape'
    BY <1>1, <1>6 DEF Inv, Shape, Failed, Reply, Writes, Noted, Phase
  <2>2. /\ pc'[o] = "done" /\ reply'[o].code = "DATABASE_ERROR" /\ reply'[o].failed
        /\ \A x \in Operation \ {o} : pc'[x] = pc[x] /\ reply'[x] = reply[x]
    BY <1>2, <1>6 DEF Inv, Shape, Failed, Reply, Answer
  <2>3. Noticed(o)' /\ Passing(o)' /\ Looked(o)' /\ Earned(o)' /\ ListTrue(o)'
    BY <1>1, <1>3, <2>2
    DEF Noticed, Passing, Looked, Earned, ListTrue, Listed, At, Does
  <2>4. CacheTrue(o)'
    BY <1>1, <1>3, <1>4, <2>2 DEF OpInv, CacheTrue, At
  <2> QED
    BY <1>1, <2>1, <2>2, <2>3, <2>4, OwnWrite DEF OpInv
<1> QED
  BY <1>5, <1>6 DEF Commit

---------------------------------------------------------------------------
\* An operation begins, and ends: its loaders are new.
LEMMA BeginStep ==
  ASSUME Inv, NEW o \in Operation, NEW f \in Asked, Begin(o, f)
  PROVE  Inv'
<1>1. f \in Field
  BY TeamAssumption
<1>2. Shape'
  BY <1>1 DEF Inv, Shape, Begin, Phase
<1>3. /\ pc'[o] = "field" /\ field'[o] = f /\ seen'[o] = {db} /\ lately'[o] = {db}
      /\ UNCHANGED <<db, reply, teamsOf>>
  BY DEF Inv, Shape, Begin
<1>4. OpInv(o)'
  <2>1. CacheTrue(o)'
    BY <1>3 DEF Begin, Inv, OpInv, CacheTrue, At
  <2> QED
    BY <1>3, <2>1 DEF OpInv, Noticed, Passing, Looked, Earned, ListTrue, Listed, At
<1> SUFFICES ASSUME NEW x \in Operation, x # o PROVE OpInv(x)'
  BY <1>2, <1>4 DEF Inv
<1>5. /\ pc'[x] = pc[x] /\ field'[x] = field[x] /\ reply'[x] = reply[x]
      /\ teamsOf'[x] = teamsOf[x] /\ seen'[x] = seen[x] /\ lately'[x] = lately[x]
  BY DEF Inv, Shape, Begin
<1>6. OpInv(x) /\ Noticed(x)'
  BY <1>3, <1>5 DEF Inv, OpInv, Noticed, At
<1> QED
  BY <1>5, <1>6, Bystander

LEMMA NextFieldStep ==
  ASSUME Inv, NEW o \in Operation, NEW f \in Asked, NextField(o, f)
  PROVE  Inv'
<1>1. f \in Field
  BY TeamAssumption
<1>2. Shape'
  BY <1>1 DEF Inv, Shape, NextField, Phase
<1>3. /\ pc'[o] = "field" /\ field'[o] = f /\ lately'[o] = {db}
      /\ UNCHANGED <<db, teamsOf, seen>> /\ ~At(o, "idle")
  BY DEF Inv, Shape, NextField, At
<1>4. OpInv(o)'
  <2>1. CacheTrue(o)'
    BY <1>3 DEF Inv, OpInv, CacheTrue, At
  <2>2. Noticed(o)'
    BY <1>3 DEF Inv, OpInv, Noticed, At
  <2> QED
    BY <1>3, <2>1, <2>2 DEF OpInv, Passing, Looked, Earned, ListTrue, Listed, At
<1> SUFFICES ASSUME NEW x \in Operation, x # o PROVE OpInv(x)'
  BY <1>2, <1>4 DEF Inv
<1>5. /\ pc'[x] = pc[x] /\ field'[x] = field[x] /\ reply'[x] = reply[x]
      /\ teamsOf'[x] = teamsOf[x] /\ seen'[x] = seen[x] /\ lately'[x] = lately[x]
  BY DEF Inv, Shape, NextField
<1>6. OpInv(x) /\ Noticed(x)'
  BY <1>3, <1>5 DEF Inv, OpInv, Noticed, At
<1> QED
  BY <1>5, <1>6, Bystander

LEMMA EndStep ==
  ASSUME Inv, NEW o \in Operation, End(o)
  PROVE  Inv'
<1>1. None \in Field
  BY TeamAssumption DEF None
<1>2. Shape'
  BY <1>1 DEF Inv, Shape, End, Unload, Phase
<1>3. /\ pc'[o] = "idle" /\ teamsOf'[o] = [u \in User |-> NotAsked] /\ UNCHANGED db
  BY DEF Inv, Shape, End, Unload
<1>4. OpInv(o)'
  BY <1>3 DEF OpInv, Noticed, Passing, Looked, CacheTrue, Earned, ListTrue, Listed, At, NotAsked
<1> SUFFICES ASSUME NEW x \in Operation, x # o PROVE OpInv(x)'
  BY <1>2, <1>4 DEF Inv
<1>5. /\ pc'[x] = pc[x] /\ field'[x] = field[x] /\ reply'[x] = reply[x]
      /\ teamsOf'[x] = teamsOf[x] /\ seen'[x] = seen[x] /\ lately'[x] = lately[x]
  BY DEF Inv, Shape, End, Unload
<1>6. OpInv(x) /\ Noticed(x)'
  BY <1>3, <1>5 DEF Inv, OpInv, Noticed, At
<1> QED
  BY <1>5, <1>6, Bystander

---------------------------------------------------------------------------
\* What an operation sees now it remembers, wherever it goes from here.
LEMMA SeesNow ==
  ASSUME Inv, NEW o \in Operation, ~At(o, "idle"), Reads
  PROVE  db \in lately'[o] /\ db \in seen'[o]
BY DEF Inv, OpInv, Noticed, Reads

\* The steps of the fields, one lemma each.
LEMMA AddFindStep ==
  ASSUME Inv, NEW o \in Operation, AddFind(o)
  PROVE  Inv'
<1>1. ~At(o, "idle") /\ Reads /\ UNCHANGED <<field, teamsOf>> /\ Does(o, "addUserToTeam")
  BY DEF AddFind, At, Keeps
<1>2. db \in lately'[o]
  BY <1>1, SeesNow
<1>3. CASE field[o].team \notin db.teams
  <2>1. Reply(o, Answer("TEAM_NOT_FOUND", {}, TRUE, FALSE))
    BY <1>3 DEF AddFind, Throw, Code
  <2>2. Earned(o)'
    BY <1>1, <1>2, <1>3, <2>1 DEF Earned, Inv, Shape, Reply, Answer, At
  <2> QED
    BY <1>1, <2>1, <2>2, Errors
<1>4. CASE field[o].team \in db.teams /\ Row(o) \in db.members
  <2>1. Goto(o, "load")
    BY <1>4 DEF AddFind
  <2>2. Passing(o)' /\ Looked(o)'
    BY <1>1, <2>1 DEF Passing, Looked, Goto, At, Does, Inv, Shape
  <2> QED
    BY <1>1, <2>1, <2>2, Moves DEF Phase
<1>5. CASE field[o].team \in db.teams /\ Row(o) \notin db.members
  <2>1. Goto(o, "write")
    BY <1>5 DEF AddFind
  <2>2. Passing(o)' /\ Looked(o)'
    BY <1>1, <1>2, <1>5, <2>1 DEF Passing, Looked, Goto, At, Does, Inv, Shape, Row
  <2> QED
    BY <1>1, <2>1, <2>2, Moves DEF Phase
<1> QED
  BY <1>3, <1>4, <1>5

LEMMA AddWriteStep ==
  ASSUME Inv, NEW o \in Operation, AddWrite(o)
  PROVE  Inv'
<1>1. /\ ~At(o, "idle") /\ At(o, "write") /\ UNCHANGED <<field, teamsOf>>
      /\ Does(o, "addUserToTeam")
  BY DEF AddWrite, At, Keeps
<1>2. CASE Row(o) \in db.members \/ field[o].team \notin db.teams
  <2>1. Reply(o, Answer("DATABASE_ERROR", {}, TRUE, FALSE)) /\ Reads
    BY <1>2 DEF AddWrite, Throw, Code
  <2>2. db \in lately'[o]
    BY <1>1, <2>1, SeesNow
  <2>3. /\ \E d \in lately[o] : field[o].team \in d.teams
        /\ \E d \in lately[o] : Row(o) \notin d.members
    BY <1>1 DEF Inv, OpInv, Looked
  <2>4. Earned(o)'
    BY <1>1, <1>2, <2>1, <2>2, <2>3 DEF Earned, Inv, Shape, Reply, Answer, Reads, Row
  <2> QED
    BY <1>1, <2>1, <2>4, Errors
<1>3. CASE ~(Row(o) \in db.members \/ field[o].team \notin db.teams)
  BY <1>1, <1>3, Commits DEF AddWrite
<1> QED
  BY <1>2, <1>3

LEMMA RemoveFindStep ==
  ASSUME Inv, NEW o \in Operation, RemoveFind(o)
  PROVE  Inv'
<1>1. ~At(o, "idle") /\ Reads /\ UNCHANGED <<field, teamsOf>> /\ Does(o, "removeUserFromTeam")
  BY DEF RemoveFind, At, Keeps
<1>2. CASE Row(o) \notin db.members
  <2>1. Reply(o, Answer("USER_TEAM_RELATION_NOT_FOUND", {}, TRUE, FALSE))
    BY <1>2 DEF RemoveFind, Throw, Code
  <2>2. db \in lately'[o]
    BY <1>1, SeesNow
  <2>3. Earned(o)'
    BY <1>1, <1>2, <2>1, <2>2 DEF Earned, Inv, Shape, Reply, Answer, Row
  <2> QED
    BY <1>1, <2>1, <2>3, Errors
<1>3. CASE Row(o) \in db.members
  <2>1. Goto(o, "write")
    BY <1>3 DEF RemoveFind
  <2>2. Passing(o)' /\ Looked(o)'
    BY <1>1, <2>1 DEF Passing, Looked, Goto, At, Does, Inv, Shape
  <2> QED
    BY <1>1, <2>1, <2>2, Moves DEF Phase
<1> QED
  BY <1>2, <1>3

LEMMA RemoveWriteStep ==
  ASSUME Inv, NEW o \in Operation, RemoveWrite(o)
  PROVE  Inv'
<1>1. ~At(o, "idle") /\ UNCHANGED <<field, teamsOf>> /\ Does(o, "removeUserFromTeam")
  BY DEF RemoveWrite, At, Keeps
<1> QED
  BY <1>1, Commits DEF RemoveWrite

LEMMA CreateFindStep ==
  ASSUME Inv, NEW o \in Operation, CreateFind(o)
  PROVE  Inv'
<1>1. ~At(o, "idle") /\ Reads /\ UNCHANGED <<field, teamsOf>> /\ Does(o, "createTeam")
  BY DEF CreateFind, At, Keeps
<1>2. db \in lately'[o]
  BY <1>1, SeesNow
<1>3. CASE field[o].team \in db.teams
  <2>1. Reply(o, Answer("TEAM_CONFLICT", {}, TRUE, FALSE))
    BY <1>3 DEF CreateFind, Throw, Code
  <2>2. Earned(o)'
    BY <1>1, <1>2, <1>3, <2>1 DEF Earned, Inv, Shape, Reply, Answer
  <2> QED
    BY <1>1, <2>1, <2>2, Errors
<1>4. CASE field[o].team \notin db.teams
  <2>1. Goto(o, "write")
    BY <1>4 DEF CreateFind
  <2>2. Passing(o)' /\ Looked(o)'
    BY <1>1, <1>2, <1>4, <2>1 DEF Passing, Looked, Goto, At, Does, Inv, Shape
  <2> QED
    BY <1>1, <2>1, <2>2, Moves DEF Phase
<1> QED
  BY <1>3, <1>4

LEMMA CreateWriteStep ==
  ASSUME Inv, NEW o \in Operation, CreateWrite(o)
  PROVE  Inv'
<1>1. /\ ~At(o, "idle") /\ At(o, "write") /\ UNCHANGED <<field, teamsOf>>
      /\ Does(o, "createTeam")
  BY DEF CreateWrite, At
<1>2. CASE field[o].team \in db.teams
  <2>1. Reply(o, Answer("DUPLICATE_ENTRY", {}, TRUE, FALSE)) /\ Reads
    BY <1>2 DEF CreateWrite, Throw, Code
  <2>2. db \in lately'[o]
    BY <1>1, <2>1, SeesNow
  <2>3. \E d \in lately[o] : field[o].team \notin d.teams
    BY <1>1 DEF Inv, OpInv, Looked
  <2>4. Earned(o)'
    BY <1>1, <1>2, <2>1, <2>2, <2>3 DEF Earned, Inv, Shape, Reply, Answer, Reads
  <2> QED
    BY <1>1, <2>1, <2>4, Errors
<1>3. CASE field[o].team \notin db.teams
  BY <1>1, <1>3, Commits DEF CreateWrite
<1> QED
  BY <1>2, <1>3

LEMMA GetTeamStep ==
  ASSUME Inv, NEW o \in Operation, GetTeam(o)
  PROVE  Inv'
<1>1. ~At(o, "idle") /\ Reads /\ UNCHANGED <<field, teamsOf>> /\ Does(o, "getTeam")
  BY DEF GetTeam, At
<1>2. CASE field[o].team \notin db.teams
  <2>1. Reply(o, Answer("TEAM_NOT_FOUND", {}, TRUE, FALSE))
    BY <1>2 DEF GetTeam, Throw, Code
  <2>2. db \in lately'[o]
    BY <1>1, SeesNow
  <2>3. Earned(o)'
    BY <1>1, <1>2, <2>1, <2>2 DEF Earned, Inv, Shape, Reply, Answer
  <2> QED
    BY <1>1, <2>1, <2>3, Errors
<1>3. CASE field[o].team \in db.teams
  <2>1. Goto(o, "projects")
    BY <1>3 DEF GetTeam
  <2>2. Passing(o)' /\ Looked(o)'
    BY <1>1, <2>1 DEF Passing, Looked, Goto, At, Does, Inv, Shape
  <2> QED
    BY <1>1, <2>1, <2>2, Moves DEF Phase
<1> QED
  BY <1>2, <1>3

\* The loader answers with what it has, true of an instant of the operation, or
\* with the memberships as they are now.
LEMMA LoadTeamsStep ==
  ASSUME Inv, NEW o \in Operation, LoadTeams(o)
  PROVE  Inv'
<1> DEFINE u == field[o].user
           loader == teamsOf[o][u]
           list == IF loader.asked THEN loader.list ELSE TeamsIn(db, u)
<1>1. /\ ~At(o, "idle") /\ Reads /\ UNCHANGED field
      /\ teamsOf' = [teamsOf EXCEPT ![o][u] = Loaded(list)]
  BY DEF LoadTeams, At
<1>2. u \in User
  BY DEF Inv, Shape, Field
<1>3. db \in lately[o] /\ lately[o] \subseteq seen[o] /\ db \in seen[o]
      /\ lately' = lately /\ seen' = seen /\ db' = db
  BY <1>1 DEF Inv, OpInv, Noticed, Reads
<1>4. loader.asked => \E d \in seen[o] : list = TeamsIn(d, u)
  BY <1>2 DEF Inv, OpInv, CacheTrue
<1>5. ~loader.asked => list = TeamsIn(db, u)
  OBVIOUS
<1>6. /\ teamsOf'[o][u] = Loaded(list)
      /\ \A v \in User \ {u} : teamsOf'[o][v] = teamsOf[o][v]
      /\ \A x \in Operation \ {o} : teamsOf'[x] = teamsOf[x]
      /\ teamsOf' = [x \in Operation |-> teamsOf'[x]]
      /\ \A x \in Operation : teamsOf'[x] = [v \in User |-> teamsOf'[x][v]]
  <2> HIDE DEF list, u
  <2> QED
    BY <1>1, <1>2 DEF Inv, Shape
<1> HIDE DEF list
<1>7. ASSUME ~At(o, "idle")' PROVE CacheTrue(o)'
  <2> SUFFICES ASSUME NEW v \in User, teamsOf'[o][v].asked
               PROVE  \E d \in seen'[o] : teamsOf'[o][v].list = TeamsIn(d, v)
    BY <1>7 DEF CacheTrue
  <2>1. CASE v = u
    BY <1>3, <1>4, <1>5, <1>6, <2>1 DEF Loaded
  <2>2. CASE v # u
    BY <1>3, <1>6, <2>2 DEF Inv, OpInv, CacheTrue
  <2> QED
    BY <2>1, <2>2
<1>8. CASE Does(o, "myProjects") /\ list # {}
  <2>1. Goto(o, "projects")
    BY <1>8 DEF LoadTeams, list
  <2>2. /\ pc'[o] = "projects" /\ reply' = reply
        /\ \A x \in Operation \ {o} : pc'[x] = pc[x]
    BY <2>1 DEF Inv, Shape, Goto
  <2>3. Shape'
    BY <1>1, <1>6, <2>1 DEF Inv, Shape, Goto, Reads, Phase
  <2>4. OpInv(o)'
    BY <1>1, <1>3, <1>7, <1>8, <2>2
    DEF OpInv, Noticed, Passing, Looked, Earned, ListTrue, Listed, At, Does
  <2> QED
    BY <1>1, <1>6, <2>2, <2>3, <2>4, OwnRead
<1>9. CASE ~(Does(o, "myProjects") /\ list # {})
  <2>1. Reply(o, Answer("ok", list, ~loader.asked, FALSE))
    BY <1>9 DEF LoadTeams, list
  <2>2. /\ pc'[o] = "done" /\ reply'[o].code = "ok" /\ reply'[o].list = list
        /\ reply'[o].fresh = ~loader.asked
        /\ \A x \in Operation \ {o} : pc'[x] = pc[x] /\ reply'[x] = reply[x]
    BY <2>1 DEF Inv, Shape, Reply, Answer
  <2>3. Shape'
    BY <1>1, <1>6, <2>1 DEF Inv, Shape, Reply, Reads, Phase
  <2>4. ListTrue(o)'
    <3>1. CASE loader.asked
      BY <1>1, <1>3, <1>4, <2>2, <3>1 DEF ListTrue
    <3>2. CASE ~loader.asked
      BY <1>1, <1>3, <1>5, <2>2, <3>2 DEF ListTrue
    <3> QED
      BY <3>1, <3>2
  <2>5. OpInv(o)'
    BY <1>3, <1>7, <2>2, <2>4 DEF OpInv, Noticed, Passing, Looked, Earned, At
  <2> QED
    BY <1>1, <1>6, <2>2, <2>3, <2>5, OwnRead
<1> QED
  BY <1>8, <1>9

\* Fields that add or remove nobody say nothing that the properties are about,
\* unless it is an error.
LEMMA OtherAnswers ==
  ASSUME Inv, NEW o \in Operation, NEW r, ~At(o, "idle"), Reply(o, r), Reads,
         UNCHANGED <<field, teamsOf>>, r.code = "ok",
         ~Does(o, "addUserToTeam"), ~Does(o, "removeUserFromTeam")
  PROVE  Inv'
<1>1. pc'[o] = "done" /\ reply'[o].code = "ok"
  BY DEF Inv, Shape, Reply
<1>2. Earned(o)'
  BY <1>1 DEF Earned
<1>3. ListTrue(o)'
  BY DEF ListTrue, Listed, Does
<1> QED
  BY <1>2, <1>3, Answers

LEMMA LoadProjectsStep ==
  ASSUME Inv, NEW o \in Operation, LoadProjects(o)
  PROVE  Inv'
<1>1. /\ ~At(o, "idle") /\ Reads /\ UNCHANGED <<field, teamsOf>> /\ At(o, "projects")
      /\ \E list : Reply(o, Answer("ok", list, TRUE, FALSE))
  BY DEF LoadProjects, At
<1>2. ~Does(o, "addUserToTeam") /\ ~Does(o, "removeUserFromTeam")
  BY <1>1 DEF Inv, OpInv, Passing
<1>3. PICK list : Reply(o, Answer("ok", list, TRUE, FALSE))
  BY <1>1
<1>4. Answer("ok", list, TRUE, FALSE).code = "ok"
  BY DEF Answer
<1> QED
  BY <1>1, <1>2, <1>3, <1>4, OtherAnswers

LEMMA IssuesTeamsStep ==
  ASSUME Inv, NEW o \in Operation, IssuesTeams(o)
  PROVE  Inv'
<1>1. /\ ~At(o, "idle") /\ Reads /\ UNCHANGED <<field, teamsOf>> /\ Does(o, "issues")
      /\ Reply(o, NoReply) \/ Goto(o, "page")
  BY DEF IssuesTeams, At
<1>2. CASE Reply(o, NoReply)
  BY <1>1, <1>2, OtherAnswers DEF NoReply, Answer, Does
<1>3. CASE Goto(o, "page")
  <2>1. Passing(o)' /\ Looked(o)'
    BY <1>1, <1>3 DEF Passing, Looked, Goto, At, Does, Inv, Shape
  <2> QED
    BY <1>1, <1>3, <2>1, Moves DEF Phase
<1> QED
  BY <1>1, <1>2, <1>3

LEMMA IssuesPageStep ==
  ASSUME Inv, NEW o \in Operation, IssuesPage(o)
  PROVE  Inv'
<1>1. /\ ~At(o, "idle") /\ Reads /\ UNCHANGED <<field, teamsOf>> /\ At(o, "page")
      /\ \E list : Reply(o, Answer("ok", list, TRUE, FALSE))
  BY DEF IssuesPage, At, Keeps
<1>2. ~Does(o, "addUserToTeam") /\ ~Does(o, "removeUserFromTeam")
  BY <1>1 DEF Inv, OpInv, Passing
<1>3. PICK list : Reply(o, Answer("ok", list, TRUE, FALSE))
  BY <1>1
<1>4. Answer("ok", list, TRUE, FALSE).code = "ok"
  BY DEF Answer
<1> QED
  BY <1>1, <1>2, <1>3, <1>4, OtherAnswers

LEMMA FaultStep ==
  ASSUME Inv, NEW o \in Operation, Fault(o)
  PROVE  Inv'
<1>1. ~At(o, "idle") /\ Reads /\ UNCHANGED <<field, teamsOf>>
  BY DEF Fault, At, Keeps
<1>2. CASE At(o, "projects") /\ Does(o, "myProjects")
  <2>1. Reply(o, Answer("ok", {}, TRUE, TRUE))
    BY <1>2 DEF Fault
  <2> QED
    BY <1>1, <1>2, <2>1, OtherAnswers DEF Answer, Does
<1>3. CASE ~(At(o, "projects") /\ Does(o, "myProjects"))
  <2>1. \E e \in {"OperationFailedException", "otherPrismaError", "unfiltered"} : Failed(o, e)
    BY <1>3 DEF Fault
  <2>2. PICK e \in {"OperationFailedException", "otherPrismaError", "unfiltered"} : Failed(o, e)
    BY <2>1
  <2>3. Code[e] \in {"DATABASE_ERROR", "INTERNAL_SERVER_ERROR"}
    BY <2>2 DEF Code
  <2>4. Reply(o, Answer(Code[e], {}, TRUE, TRUE))
    BY <2>2 DEF Failed
  <2>5. Earned(o)'
    BY <2>3, <2>4 DEF Earned, Inv, Shape, Reply, Answer
  <2> QED
    BY <1>1, <2>3, <2>4, <2>5, Errors
<1> QED
  BY <1>2, <1>3

---------------------------------------------------------------------------
LEMMA NextInv == Inv /\ [Next]_vars => Inv'
<1> SUFFICES ASSUME Inv, [Next]_vars PROVE Inv'
  OBVIOUS
<1>1. ASSUME NEW o \in Operation, Handle(o) PROVE Inv'
  BY <1>1, BeginStep, NextFieldStep, EndStep, AddFindStep, AddWriteStep, RemoveFindStep,
     RemoveWriteStep, CreateFindStep, CreateWriteStep, GetTeamStep, LoadTeamsStep,
     LoadProjectsStep, IssuesTeamsStep, IssuesPageStep, FaultStep
  DEF Handle
<1>2. ASSUME NEW t \in Team, SyncAdds(t) \/ SyncDrops(t) PROVE Inv'
  BY <1>2, SyncStep DEF SyncAdds, SyncDrops
<1>3. ASSUME NEW p \in Project, SyncDropsProject(p) PROVE Inv'
  BY <1>3, SyncStep DEF SyncDropsProject
<1>4. CASE UNCHANGED vars
  <2>1. Shape'
    BY <1>4 DEF Inv, Shape, vars
  <2> SUFFICES ASSUME NEW x \in Operation PROVE OpInv(x)'
    BY <2>1 DEF Inv
  <2>2. OpInv(x) /\ Noticed(x)'
    BY <1>4 DEF Inv, OpInv, Noticed, At, vars
  <2> QED
    BY <1>4, <2>2, Bystander DEF vars
<1> QED
  BY <1>1, <1>2, <1>3, <1>4 DEF Next

LEMMA InitInv == Init => Inv
<1> SUFFICES ASSUME Init PROVE Inv
  OBVIOUS
<1>1. None \in Field
  BY TeamAssumption DEF None
<1>2. Shape
  BY <1>1 DEF Init, Shape, Phase
<1>3. ASSUME NEW o \in Operation PROVE OpInv(o)
  BY DEF Init, OpInv, Noticed, Passing, Looked, CacheTrue, Earned, ListTrue, Listed, At,
         NotAsked
<1> QED
  BY <1>2, <1>3 DEF Inv

\* An error says of teams and memberships what was so while its field was handled
\* (user-team.service.ts, team.service.ts), and the errors that nobody meant are
\* due to a failing database or to somebody else who was faster.
THEOREM ErrorsSound == Spec => []ErrorsEarned
<1>1. Inv => ErrorsEarned
  <2> SUFFICES ASSUME Inv PROVE ErrorsEarned
    OBVIOUS
  <2>1. \A o \in Operation : Earned(o)
    BY DEF Inv, OpInv
  <2> QED
    BY <2>1 DEF ErrorsEarned, Earned, Replied, Once, At
<1> QED
  BY <1>1, InitInv, NextInv, PTL DEF Spec

\* The teams in the answer to a mutation are those of an instant of the operation,
\* and of one after the change if this field has loaded them (team.loader.ts).
THEOREM ListsSound == Spec => []ListsTrue
<1>1. Inv => ListsTrue
  BY DEF Inv, OpInv, ListTrue, ListsTrue
<1> QED
  BY <1>1, InitInv, NextInv, PTL DEF Spec

---------------------------------------------------------------------------
\* Everything has its type; of the database this says that its foreign keys hold.
LEMMA RepliesTyped ==
  ASSUME TypeOK, NEW o \in Operation, NEW c \in Codes,
         NEW list \in SUBSET (Team \cup Project \cup Issue),
         NEW fresh \in BOOLEAN, NEW failed \in BOOLEAN,
         Reply(o, Answer(c, list, fresh, failed))
  PROVE  /\ pc' \in [Operation -> Phase]
         /\ reply' \in [Operation -> [code : Codes, list : SUBSET (Team \cup Project \cup Issue),
                                      fresh : BOOLEAN, failed : BOOLEAN]]
BY DEF TypeOK, Reply, Answer, Phase

LEMMA ErrorsTyped ==
  ASSUME TypeOK, NEW o \in Operation, NEW e \in DOMAIN Code, Throw(o, e) \/ Failed(o, e)
  PROVE  /\ pc' \in [Operation -> Phase]
         /\ reply' \in [Operation -> [code : Codes, list : SUBSET (Team \cup Project \cup Issue),
                                      fresh : BOOLEAN, failed : BOOLEAN]]
<1>1. Code[e] \in Codes
  BY DEF Codes
<1> QED
  BY <1>1, RepliesTyped DEF Throw, Failed

LEMMA ErrorNames ==
  {"TeamNotFoundException", "TeamAlreadyExistsException", "UserTeamRelationNotFoundException",
   "OperationFailedException", "P2002", "otherPrismaError", "unfiltered"} \subseteq DOMAIN Code
BY DEF Code

LEMMA GotoTyped ==
  ASSUME TypeOK, NEW o \in Operation, NEW where \in Phase, Goto(o, where)
  PROVE  /\ pc' \in [Operation -> Phase]
         /\ reply' \in [Operation -> [code : Codes, list : SUBSET (Team \cup Project \cup Issue),
                                      fresh : BOOLEAN, failed : BOOLEAN]]
BY DEF TypeOK, Goto, Phase

Memory == [Operation -> SUBSET Database]

LEMMA WritesTyped ==
  ASSUME TypeOK, NEW o \in Operation, NEW d \in Database, Writes(o, d)
  PROVE  db' \in Database /\ synced' \in Nat /\ seen' \in Memory /\ lately' \in Memory
BY DEF TypeOK, Writes, Noted, Memory

LEMMA SyncAddsTyped ==
  ASSUME db \in Database, NEW t \in Team
  PROVE  LET teams == db.teams \cup {t}
             projects == db.projects \cup {p \in Project : HomeOf[p] = t}
         IN  [db EXCEPT !.teams = teams, !.projects = projects,
                 !.keyed = {i \in Issue : ProjectOf[i] \in projects /\ KeyOf[i] \in teams}]
                 \in Database
BY TeamAssumption DEF Database

LEMMA SyncTyped ==
  ASSUME TypeOK, NEW d \in Database, Synchronise(d)
  PROVE  TypeOK'
BY DEF TypeOK, Synchronise, Noted

Rest == /\ begun \in Nat /\ count \in [Operation -> Nat] /\ field \in [Operation -> Field]
        /\ view \in [Operation -> SUBSET Team]
        /\ teamsOf \in [Operation -> [User -> [asked : BOOLEAN, list : SUBSET Team]]]
        /\ projectsOf \in [Operation -> [Team -> [asked : BOOLEAN, list : SUBSET Project]]]

LEMMA Together ==
  ASSUME pc' \in [Operation -> Phase],
         reply' \in [Operation -> [code : Codes, list : SUBSET (Team \cup Project \cup Issue),
                                   fresh : BOOLEAN, failed : BOOLEAN]],
         db' \in Database, synced' \in Nat, seen' \in Memory, lately' \in Memory, Rest'
  PROVE  TypeOK'
BY DEF TypeOK, Rest, Memory, Phase

LEMMA ReadsTyped ==
  ASSUME TypeOK, Reads
  PROVE  db' \in Database /\ synced' \in Nat /\ seen' \in Memory /\ lately' \in Memory
BY DEF TypeOK, Reads, Memory

LEMMA KeepsTyped == TypeOK /\ Keeps => Rest'
BY DEF TypeOK, Keeps, Rest

LEMMA CommitTyped ==
  ASSUME TypeOK, NEW o \in Operation, NEW d \in Database, NEW then \in Phase,
         NEW error \in {"OperationFailedException", "otherPrismaError"},
         Commit(o, d, then, error), Rest'
  PROVE  TypeOK'
<1>1. error \in DOMAIN Code
  BY ErrorNames
<1>2. db' \in Database /\ synced' \in Nat /\ seen' \in Memory /\ lately' \in Memory
  BY WritesTyped DEF Commit
<1>3. /\ pc' \in [Operation -> Phase]
      /\ reply' \in [Operation -> [code : Codes, list : SUBSET (Team \cup Project \cup Issue),
                                   fresh : BOOLEAN, failed : BOOLEAN]]
  BY <1>1, GotoTyped, ErrorsTyped DEF Commit
<1> QED
  BY <1>2, <1>3, Together

LEMMA FindsTyped ==
  ASSUME TypeOK, NEW o \in Operation,
         AddFind(o) \/ RemoveFind(o) \/ CreateFind(o) \/ Fault(o)
  PROVE  TypeOK'
<1>1. Reads /\ Keeps
  BY DEF AddFind, RemoveFind, CreateFind, Fault
<1>2. CASE \E e \in DOMAIN Code : Throw(o, e) \/ Failed(o, e)
  BY <1>1, <1>2, ErrorsTyped, ReadsTyped, KeepsTyped, Together
<1>3. CASE \E where \in Phase : Goto(o, where)
  BY <1>1, <1>3, GotoTyped, ReadsTyped, KeepsTyped, Together
<1>4. CASE Reply(o, Answer("ok", {}, TRUE, TRUE))
  <2>1. "ok" \in Codes
    BY DEF Codes
  <2> QED
    BY <1>1, <1>4, <2>1, RepliesTyped, ReadsTyped, KeepsTyped, Together
<1>5. /\ AddFind(o) => \E e \in DOMAIN Code, where \in Phase : Throw(o, e) \/ Goto(o, where)
      /\ RemoveFind(o) => \E e \in DOMAIN Code, where \in Phase : Throw(o, e) \/ Goto(o, where)
      /\ CreateFind(o) => \E e \in DOMAIN Code, where \in Phase : Throw(o, e) \/ Goto(o, where)
  BY ErrorNames DEF AddFind, RemoveFind, CreateFind, Phase
<1>6. Fault(o) => Reply(o, Answer("ok", {}, TRUE, TRUE)) \/ \E e \in DOMAIN Code : Failed(o, e)
  BY ErrorNames DEF Fault
<1> QED
  BY <1>2, <1>3, <1>4, <1>5, <1>6

LEMMA PageOfRows ==
  ASSUME NEW rows, NEW place \in Orders(rows), NEW page, NEW limit
  PROVE  Page(place, page, limit) \subseteq rows
BY DEF Page, Orders, Bijection, Injection

LEMMA TeamWritesTyped ==
  ASSUME TypeOK, NEW o \in Operation, AddWrite(o) \/ RemoveWrite(o) \/ CreateWrite(o)
  PROVE  TypeOK'
<1>1. field[o].team \in Team /\ field[o].user \in User /\ db \in Database
  BY DEF TypeOK, Field
<1>2. Rest'
  BY <1>1 DEF TypeOK, AddWrite, RemoveWrite, CreateWrite, Keeps, Rest
<1>3. CASE \E e \in DOMAIN Code : Throw(o, e) /\ Reads
  BY <1>2, <1>3, ErrorsTyped, ReadsTyped, Together
<1>4. "load" \in Phase /\ "projects" \in Phase
  BY DEF Phase
<1>5. ASSUME AddWrite(o), ~(Row(o) \in db.members \/ field[o].team \notin db.teams)
      PROVE  TypeOK'
  <2>1. [db EXCEPT !.members = @ \cup {Row(o)}] \in Database
    BY <1>1, <1>5 DEF Row, Database
  <2> QED
    BY <1>2, <1>4, <1>5, <2>1, CommitTyped DEF AddWrite
<1>6. CASE RemoveWrite(o)
  <2>1. [db EXCEPT !.members = @ \ {Row(o)}] \in Database
    BY <1>1 DEF Row, Database
  <2> QED
    BY <1>2, <1>4, <1>6, <2>1, CommitTyped DEF RemoveWrite
<1>7. ASSUME CreateWrite(o), field[o].team \notin db.teams
      PROVE  TypeOK'
  <2>1. [db EXCEPT !.teams = @ \cup {field[o].team}] \in Database
    BY <1>1 DEF Database
  <2> QED
    BY <1>2, <1>4, <1>7, <2>1, CommitTyped DEF CreateWrite
<1>8. /\ AddWrite(o) /\ (Row(o) \in db.members \/ field[o].team \notin db.teams) =>
             \E e \in DOMAIN Code : Throw(o, e) /\ Reads
      /\ CreateWrite(o) /\ field[o].team \in db.teams =>
             \E e \in DOMAIN Code : Throw(o, e) /\ Reads
  BY ErrorNames DEF AddWrite, CreateWrite
<1> QED
  BY <1>3, <1>5, <1>6, <1>7, <1>8

LEMMA ListsTyped ==
  ASSUME TypeOK, NEW o \in Operation,
         GetTeam(o) \/ LoadTeams(o) \/ LoadProjects(o) \/ IssuesTeams(o) \/ IssuesPage(o)
  PROVE  TypeOK'
<1>1. /\ Reads /\ db \in Database /\ field[o].team \in Team /\ field[o].user \in User
      /\ \A u : TeamsIn(db, u) \subseteq Team
      /\ \A teams : ProjectsIn(db, teams) \subseteq Project
  BY DEF TypeOK, Field, GetTeam, LoadTeams, LoadProjects, IssuesTeams, IssuesPage, Database,
         TeamsIn, ProjectsIn
<1>2. "ok" \in Codes
  BY DEF Codes
<1>3. ASSUME Rest',
             \/ \E e \in DOMAIN Code : Throw(o, e)
             \/ \E where \in Phase : Goto(o, where)
             \/ \E list \in SUBSET (Team \cup Project \cup Issue), fresh \in BOOLEAN :
                    Reply(o, Answer("ok", list, fresh, FALSE))
      PROVE  TypeOK'
  <2>1. /\ pc' \in [Operation -> Phase]
        /\ reply' \in [Operation -> [code : Codes, list : SUBSET (Team \cup Project \cup Issue),
                                     fresh : BOOLEAN, failed : BOOLEAN]]
    BY <1>2, <1>3, ErrorsTyped, GotoTyped, RepliesTyped
  <2> QED
    BY <1>1, <1>3, <2>1, ReadsTyped, Together
<1>4. CASE GetTeam(o)
  <2>1. Rest'
    BY <1>1, <1>4 DEF TypeOK, Rest, GetTeam
  <2> QED
    BY <1>3, <1>4, <2>1, ErrorNames DEF GetTeam, Phase
<1>5. CASE LoadTeams(o)
  <2> DEFINE u == field[o].user
             loader == teamsOf[o][u]
             list == IF loader.asked THEN loader.list ELSE TeamsIn(db, u)
  <2>1. list \subseteq Team /\ loader.asked \in BOOLEAN
    BY <1>1 DEF TypeOK
  <2>2. Rest'
    <3>1. /\ teamsOf' = [teamsOf EXCEPT ![o][u] = Loaded(list)]
          /\ view' = [view EXCEPT ![o] = list] /\ UNCHANGED <<begun, count, field, projectsOf>>
      BY <1>5 DEF LoadTeams
    <3>2. Loaded(list) \in [asked : BOOLEAN, list : SUBSET Team]
      BY <2>1 DEF Loaded
    <3> HIDE DEF list, u
    <3> QED
      BY <1>1, <2>1, <3>1, <3>2 DEF TypeOK, Rest, u
  <2>3. Goto(o, "projects") \/ Reply(o, Answer("ok", list, ~loader.asked, FALSE))
    BY <1>5 DEF LoadTeams
  <2> DEFINE fresh == ~loader.asked
  <2>4. fresh \in BOOLEAN /\ list \in SUBSET (Team \cup Project \cup Issue)
        /\ "projects" \in Phase
    BY <2>1 DEF Phase
  <2>5. Goto(o, "projects") \/ Reply(o, Answer("ok", list, fresh, FALSE))
    BY <2>3
  <2> HIDE DEF list, fresh
  <2> QED
    BY <1>3, <2>2, <2>4, <2>5
<1>6. CASE LoadProjects(o)
  <2> DEFINE list(t) == IF projectsOf[o][t].asked THEN projectsOf[o][t].list
                                                  ELSE ProjectsIn(db, {t})
  <2>1. \A t \in Team : list(t) \subseteq Project /\ Loaded(list(t)) \in
            [asked : BOOLEAN, list : SUBSET Project]
    BY <1>1 DEF TypeOK, Loaded
  <2>2. view[o] \subseteq Team
    BY DEF TypeOK
  <2> HIDE DEF list
  <2>3. /\ projectsOf' = [projectsOf EXCEPT ![o] =
               [t \in Team |-> IF t \in view[o] THEN Loaded(list(t)) ELSE projectsOf[o][t]]]
        /\ Reply(o, Answer("ok", UNION {list(t) : t \in view[o]}, TRUE, FALSE))
        /\ UNCHANGED <<begun, count, field, view, teamsOf>>
    BY <1>6 DEF LoadProjects, list
  <2>4. Rest'
    BY <2>1, <2>2, <2>3 DEF TypeOK, Rest
  <2>5. UNION {list(t) : t \in view[o]} \in SUBSET (Team \cup Project \cup Issue)
    BY <2>1, <2>2
  <2> QED
    BY <1>3, <2>3, <2>4, <2>5
<1>7. CASE IssuesTeams(o)
  <2>1. Rest'
    BY <1>1, <1>7 DEF TypeOK, Rest, IssuesTeams
  <2>2. Reply(o, Answer("ok", {}, TRUE, FALSE)) \/ Goto(o, "page")
    BY <1>7 DEF IssuesTeams, NoReply
  <2>3. {} \in SUBSET (Team \cup Project \cup Issue) /\ "page" \in Phase
    BY DEF Phase
  <2> QED
    BY <1>3, <2>1, <2>2, <2>3
<1>8. CASE IssuesPage(o)
  <2>1. PICK place \in Orders(Visible(db, view[o])) :
            /\ Reply(o, Answer("ok", Page(place, field[o].page, field[o].limit), TRUE, FALSE))
            /\ Keeps
    BY <1>8 DEF IssuesPage
  <2> DEFINE page == Page(place, field[o].page, field[o].limit)
  <2>2. page \in SUBSET (Team \cup Project \cup Issue)
    BY PageOfRows DEF Visible
  <2>3. Reply(o, Answer("ok", page, TRUE, FALSE)) /\ Keeps
    BY <2>1
  <2> HIDE DEF page
  <2> QED
    BY <1>3, <2>2, <2>3, KeepsTyped
<1> QED
  BY <1>4, <1>5, <1>6, <1>7, <1>8

LEMMA TypesStep == TypeOK /\ [Next]_vars => TypeOK'
<1> SUFFICES ASSUME TypeOK, [Next]_vars PROVE TypeOK'
  OBVIOUS
<1>1. ASSUME NEW o \in Operation, NEW f \in Asked, Begin(o, f) \/ NextField(o, f) PROVE TypeOK'
  <2>1. f \in Field /\ db \in Database
    BY TeamAssumption DEF TypeOK
  <2>2. NoReply \in [code : Codes, list : SUBSET (Team \cup Project \cup Issue),
                     fresh : BOOLEAN, failed : BOOLEAN]
    BY DEF NoReply, Answer, Codes
  <2>3. CASE Begin(o, f)
    BY <2>1, <2>2, <2>3 DEF TypeOK, Begin
  <2>4. CASE NextField(o, f)
    BY <2>1, <2>2, <2>4 DEF TypeOK, NextField
  <2> QED
    BY <1>1, <2>3, <2>4
<1>2. ASSUME NEW o \in Operation, End(o) PROVE TypeOK'
  <2>1. None \in Field
    BY TeamAssumption DEF None
  <2>2. NoReply \in [code : Codes, list : SUBSET (Team \cup Project \cup Issue),
                     fresh : BOOLEAN, failed : BOOLEAN]
    BY DEF NoReply, Answer, Codes
  <2> QED
    BY <1>2, <2>1, <2>2 DEF TypeOK, End, Unload, NotAsked
<1>3. ASSUME NEW o \in Operation, Handle(o) PROVE TypeOK'
  BY <1>1, <1>2, <1>3, FindsTyped, TeamWritesTyped, ListsTyped DEF Handle
<1>4. ASSUME NEW t \in Team, SyncAdds(t) PROVE TypeOK'
  <2>1. db \in Database
    BY DEF TypeOK
  <2> QED
    BY <1>4, <2>1, SyncAddsTyped, SyncTyped DEF SyncAdds
<1>5. ASSUME NEW t \in Team, SyncDrops(t) PROVE TypeOK'
  <2>1. db \in Database
    BY DEF TypeOK
  <2>2. [db EXCEPT !.teams = @ \ {t}, !.projects = {q \in @ : HomeOf[q] # t},
            !.keyed = {i \in @ : KeyOf[i] # t /\ HomeOf[ProjectOf[i]] # t}] \in Database
    BY <1>5, <2>1 DEF SyncDrops, Database
  <2> QED
    BY <1>5, <2>2, SyncTyped DEF SyncDrops
<1>6. ASSUME NEW p \in Project, SyncDropsProject(p) PROVE TypeOK'
  <2>1. db \in Database
    BY DEF TypeOK
  <2>2. [db EXCEPT !.projects = @ \ {p}, !.keyed = {i \in @ : ProjectOf[i] # p}] \in Database
    BY <2>1 DEF Database
  <2> QED
    BY <1>6, <2>2, SyncTyped DEF SyncDropsProject
<1>7. CASE UNCHANGED vars
  BY <1>7 DEF TypeOK, vars
<1> QED
  BY <1>3, <1>4, <1>5, <1>6, <1>7 DEF Next

LEMMA TypesBegin == Init => TypeOK
<1> SUFFICES ASSUME Init PROVE TypeOK
  OBVIOUS
<1>1. None \in Field
  BY TeamAssumption DEF None
<1>2. NoReply \in [code : Codes, list : SUBSET (Team \cup Project \cup Issue),
                   fresh : BOOLEAN, failed : BOOLEAN]
  BY DEF NoReply, Answer, Codes
<1> QED
  BY <1>1, <1>2 DEF Init, TypeOK, NotAsked

\* Every row, list and code is what it should be: the synchronisation and the fields,
\* which look first and write later, leave no reference to what is gone.
THEOREM TeamTypes == Spec => []TypeOK
<1> QED
  BY TypesBegin, TypesStep, PTL DEF Spec

---------------------------------------------------------------------------
\* What a member sees.  A query has one field, so that its loaders are new; it has
\* read the teams of its user at an instant of the field.
Members ==
    /\ view = [o \in Operation |-> view[o]]
    /\ projectsOf = [o \in Operation |-> projectsOf[o]]
    /\ \A o \in Operation : projectsOf[o] = [t \in Team |-> projectsOf[o][t]]
    /\ \A o \in Operation : view[o] \subseteq Team

\* Where a query is, and a mutation is not.
Placed(o) ==
    /\ At(o, "page") => Does(o, "issues")
    /\ At(o, "projects") => ~Does(o, "issues")

\* The loaders of a query have not been asked.
Unasked(o) ==
    /\ At(o, "idle") \/ (At(o, "field") /\ Does(o, "myProjects")) =>
           \A u \in User : ~teamsOf[o][u].asked
    /\ At(o, "idle") \/ ((At(o, "field") \/ At(o, "projects")) /\ Does(o, "myProjects")) =>
           \A t \in Team : ~projectsOf[o][t].asked

ViewTrue(o) ==
    At(o, "page") \/ (At(o, "projects") /\ Does(o, "myProjects")) =>
        \E d \in lately[o] : view[o] = TeamsIn(d, field[o].user)

Shows(o) ==
    LET u == field[o].user IN
    /\ Listed(o, "issues") =>
           \A i \in reply[o].list :
               \/ \E d \in lately[o] : HomeOf[ProjectOf[i]] \in TeamsIn(d, u)
               \/ \E d \in lately[o] : KeyOf[i] \in TeamsIn(d, u)
    /\ Listed(o, "myProjects") =>
           /\ \A p \in reply[o].list :
                  /\ \E d \in lately[o] : HomeOf[p] \in TeamsIn(d, u)
                  /\ \E d \in lately[o] : p \in d.projects
           /\ ~reply[o].failed =>
                  \A p \in Project :
                      (\A d \in lately[o] : p \in ProjectsIn(d, TeamsIn(d, u))) =>
                          p \in reply[o].list

Own(o) == Placed(o) /\ Unasked(o) /\ ViewTrue(o) /\ Shows(o)

MemberInv == Inv /\ Members /\ \A o \in Operation : Own(o)

\* An operation that does nothing itself.
LEMMA OwnKept ==
  ASSUME NEW o \in Operation, Own(o),
         pc'[o] = pc[o], field'[o] = field[o], reply'[o] = reply[o], view'[o] = view[o],
         teamsOf'[o] = teamsOf[o], projectsOf'[o] = projectsOf[o],
         lately[o] \subseteq lately'[o]
  PROVE  Own(o)'
<1> USE DEF At, Does, Listed
<1>1. Placed(o)' /\ Unasked(o)' /\ ViewTrue(o)'
  BY DEF Own, Placed, Unasked, ViewTrue
<1>2. Shows(o)'
  BY DEF Own, Shows
<1> QED
  BY <1>1, <1>2 DEF Own

\* A field that is a mutation, or one team, says nothing of what its user sees.
LEMMA OwnNothing ==
  ASSUME NEW o \in Operation, ~At(o, "idle")', ~At(o, "page")',
         ~Does(o, "issues")', ~Does(o, "myProjects")'
  PROVE  Own(o)'
BY DEF Own, Placed, Unasked, ViewTrue, Shows, Listed

\* Steps of one operation are of no concern to the others.
LEMMA OthersKept ==
  ASSUME Inv, Members, NEW x \in Operation, Handle(x), NEW o \in Operation, o # x
  PROVE  /\ pc'[o] = pc[o] /\ field'[o] = field[o] /\ reply'[o] = reply[o]
         /\ view'[o] = view[o] /\ teamsOf'[o] = teamsOf[o] /\ projectsOf'[o] = projectsOf[o]
         /\ lately[o] \subseteq lately'[o]
<1> USE DEF Inv, Shape, Members, Reads, Keeps, Writes, Noted, Goto, Reply
<1>1. CASE \E f \in Asked : Begin(x, f) \/ NextField(x, f)
  BY <1>1 DEF Begin, NextField
<1>2. CASE AddFind(x) \/ RemoveFind(x) \/ CreateFind(x) \/ GetTeam(x) \/ Fault(x)
  BY <1>2 DEF AddFind, RemoveFind, CreateFind, GetTeam, Fault, Throw, Failed
<1>3. CASE AddWrite(x) \/ RemoveWrite(x) \/ CreateWrite(x)
  <2>1. /\ UNCHANGED <<field, teamsOf, projectsOf>>
        /\ view' = view \/ \E list : view' = [view EXCEPT ![x] = list]
    BY <1>3 DEF AddWrite, RemoveWrite, CreateWrite, Commit
  <2>2. Reads \/ \E d : Writes(x, d)
    <3>1. CASE AddWrite(x)
      BY <3>1 DEF AddWrite, Commit
    <3>2. CASE RemoveWrite(x)
      BY <3>2 DEF RemoveWrite, Commit
    <3>3. CASE CreateWrite(x)
      BY <3>3 DEF CreateWrite, Commit
    <3> QED
      BY <1>3, <3>1, <3>2, <3>3
  <2>3. \/ \E where : Goto(x, where)
        \/ \E c, failed : Reply(x, Answer(c, {}, TRUE, failed))
    <3>1. CASE AddWrite(x)
      BY <3>1 DEF AddWrite, Commit, Throw, Failed
    <3>2. CASE RemoveWrite(x)
      BY <3>2 DEF RemoveWrite, Commit, Throw, Failed
    <3>3. CASE CreateWrite(x)
      BY <3>3 DEF CreateWrite, Commit, Throw, Failed
    <3> QED
      BY <1>3, <3>1, <3>2, <3>3
  <2>4. lately[o] \subseteq lately'[o]
    <3>1. CASE Reads
      BY <3>1
    <3>2. ASSUME NEW d, Writes(x, d) PROVE lately[o] \subseteq lately'[o]
      BY <3>2
    <3> QED
      BY <2>2, <3>1, <3>2
  <2>5. pc'[o] = pc[o] /\ reply'[o] = reply[o]
    BY <2>3
  <2>6. view'[o] = view[o]
    BY <2>1
  <2> QED
    BY <2>1, <2>4, <2>5, <2>6
<1>4. CASE LoadTeams(x) \/ LoadProjects(x)
  BY <1>4 DEF LoadTeams, LoadProjects
<1>5. CASE IssuesTeams(x) \/ IssuesPage(x)
  BY <1>5 DEF IssuesTeams, IssuesPage
<1>6. CASE End(x)
  BY <1>6 DEF End, Unload
<1> QED
  BY <1>1, <1>2, <1>3, <1>4, <1>5, <1>6 DEF Handle

\* The steps that are about a user's projects or issues.
LEMMA OwnLoadTeams ==
  ASSUME MemberInv, NEW o \in Operation, LoadTeams(o)
  PROVE  Own(o)'
<1> DEFINE u == field[o].user
<1>1. /\ field' = field /\ projectsOf' = projectsOf /\ lately' = lately
      /\ u \in User /\ db \in lately[o]
  BY DEF LoadTeams, Reads, MemberInv, Inv, Shape, OpInv, Noticed, Field, At
<1>2. CASE At(o, "load")
  <2>1. Does(o, "addUserToTeam") \/ Does(o, "removeUserFromTeam")
    BY <1>2 DEF MemberInv, Inv, OpInv, Passing
  <2>2. pc'[o] = "done"
    BY <1>2, <2>1 DEF LoadTeams, Reply, Does, MemberInv, Inv, Shape
  <2> QED
    BY <1>1, <2>1, <2>2, OwnNothing DEF At, Does
<1>3. CASE At(o, "field") /\ Does(o, "myProjects")
  <2>1. ~teamsOf[o][u].asked /\ \A t \in Team : ~projectsOf[o][t].asked
    BY <1>1, <1>3 DEF MemberInv, Own, Unasked
  <2>2. view'[o] = TeamsIn(db, u)
    BY <2>1 DEF LoadTeams, MemberInv, Members
  <2>3. CASE TeamsIn(db, u) # {}
    <3>1. pc'[o] = "projects"
      BY <1>3, <2>1, <2>3 DEF LoadTeams, Goto, MemberInv, Inv, Shape
    <3> QED
      BY <1>1, <1>3, <2>1, <2>2, <3>1
      DEF Own, Placed, Unasked, ViewTrue, Shows, Listed, At, Does
  <2>4. CASE TeamsIn(db, u) = {}
    <3>0. Reply(o, Answer("ok", {}, TRUE, FALSE))
      BY <1>3, <2>1, <2>4 DEF LoadTeams
    <3>1. pc'[o] = "done" /\ reply'[o].list = {}
      BY <3>0 DEF Reply, Answer, MemberInv, Inv, Shape
    <3>2. \A p \in Project : p \notin ProjectsIn(db, TeamsIn(db, u))
      BY <2>4 DEF ProjectsIn
    <3>3. Shows(o)'
      BY <1>1, <1>3, <3>1, <3>2 DEF Shows, Listed, Does
    <3> QED
      BY <3>1, <3>3 DEF Own, Placed, Unasked, ViewTrue, At
  <2> QED
    BY <2>3, <2>4
<1> QED
  BY <1>2, <1>3 DEF LoadTeams

LEMMA OwnLoadProjects ==
  ASSUME MemberInv, NEW o \in Operation, LoadProjects(o)
  PROVE  Own(o)'
<1> DEFINE u == field[o].user
<1>1. /\ field' = field /\ lately' = lately /\ At(o, "projects") /\ pc'[o] = "done"
      /\ db \in lately[o]
  BY DEF LoadProjects, Reads, Reply, MemberInv, Inv, Shape, OpInv, Noticed, At
<1>2. ~Does(o, "issues")
  BY <1>1 DEF MemberInv, Own, Placed
<1>3. CASE ~Does(o, "myProjects")
  BY <1>1, <1>2, <1>3, OwnNothing DEF At, Does
<1>4. CASE Does(o, "myProjects")
  <2>1. /\ \A t \in Team : ~projectsOf[o][t].asked
        /\ \E d \in lately[o] : view[o] = TeamsIn(d, u)
    BY <1>1, <1>4 DEF MemberInv, Own, Unasked, ViewTrue
  <2>2. view[o] \subseteq Team
    BY DEF MemberInv, Members
  <2>3. reply'[o].list = UNION {ProjectsIn(db, {t}) : t \in view[o]}
    <3>1. \A t \in view[o] : ~projectsOf[o][t].asked
      BY <2>1, <2>2
    <3>2. reply' = [reply EXCEPT ![o] = Answer("ok", UNION {ProjectsIn(db, {t}) : t \in view[o]},
                                               TRUE, FALSE)]
      BY <3>1 DEF LoadProjects, Reply
    <3> QED
      BY <3>2 DEF Answer, MemberInv, Inv, Shape
  <2>4. \A p : p \in reply'[o].list <=> p \in db.projects /\ HomeOf[p] \in view[o]
    BY <2>3 DEF ProjectsIn
  <2>5. PICK d \in lately[o] : view[o] = TeamsIn(d, u)
    BY <2>1
  <2>6. Shows(o)'
    <3>1. \A p \in reply'[o].list :
              HomeOf[p] \in TeamsIn(d, u) /\ p \in db.projects
      BY <2>4, <2>5
    <3>2. \A p \in Project : (\A e \in lately[o] : p \in ProjectsIn(e, TeamsIn(e, u))) =>
              p \in reply'[o].list
      BY <1>1, <2>4, <2>5 DEF ProjectsIn
    <3> QED
      BY <1>1, <1>4, <2>5, <3>1, <3>2 DEF Shows, Listed, Does
  <2> QED
    BY <1>1, <2>6 DEF Own, Placed, Unasked, ViewTrue, At
<1> QED
  BY <1>3, <1>4

LEMMA OwnIssuesTeams ==
  ASSUME MemberInv, NEW o \in Operation, IssuesTeams(o)
  PROVE  Own(o)'
<1>1. /\ field' = field /\ lately' = lately /\ Does(o, "issues") /\ db \in lately[o]
      /\ view'[o] = TeamsIn(db, field[o].user)
  BY DEF IssuesTeams, Reads, MemberInv, Members, Inv, Shape, OpInv, Noticed, At
<1>2. CASE Reply(o, NoReply)
  <2>1. pc'[o] = "done" /\ reply'[o].list = {}
    BY <1>2 DEF Reply, NoReply, Answer, MemberInv, Inv, Shape
  <2> QED
    BY <1>1, <2>1 DEF Own, Placed, Unasked, ViewTrue, Shows, Listed, At, Does
<1>3. CASE Goto(o, "page")
  <2>1. pc'[o] = "page"
    BY <1>3 DEF Goto, MemberInv, Inv, Shape
  <2> QED
    BY <1>1, <2>1 DEF Own, Placed, Unasked, ViewTrue, Shows, Listed, At, Does
<1> QED
  BY <1>2, <1>3 DEF IssuesTeams

LEMMA OwnIssuesPage ==
  ASSUME MemberInv, NEW o \in Operation, IssuesPage(o)
  PROVE  Own(o)'
<1>0. PICK place \in Orders(Visible(db, view[o])) :
          Reply(o, Answer("ok", Page(place, field[o].page, field[o].limit), TRUE, FALSE))
  BY DEF IssuesPage
<1>1. /\ field' = field /\ lately' = lately /\ At(o, "page") /\ pc'[o] = "done"
      /\ reply'[o].list = Page(place, field[o].page, field[o].limit)
  BY <1>0 DEF IssuesPage, Reads, Keeps, Reply, Answer, MemberInv, Inv, Shape
<1>2. Does(o, "issues") /\ \E d \in lately[o] : view[o] = TeamsIn(d, field[o].user)
  BY <1>1 DEF MemberInv, Own, Placed, ViewTrue
<1>3. \A i \in reply'[o].list : KeyOf[i] \in view[o] \/ HomeOf[ProjectOf[i]] \in view[o]
  <2>1. reply'[o].list \subseteq Visible(db, view[o])
    BY <1>1, PageOfRows
  <2> QED
    BY <2>1 DEF Visible, InTeams
<1>4. Shows(o)'
  BY <1>1, <1>2, <1>3 DEF Shows, Listed, Does
<1> QED
  BY <1>1, <1>4 DEF Own, Placed, Unasked, ViewTrue, At

LEMMA OwnFault ==
  ASSUME MemberInv, NEW o \in Operation, Fault(o)
  PROVE  Own(o)'
<1>1. pc'[o] = "done" /\ field' = field
  BY DEF Fault, Keeps, Failed, Reply, MemberInv, Inv, Shape
<1>2. CASE At(o, "projects") /\ Does(o, "myProjects")
  <2>1. reply'[o].list = {} /\ reply'[o].failed
    <3>1. Reply(o, Answer("ok", {}, TRUE, TRUE))
      BY <1>2 DEF Fault
    <3> QED
      BY <3>1 DEF Reply, Answer, MemberInv, Inv, Shape
  <2> QED
    BY <1>1, <1>2, <2>1 DEF Own, Placed, Unasked, ViewTrue, Shows, Listed, At, Does
<1>3. CASE ~(At(o, "projects") /\ Does(o, "myProjects"))
  <2>1. \E e \in {"OperationFailedException", "otherPrismaError", "unfiltered"} : Failed(o, e)
    BY <1>3 DEF Fault
  <2>2. reply'[o].code # "ok"
    BY <2>1 DEF Failed, Reply, Answer, Code, MemberInv, Inv, Shape
  <2> QED
    BY <1>1, <2>2 DEF Own, Placed, Unasked, ViewTrue, Shows, Listed, At
<1> QED
  BY <1>2, <1>3

LEMMA OwnStep ==
  ASSUME MemberInv, NEW o \in Operation, Handle(o)
  PROVE  Own(o)'
<1> USE DEF MemberInv, Inv, Shape, Members
<1>1. ASSUME NEW f \in Asked, Begin(o, f) PROVE Own(o)'
  <2>1. /\ pc'[o] = "field" /\ UNCHANGED <<teamsOf, projectsOf>> /\ At(o, "idle")
    BY <1>1 DEF Begin
  <2>2. /\ \A u \in User : ~teamsOf[o][u].asked
        /\ \A t \in Team : ~projectsOf[o][t].asked
    BY <2>1 DEF Own, Unasked
  <2> QED
    BY <2>1, <2>2 DEF Own, Placed, Unasked, ViewTrue, Shows, Listed, At
<1>2. ASSUME NEW f \in Asked, NextField(o, f) PROVE Own(o)'
  <2>1. pc'[o] = "field" /\ field'[o] = f /\ f.do \in Mutation
    BY <1>2 DEF NextField
  <2> QED
    BY <2>1, OwnNothing DEF At, Does, Mutation
<1>3. CASE AddFind(o) \/ RemoveFind(o) \/ CreateFind(o) \/ GetTeam(o)
  <2>1. /\ field' = field /\ ~Does(o, "issues") /\ ~Does(o, "myProjects")
        /\ pc'[o] \in {"write", "load", "projects", "done"}
    BY <1>3 DEF AddFind, RemoveFind, CreateFind, GetTeam, Keeps, Throw, Reply, Goto, Does
  <2> QED
    BY <2>1, OwnNothing DEF At, Does
<1>4. CASE AddWrite(o) \/ RemoveWrite(o) \/ CreateWrite(o)
  <2>1. /\ field' = field /\ ~Does(o, "issues") /\ ~Does(o, "myProjects")
        /\ pc'[o] \in {"load", "projects", "done"}
    BY <1>4 DEF AddWrite, RemoveWrite, CreateWrite, Keeps, Commit, Failed, Throw, Reply, Goto,
                Does
  <2> QED
    BY <2>1, OwnNothing DEF At, Does
<1>5. CASE End(o)
  <2>1. /\ pc'[o] = "idle" /\ teamsOf'[o] = [u \in User |-> NotAsked]
        /\ projectsOf'[o] = [t \in Team |-> NotAsked]
    BY <1>5 DEF End, Unload
  <2> QED
    BY <2>1 DEF Own, Placed, Unasked, ViewTrue, Shows, Listed, At, NotAsked
<1>6. CASE LoadTeams(o) \/ LoadProjects(o) \/ IssuesTeams(o) \/ IssuesPage(o) \/ Fault(o)
  BY <1>6, OwnLoadTeams, OwnLoadProjects, OwnIssuesTeams, OwnIssuesPage, OwnFault
<1> QED
  BY <1>1, <1>2, <1>3, <1>4, <1>5, <1>6 DEF Handle

LEMMA MembersTyped == TypeOK => Members
BY DEF TypeOK, Members

LEMMA MemberNext == MemberInv /\ TypeOK /\ [Next]_vars => MemberInv'
<1> SUFFICES ASSUME MemberInv, TypeOK, [Next]_vars PROVE MemberInv'
  OBVIOUS
<1>1. Inv' /\ Members'
  <2>1. Inv' /\ TypeOK'
    BY NextInv, TypesStep DEF MemberInv
  <2> QED
    BY <2>1 DEF TypeOK, Members
<1> SUFFICES ASSUME NEW o \in Operation PROVE Own(o)'
  BY <1>1 DEF MemberInv
<1>2. Own(o)
  BY DEF MemberInv
<1>3. ASSUME NEW x \in Operation, Handle(x) PROVE Own(o)'
  <2>1. CASE x = o
    BY <1>3, <2>1, OwnStep
  <2>2. CASE x # o
    BY <1>2, <1>3, <2>2, OthersKept, OwnKept DEF MemberInv
  <2> QED
    BY <2>1, <2>2
<1>4. ASSUME NEW d, Synchronise(d) PROVE Own(o)'
  <2>1. lately[o] \subseteq lately'[o]
    BY <1>4 DEF Synchronise, Noted
  <2> QED
    BY <1>2, <1>4, <2>1, OwnKept DEF Synchronise
<1>5. CASE UNCHANGED vars
  BY <1>2, <1>5, OwnKept DEF vars
<1> QED
  BY <1>3, <1>4, <1>5 DEF Next, SyncAdds, SyncDrops, SyncDropsProject

LEMMA MemberInit == Init => MemberInv
<1> SUFFICES ASSUME Init PROVE MemberInv
  OBVIOUS
<1>1. Inv /\ Members
  BY InitInv, TypesBegin, MembersTyped
<1>2. ASSUME NEW o \in Operation PROVE Own(o)
  BY DEF Init, Own, Placed, Unasked, ViewTrue, Shows, Listed, At, NotAsked
<1> QED
  BY <1>1, <1>2 DEF MemberInv

\* Issues and projects are shown to members of their teams, and myProjects forgets no
\* project that was theirs all the time (issue.service.ts, user.resolver.ts).
THEOREM MembersSound == Spec => []MembersSeeTheirs
<1>1. MemberInv => MembersSeeTheirs
  <2> SUFFICES ASSUME MemberInv PROVE MembersSeeTheirs
    OBVIOUS
  <2>1. \A o \in Operation : Shows(o)
    BY DEF MemberInv, Own
  <2> QED
    BY <2>1 DEF MembersSeeTheirs, Shows, Once, Throughout
<1> QED
  BY <1>1, MemberInit, MemberNext, TypesBegin, TypesStep, PTL DEF Spec

---------------------------------------------------------------------------
\* Pages.  The row with so many rows before it is on the page that its number says,
\* and on no other; a product grows with its factors.
LEMMA ProductGrows ==
  ASSUME NEW a \in Nat, NEW b \in Nat, NEW limit \in Nat, a < b
  PROVE  a * limit + limit <= b * limit
OBVIOUS

LEMMA Quotient ==
  ASSUME NEW n \in Nat, NEW limit \in Nat \ {0}
  PROVE  /\ n \div limit \in Nat /\ n \div limit <= n
         /\ (n \div limit) * limit <= n
         /\ n < (n \div limit) * limit + limit
<1>1. /\ n \div limit \in Nat /\ (n \div limit) * limit <= n
      /\ n < (n \div limit + 1) * limit
  OBVIOUS
<1>2. (n \div limit + 1) * limit = (n \div limit) * limit + limit
  BY <1>1
<1>3. n \div limit <= n
  OBVIOUS
<1> QED
  BY <1>1, <1>2, <1>3

\* An order gives each row a place, and each place to a row.
LEMMA Places ==
  ASSUME NEW rows, IsFiniteSet(rows), NEW place \in Orders(rows)
  PROVE  /\ Cardinality(rows) \in Nat
         /\ place \in [rows -> 0..Cardinality(rows) - 1] /\ DOMAIN place = rows
         /\ \A j, k \in rows : place[j] = place[k] => j = k
         /\ \A n \in 0..Cardinality(rows) - 1 : \E k \in rows : place[k] = n
         /\ \A j, k \in rows : UpdatedAt[j] > UpdatedAt[k] => place[j] < place[k]
BY FS_CardinalityType DEF Orders, Bijection, Injection, Surjection, IsInjective

\* So many numbers there are below n.
LEMMA Below == ASSUME NEW n \in Nat PROVE IsFiniteSet(0..n - 1) /\ Cardinality(0..n - 1) = n
<1>1. 0 \in Int /\ n - 1 \in Int
  OBVIOUS
<1>2. IsFiniteSet(0..n - 1) /\ Cardinality(0..n - 1) = IF 0 > n - 1 THEN 0 ELSE (n - 1) - 0 + 1
  BY <1>1, FS_Interval
<1> QED
  BY <1>2

\* Rows that have the places before n in one order and places up to n in another
\* would be fewer than they are.
LEMMA NotEarlier ==
  ASSUME NEW rows, IsFiniteSet(rows), rows \subseteq Issue,
         NEW one \in Orders(rows), NEW other \in Orders(rows),
         NEW j \in rows, NEW k \in rows, one[j] = other[k]
  PROVE  UpdatedAt[j] >= UpdatedAt[k]
<1> SUFFICES ASSUME UpdatedAt[j] < UpdatedAt[k] PROVE FALSE
  BY TeamAssumption
<1> DEFINE n == one[j]
           late == {i \in rows : UpdatedAt[i] >= UpdatedAt[k]}
           early == {i \in rows : other[i] <= n}
<1>1. n \in Nat /\ \A i \in rows : UpdatedAt[i] \in Nat /\ one[i] \in Nat /\ other[i] \in Nat
  BY Places, TeamAssumption
<1>2. IsFiniteSet(late) /\ IsFiniteSet(early) /\ late \in SUBSET rows
  <2>1. late \in SUBSET rows /\ early \in SUBSET rows
    OBVIOUS
  <2> QED
    BY <2>1, FS_Subset
<1>3. Cardinality(late) <= n
  <2> DEFINE f == [i \in late |-> one[i]]
  <2>1. \A i \in late : one[i] \in 0..n - 1
    <3> SUFFICES ASSUME NEW i \in late PROVE one[i] \in 0..n - 1
      OBVIOUS
    <3>1. UpdatedAt[i] > UpdatedAt[j]
      BY <1>1
    <3>2. one[i] < one[j]
      BY <3>1, Places
    <3> QED
      BY <1>1, <3>2
  <2>2. f \in Injection(late, 0..n - 1)
    BY <2>1, Places, Fun_IsInj
  <2> QED
    BY <1>1, <2>2, Below, FS_Injection
<1>4. Cardinality(early) = n + 1
  <2> DEFINE f == [i \in early |-> other[i]]
  <2>1. n <= Cardinality(rows) - 1 /\ Cardinality(rows) \in Nat
    BY Places
  <2>2. f \in [early -> 0..n]
    BY <1>1
  <2>3. \A a, b \in early : f[a] = f[b] => a = b
    BY Places
  <2>4. \A m \in 0..n : \E i \in early : f[i] = m
    <3> SUFFICES ASSUME NEW m \in 0..n PROVE \E i \in early : f[i] = m
      OBVIOUS
    <3>1. m \in 0..Cardinality(rows) - 1
      BY <1>1, <2>1
    <3>2. PICK i \in rows : other[i] = m
      BY <3>1, Places
    <3>3. i \in early
      BY <1>1, <3>2
    <3> QED
      BY <3>2, <3>3
  <2> HIDE DEF f
  <2>5. f \in Injection(early, 0..n) /\ f \in Surjection(early, 0..n)
    BY <2>2, <2>3, <2>4, Fun_IsInj, Fun_IsSurj
  <2>6. IsFiniteSet(0..n) /\ Cardinality(0..n) = n + 1
    <3>1. 0 \in Int /\ n \in Int
      BY <1>1
    <3>2. IsFiniteSet(0..n) /\ Cardinality(0..n) = IF 0 > n THEN 0 ELSE n - 0 + 1
      BY <3>1, FS_Interval
    <3> QED
      BY <1>1, <3>2
  <2>7. Cardinality(early) = Cardinality(0..n)
    BY <2>5, <2>6, FS_Injection
  <2> QED
    BY <2>6, <2>7
<1>5. early \subseteq late
  <2> SUFFICES ASSUME NEW i \in early PROVE UpdatedAt[i] >= UpdatedAt[k]
    OBVIOUS
  <2>1. ~(UpdatedAt[k] > UpdatedAt[i])
    <3>1. other[i] <= other[k] /\ other[i] \in Nat /\ other[k] \in Nat
      BY <1>1
    <3>2. UpdatedAt[k] > UpdatedAt[i] => other[k] < other[i]
      BY Places
    <3> QED
      BY <3>1, <3>2
  <2> QED
    BY <1>1, <2>1
<1>6. Cardinality(early) <= Cardinality(late) /\ Cardinality(late) \in Nat
  BY <1>2, <1>5, FS_Subset, FS_CardinalityType
<1> HIDE DEF early, late, n
<1> QED
  BY <1>1, <1>3, <1>4, <1>6

\* The place says when its row was updated, whatever the order.
LEMMA SamePlace ==
  ASSUME NEW rows, IsFiniteSet(rows), rows \subseteq Issue,
         NEW one \in Orders(rows), NEW other \in Orders(rows),
         NEW j \in rows, NEW k \in rows, one[j] = other[k]
  PROVE  UpdatedAt[j] = UpdatedAt[k]
<1>1. UpdatedAt[j] >= UpdatedAt[k] /\ UpdatedAt[k] >= UpdatedAt[j]
  BY NotEarlier
<1> QED
  BY <1>1, TeamAssumption

\* Reading on, with a limit that is granted.
LEMMA ReadOnReaches ==
  ASSUME NEW limit \in 1..Cap, NEW total \in Nat, NEW page \in 1..total + 1,
         (page - 1) * limit < total \/ page = 1
  PROVE  page \in ReadOn(limit, total)
<1>1. Take(limit) = limit /\ Cap \in Nat
  BY TeamAssumption DEF Take, Least
<1>2. ASSUME NEW before \in 1..page - 1 PROVE HasNext(before, limit, total)
  <2>1. (before - 1) * limit + limit <= (page - 1) * limit
    BY <1>1, ProductGrows
  <2>2. page # 1 /\ (page - 1) * limit < total
    OBVIOUS
  <2>3. (before - 1) * limit \in Int /\ (page - 1) * limit \in Int
    BY <1>1
  <2> QED
    BY <1>1, <2>1, <2>2, <2>3 DEF HasNext, Skip
<1> QED
  BY <1>2 DEF ReadOn

LEMMA ReadOnEnds ==
  ASSUME NEW limit \in 1..Cap, NEW total \in Nat
  PROVE  \E page \in ReadOn(limit, total) : ~HasNext(page, limit, total)
<1>1. Take(limit) = limit /\ Cap \in Nat /\ limit \in Nat \ {0}
  BY TeamAssumption DEF Take, Least
<1>2. CASE total = 0
  <2>1. 1 \in ReadOn(limit, total)
    BY <1>2, ReadOnReaches
  <2>2. ~HasNext(1, limit, total)
    BY <1>1, <1>2 DEF HasNext, Skip
  <2> QED
    BY <2>1, <2>2
<1>3. CASE total # 0
  <2> DEFINE page == (total - 1) \div limit + 1
  <2>1. /\ page \in 1..total + 1
        /\ (page - 1) * limit <= total - 1 /\ total - 1 < (page - 1) * limit + limit
        /\ (page - 1) * limit \in Int
    BY <1>1, <1>3, Quotient
  <2> HIDE DEF page
  <2>2. page \in ReadOn(limit, total)
    BY <2>1, ReadOnReaches
  <2>3. ~HasNext(page, limit, total)
    BY <1>1, <2>1 DEF HasNext, Skip
  <2> QED
    BY <2>2, <2>3
<1> QED
  BY <1>2, <1>3

\* The place of a row is on one page, which reading on reaches.
LEMMA PageOfPlace ==
  ASSUME NEW limit \in 1..Cap, NEW total \in Nat, NEW n \in 0..total - 1
  PROVE  /\ n \div limit + 1 \in ReadOn(limit, total)
         /\ \A page \in Nat \ {0} :
                (page - 1) * limit <= n /\ n < (page - 1) * limit + limit
                    <=> page = n \div limit + 1
<1>1. limit \in Nat \ {0} /\ n \in Nat
  BY TeamAssumption
<1> DEFINE first == n \div limit + 1
<1>2. /\ first \in 1..total /\ first - 1 \in Nat
      /\ (first - 1) * limit <= n /\ n < (first - 1) * limit + limit
  BY <1>1, Quotient
<1> HIDE DEF first
<1>3. (first - 1) * limit \in Nat
  BY <1>1, <1>2
<1>4. first \in ReadOn(limit, total)
  BY <1>2, <1>3, ReadOnReaches
<1>5. ASSUME NEW page \in Nat \ {0}, (page - 1) * limit <= n, n < (page - 1) * limit + limit
      PROVE  page = first
  <2>1. (page - 1) * limit \in Nat
    BY <1>1
  <2>2. CASE page < first
    <3>1. (page - 1) * limit + limit <= (first - 1) * limit
      BY <1>1, <1>2, <2>2, ProductGrows
    <3> QED
      BY <1>1, <1>2, <1>3, <1>5, <2>1, <3>1
  <2>3. CASE first < page
    <3>1. (first - 1) * limit + limit <= (page - 1) * limit
      BY <1>1, <1>2, <2>3, ProductGrows
    <3> QED
      BY <1>1, <1>2, <1>3, <1>5, <2>1, <3>1
  <2> QED
    BY <1>2, <2>2, <2>3
<1> QED
  BY <1>2, <1>4, <1>5 DEF first

\* What is on a page, by its place.
LEMMA OnPage ==
  ASSUME NEW rows, IsFiniteSet(rows), NEW place \in Orders(rows), NEW limit \in 1..Cap,
         NEW page \in ReadOn(limit, Cardinality(rows)), NEW i \in rows
  PROVE  i \in Page(place, page, limit) <=> page = place[i] \div limit + 1
<1>1. Take(limit) = limit
  BY TeamAssumption DEF Take, Least
<1>2. page \in Nat \ {0} /\ Cardinality(rows) \in Nat /\ place[i] \in 0..Cardinality(rows) - 1
  BY Places DEF ReadOn
<1>3. i \in Page(place, page, limit) <=>
          (page - 1) * limit <= place[i] /\ place[i] < (page - 1) * limit + limit
  BY <1>1, Places DEF Page, Skip
<1> QED
  BY <1>2, <1>3, PageOfPlace

LEMMA AnyRowsShown ==
  ASSUME NEW rows, IsFiniteSet(rows), rows \subseteq Issue, NEW limit \in 1..Cap
  PROVE  Complete(rows, limit)
<1> DEFINE total == Cardinality(rows)
           pages == ReadOn(limit, total)
           Alone(i) == \A j \in rows : UpdatedAt[j] = UpdatedAt[i] => j = i
<1>1. total \in Nat /\ limit \in Nat \ {0} /\ pages \subseteq Nat \ {0}
  BY TeamAssumption, FS_CardinalityType DEF ReadOn
<1>2. ASSUME NEW order \in [pages -> Orders(rows)]
      PROVE  LET Shown(page) == Page(order[page], page, limit)
                 On(i) == {page \in pages : i \in Shown(page)}
             IN
             /\ \A p, q \in pages : p < q =>
                    \A i \in Shown(p), j \in Shown(q) : UpdatedAt[i] >= UpdatedAt[j]
             /\ \A i \in rows : Alone(i) => \E page \in pages : On(i) = {page}
             /\ (\E i \in rows : On(i) = {}) => \E i \in rows : \E p, q \in On(i) : p # q
  <2> DEFINE Shown(page) == Page(order[page], page, limit)
             On(i) == {page \in pages : i \in Shown(page)}
  <2>0. \A page \in pages : order[page] \in Orders(rows)
    OBVIOUS
  <2>1. \A page \in pages : /\ Shown(page) \subseteq rows
                            /\ \A i \in rows : i \in Shown(page) <=>
                                   page = order[page][i] \div limit + 1
    BY <2>0, PageOfRows, OnPage
  <2>2. \A page \in pages, i \in rows :
            order[page][i] \in 0..total - 1 /\ order[page][i] \in Nat
    BY <2>0, Places
  <2>3. ASSUME NEW p \in pages, NEW q \in pages, p < q, NEW i \in Shown(p), NEW j \in Shown(q)
        PROVE  UpdatedAt[i] >= UpdatedAt[j]
    <3>1. i \in rows /\ j \in rows /\ p = order[p][i] \div limit + 1 /\ q = order[q][j] \div limit + 1
      BY <2>1, <2>3
    <3>2. order[p][i] < order[q][j]
      <4>1. /\ order[p][i] < (p - 1) * limit + limit /\ (q - 1) * limit <= order[q][j]
            /\ p - 1 \in Nat /\ q - 1 \in Nat
        <5> DEFINE m == order[p][i]  n == order[q][j]
        <5>1. m \in Nat /\ n \in Nat
          BY <2>2, <3>1
        <5>2. p = m \div limit + 1 /\ q = n \div limit + 1
          BY <3>1
        <5> HIDE DEF m, n
        <5>3. /\ m \div limit \in Nat /\ m < (m \div limit) * limit + limit
              /\ n \div limit \in Nat /\ (n \div limit) * limit <= n
          BY <1>1, <5>1, Quotient
        <5>4. p - 1 = m \div limit /\ q - 1 = n \div limit
          BY <5>2, <5>3
        <5>5. m < (p - 1) * limit + limit /\ (q - 1) * limit <= n /\ p - 1 \in Nat /\ q - 1 \in Nat
          BY <5>3, <5>4
        <5> QED
          BY <5>5 DEF m, n
      <4>2. (p - 1) * limit + limit <= (q - 1) * limit
        BY <1>1, <2>3, <4>1, ProductGrows
      <4>3. (p - 1) * limit \in Nat /\ (q - 1) * limit \in Nat
        BY <1>1, <4>1
      <4> QED
        BY <1>1, <2>2, <3>1, <4>1, <4>2, <4>3
    <3>3. PICK k \in rows : order[q][k] = order[p][i]
      BY <2>0, <2>2, <3>1, Places
    <3>4. UpdatedAt[k] = UpdatedAt[i]
      BY <2>0, <3>1, <3>3, SamePlace
    <3>5. ~(UpdatedAt[j] > UpdatedAt[k])
      <4>1. UpdatedAt[j] > UpdatedAt[k] => order[q][j] < order[q][k]
        BY <2>0, <3>1, Places
      <4> QED
        BY <2>2, <3>1, <3>2, <3>3, <4>1
    <3> QED
      BY <3>1, <3>4, <3>5, TeamAssumption
  <2>4. ASSUME NEW i \in rows, Alone(i) PROVE \E page \in pages : On(i) = {page}
    <3>1. PICK place : place \in Orders(rows)
      <4>1. 1 \in pages
        BY <1>1, ReadOnReaches
      <4> QED
        BY <2>0, <4>1
    <3>2. \A page \in pages : order[page][i] = place[i]
      <4> SUFFICES ASSUME NEW page \in pages PROVE order[page][i] = place[i]
        OBVIOUS
      <4>1. PICK j \in rows : order[page][j] = place[i]
        BY <2>0, <3>1, Places
      <4>2. UpdatedAt[j] = UpdatedAt[i]
        BY <2>0, <3>1, <4>1, SamePlace
      <4> QED
        BY <2>4, <4>1, <4>2
    <3>3. place[i] \in 0..total - 1
      BY <3>1, Places
    <3>4. place[i] \div limit + 1 \in pages
      BY <1>1, <3>3, PageOfPlace
    <3>5. On(i) = {place[i] \div limit + 1}
      BY <2>1, <3>2, <3>4
    <3> QED
      BY <3>4, <3>5
  <2>5. ASSUME NEW i \in rows, On(i) = {}, \A k \in rows : \A p, q \in On(k) : p = q
        PROVE  FALSE
    <3> DEFINE PageAt(n) == n \div limit + 1
               f == [n \in 0..total - 1 |->
                        CHOOSE k \in rows : order[PageAt(n)][k] = n]
    <3>1. ASSUME NEW n \in 0..total - 1
          PROVE  PageAt(n) \in pages /\ f[n] \in rows /\ order[PageAt(n)][f[n]] = n
      <4>1. PageAt(n) \in pages
        BY <1>1, PageOfPlace
      <4>2. \E k \in rows : order[PageAt(n)][k] = n
        BY <2>0, <4>1, Places
      <4> QED
        BY <4>1, <4>2
    <3> HIDE DEF f
    <3>2. ASSUME NEW n \in 0..total - 1 PROVE PageAt(n) \in On(f[n])
      BY <2>1, <3>1
    <3>3. f \in [0..total - 1 -> rows]
      BY <3>1 DEF f
    <3>4. \A m, n \in 0..total - 1 : f[m] = f[n] => m = n
      <4> SUFFICES ASSUME NEW m \in 0..total - 1, NEW n \in 0..total - 1, f[m] = f[n] PROVE m = n
        OBVIOUS
      <4>1. PageAt(m) = PageAt(n)
        BY <2>5, <3>1, <3>2
      <4> QED
        BY <3>1, <4>1
    <3>5. f \in Injection(0..total - 1, rows)
      BY <3>3, <3>4, Fun_IsInj
    <3>6. f \in Surjection(0..total - 1, rows)
      BY <1>1, <3>5, Below, FS_Injection
    <3>7. PICK n \in 0..total - 1 : f[n] = i
      BY <3>6 DEF Surjection
    <3> QED
      BY <2>5, <3>2, <3>7
  <2> QED
    BY <2>3, <2>4, <2>5
<1>3. \E page \in pages : ~HasNext(page, limit, total)
  BY <1>1, ReadOnEnds
<1> QED
  BY <1>2, <1>3 DEF Complete

\* Reading on page by page shows what was updated later first, each issue that was not
\* updated together with another once, and leaves one out only where it shows another
\* twice; however many issues there are, in whatever order each query has those updated
\* at once, and whatever limit is granted.
THEOREM PagesSound == Spec => []PagesComplete
<1>1. PagesComplete
  <2>1. \A d, teams : Visible(d, teams) \in SUBSET Issue
    BY DEF Visible
  <2>2. \A d, teams : IsFiniteSet(Visible(d, teams))
    BY <2>1, TeamAssumption, FS_Subset
  <2> QED
    BY <2>1, <2>2, AnyRowsShown DEF PagesComplete
<1> QED
  BY <1>1, PTL
=============================================================================
