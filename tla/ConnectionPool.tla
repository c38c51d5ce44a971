--------------------------- MODULE ConnectionPool ---------------------------
(* The connections of prisma/prisma.service.ts, and who waits for them.  A    *)
(* transaction with a callback holds a connection until the callback is done; *)
(* a query outside of it needs another one.  The webhook for an issue opens a *)
(* transaction, does its queries outside of it (webhook.issue.service.ts),    *)
(* and one of them opens a second transaction with a query outside of that    *)
(* (updateLabelsForIssue): it holds two connections and waits for a third.    *)
(*                                                                            *)
(* The pool is Prisma's, and so are the time limits: to wait for a connection *)
(* in order to begin a transaction, or for a query, and for a transaction as  *)
(* a whole.  A transaction over its time loses its connection, but nothing    *)
(* stops the callback: it goes on until it needs the transaction.  Whoever    *)
(* asks first is served first.  What the queries do is another module's.      *)
EXTENDS Integers, Sequences, FiniteSets

CONSTANTS
    Handler,            \* requests, webhooks and synchronisations at once; a page,
                        \* whose rows are found and counted at once, is two of them
    Pools,              \* the numbers of connections the pool may have
    Used,               \* the programs that handlers run
    MaxWait,            \* to begin a transaction
    PoolTimeout,        \* to get a connection for a query
    TxTimeout,          \* for a transaction
    SyncTimeout,        \* for the synchronisation's
    QueryTime,          \* a query takes at most that long
    LinearTime          \* and Linear's answer

ASSUME PoolAssumption ==
    /\ IsFiniteSet(Handler)
    /\ Pools \subseteq Nat
    /\ Used \subseteq {"update", "upsert", "create", "remove", "change", "sync", "request",
                "count"}
    /\ {MaxWait, PoolTimeout, TxTimeout, SyncTimeout, QueryTime, LinearTime} \subseteq Nat \ {0}

VARIABLES
    size,               \* the number of connections
    queue,              \* who waits for one, first come first
    run,                \* what each handler is at: program, instruction, and since when
    tx                  \* its transactions, by depth, and their age

poolVars == <<size, queue, run, tx>>

(***************************************************************************)
(* The programs.  An instruction is what is done and at which depth, that  *)
(* is, how many transactions are open around it:                           *)
(*   query    a query on a connection of its own                           *)
(*   delete   the same, of labels that the webhook no longer names         *)
(*   inside   a query in the innermost transaction                         *)
(*   begin    opens one more, end commits the innermost                    *)
(*   linear   a question to Linear                                         *)
(* Each is the longest way through its handler, where nothing is cached;   *)
(* a shorter one leaves some queries out, or ends earlier (Refuse).        *)
(***************************************************************************)
Do(what, depth) == [what |-> what, depth |-> depth]

\* Mutant: the update of the row gets a transaction, too.
UpdateIssueNested ==
    <<Do("begin", 0), Do("query", 1), Do("begin", 1), Do("inside", 2), Do("begin", 2),
      Do("inside", 3), Do("delete", 3), Do("inside", 3), Do("end", 3), Do("end", 2),
      Do("query", 1), Do("end", 1)>>

\* Mutant: the labels are deleted when the others have been written.
UpdateIssueDeletesLast ==
    <<Do("begin", 0), Do("query", 1), Do("query", 1), Do("begin", 1), Do("inside", 2),
      Do("inside", 2), Do("inside", 2), Do("end", 2), Do("delete", 1), Do("query", 1),
      Do("query", 1), Do("end", 1)>>

UpdateIssue ==
    <<Do("begin", 0), Do("query", 1), Do("query", 1),                \* find, update
      Do("begin", 1), Do("inside", 2), Do("delete", 2),              \* labels: find, delete,
      Do("inside", 2), Do("inside", 2), Do("end", 2),                \* create, update
      Do("query", 1), Do("query", 1), Do("end", 1)>>                 \* fetch, update again

\* An update for an issue that is not there, when there is no project either.
UpsertIssue ==
    <<Do("begin", 0), Do("query", 1),
      Do("query", 1), Do("query", 1), Do("query", 1),                \* a project of the team, any,
      Do("begin", 1), Do("inside", 2), Do("inside", 2), Do("end", 2), \* or the Unassigned one
      Do("query", 1),                                                \* insert
      Do("begin", 1), Do("inside", 2), Do("delete", 2),              \* labels
      Do("inside", 2), Do("inside", 2), Do("end", 2),
      Do("query", 1), Do("end", 1)>>                                 \* fetch

CreateIssue ==
    <<Do("query", 0), Do("query", 0), Do("query", 0),                \* a project, as above
      Do("begin", 0), Do("inside", 1), Do("inside", 1), Do("end", 1),
      Do("query", 0),                                                \* insert
      Do("begin", 0), Do("inside", 1), Do("delete", 1),              \* labels
      Do("inside", 1), Do("inside", 1), Do("end", 1),
      Do("query", 0)>>                                               \* fetch

RemoveIssue == <<Do("begin", 0), Do("query", 1), Do("query", 1), Do("end", 1)>>

\* Of a rate, a team or a membership.
Change == <<Do("begin", 0), Do("inside", 1), Do("inside", 1), Do("end", 1)>>

Synchronise ==
    <<Do("begin", 0), Do("linear", 1), Do("inside", 1), Do("linear", 1), Do("inside", 1),
      Do("end", 1)>>

\* A user's page of issues: the memberships, then the rows.  Their number is asked for
\* together with the rows and does not wait for them: it counts as a handler of its own.
Request == <<Do("query", 0), Do("query", 0)>>
Count == <<Do("query", 0)>>

Program == [update |-> UpdateIssue, upsert |-> UpsertIssue, create |-> CreateIssue,
            remove |-> RemoveIssue, change |-> Change, sync |-> Synchronise, request |-> Request,
            count |-> Count]

---------------------------------------------------------------------------
Depth == 1..3           \* one more than is ever open
NoTx == [d \in Depth |-> [is |-> "none", age |-> 0]]
Idle == [of |-> "request", pc |-> 1, at |-> "idle", age |-> 0]
Step == [of : DOMAIN Program, pc : Nat \ {0}, at : {"idle", "waiting", "running"}, age : Nat]

PoolTypeOK ==
    /\ size \in Pools
    /\ queue \in Seq(Handler)
    /\ run \in [Handler -> Step]
    /\ tx \in [Handler -> [Depth -> [is : {"none", "alive", "over"}, age : Nat]]]

PoolInit ==
    /\ size \in Pools
    /\ queue = << >>
    /\ run = [h \in Handler |-> Idle]
    /\ tx = [h \in Handler |-> NoTx]

Op(h) == Program[run[h].of][run[h].pc]
At(h, where) == run[h].at = where
Alive(h, d) == d \in Depth /\ tx[h][d].is = "alive"

\* The connections in use: one for each transaction that is alive and for each
\* query that runs outside of one.
Plain(what) == what \in {"query", "delete"}
Needs(what) == Plain(what) \/ what = "begin"
HeldByTx == {x \in Handler \X Depth : Alive(x[1], x[2])}
HeldByQuery == {x \in Handler \X {0} : At(x[1], "running") /\ Plain(Op(x[1]).what)}
Taken == HeldByTx \cup HeldByQuery
Free == Cardinality(Taken) < size

WaitLimit(what) == IF what = "begin" THEN MaxWait ELSE PoolTimeout
RunLimit(what) == IF what = "linear" THEN LinearTime ELSE QueryTime
TxLimit(h) == IF run[h].of = "sync" THEN SyncTimeout ELSE TxTimeout

\* A handler comes to an instruction: it runs, or queues up for a connection.
Enter(h, of, pc, waiting) ==
    LET needs == Needs(Program[of][pc].what) IN
    /\ run' = [run EXCEPT ![h] = [of |-> of, pc |-> pc, age |-> 0,
                                  at |-> IF needs THEN "waiting" ELSE "running"]]
    /\ queue' = IF needs THEN Append(waiting, h) ELSE waiting

Stop(h, waiting) ==
    /\ run' = [run EXCEPT ![h] = Idle]
    /\ queue' = waiting
    /\ tx' = [tx EXCEPT ![h] = NoTx]

Start(h, of) ==
    /\ At(h, "idle")
    /\ Enter(h, of, 1, queue)
    /\ UNCHANGED <<size, tx>>

\* The first in the queue gets a connection.
Acquire(h) ==
    /\ queue # << >> /\ Head(queue) = h
    /\ Free
    /\ IF Op(h).what = "begin"
         THEN /\ tx' = [tx EXCEPT ![h][Op(h).depth + 1] = [is |-> "alive", age |-> 0]]
              /\ Enter(h, run[h].of, run[h].pc + 1, Tail(queue))
         ELSE /\ run' = [run EXCEPT ![h].at = "running", ![h].age = 0]
              /\ queue' = Tail(queue)
              /\ UNCHANGED tx
    /\ UNCHANGED size

GiveUp(h) ==
    /\ At(h, "waiting")
    /\ run[h].age = WaitLimit(Op(h).what)
    /\ Stop(h, SelectSeq(queue, LAMBDA g : g # h))
    /\ UNCHANGED size

\* An error ends a handler that runs: its transactions are rolled back.
Fail(h) == Stop(h, queue) /\ UNCHANGED size

\* The database refuses, or Linear.
Refuse(h) == At(h, "running") /\ Fail(h)

\* The transaction is over its time: the next query in it fails, or its end.
Closed(h) ==
    /\ At(h, "running")
    /\ Op(h).what \in {"inside", "end"}
    /\ ~Alive(h, Op(h).depth)
    /\ Fail(h)

Finish(h) ==
    /\ At(h, "running")
    /\ Op(h).what \in {"inside", "end"} => Alive(h, Op(h).depth)
    /\ IF run[h].pc = Len(Program[run[h].of])
         THEN Stop(h, queue)
         ELSE /\ Enter(h, run[h].of, run[h].pc + 1, queue)
              /\ tx' = IF Op(h).what = "end" THEN [tx EXCEPT ![h][Op(h).depth] = NoTx[1]] ELSE tx
    /\ UNCHANGED size

Expire(h, d) ==
    /\ Alive(h, d)
    /\ tx[h][d].age = TxLimit(h)
    /\ tx' = [tx EXCEPT ![h][d] = [is |-> "over", age |-> 0]]
    /\ UNCHANGED <<size, queue, run>>

\* Time passes when nothing is due: no limit has been reached, and no free
\* connection is waited for.
PoolTick ==
    /\ queue # << >> => ~Free
    /\ \A h \in Handler :
           /\ At(h, "waiting") => run[h].age < WaitLimit(Op(h).what)
           /\ At(h, "running") => run[h].age < RunLimit(Op(h).what)
           /\ \A d \in Depth : Alive(h, d) => tx[h][d].age < TxLimit(h)
    /\ run' = [h \in Handler |-> IF At(h, "idle") THEN run[h] ELSE [run[h] EXCEPT !.age = @ + 1]]
    /\ tx' = [h \in Handler |-> [d \in Depth |->
           IF Alive(h, d) THEN [tx[h][d] EXCEPT !.age = @ + 1] ELSE tx[h][d]]]
    /\ UNCHANGED <<size, queue>>

Handle(h) ==
    \/ Acquire(h) \/ GiveUp(h) \/ Refuse(h) \/ Closed(h) \/ Finish(h)
    \/ \E d \in Depth : Expire(h, d)

PoolNext ==
    \/ \E h \in Handler, of \in Used : Start(h, of)
    \/ \E h \in Handler : Handle(h)
    \/ PoolTick

PoolSpec == PoolInit /\ [][PoolNext]_poolVars

---------------------------------------------------------------------------
Roomy == size >= 2 * Cardinality(Handler) + 1

Standstill ==
    /\ ~Free
    /\ \E h \in Handler : ~At(h, "idle")
    /\ \A h \in Handler : At(h, "idle") \/ At(h, "waiting")

\* With two connections for each handler and one more it never happens that
\* everybody holds what the others wait for: no handler waits for a connection
\* with more than two transactions open.
SparePreventsStandstill == Roomy => ~Standstill

\* A query of every other handler, one after the other, takes less time than anybody
\* is ready to wait.
Others == Cardinality(Handler) - 1
Patient == Others * QueryTime < MaxWait /\ Others * QueryTime < PoolTimeout

\* Nor does anybody give up waiting then, although the connection that is left over
\* may be all there is for the queries of everybody.
RoomyServes == [][Roomy /\ Patient => \A h \in Handler : ~GiveUp(h)]_poolVars

\* Labels are deleted only while the transaction that adds the others is alive (with
\* time for a query of everybody and one more); the deletion is not a part of it, and
\* would not be undone.
Lasting == (Cardinality(Handler) + 1) * QueryTime < TxTimeout
Deletes(h) == At(h, "running") /\ Op(h).what = "delete" /\ Finish(h)
DeletesWithinTransaction ==
    [][Roomy /\ Patient /\ Lasting
           => \A h \in Handler : Deletes(h) => Alive(h, Op(h).depth)]_poolVars

\* Not so in a smaller pool.
NeverStandstill == ~Standstill
LabelsReplacedTogether == [][\A h \in Handler : Deletes(h) => Alive(h, Op(h).depth)]_poolVars
=============================================================================
