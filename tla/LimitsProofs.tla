----------------------------- MODULE LimitsProofs -----------------------------
(* The limits of the server, for every number of handlers and sockets and     *)
(* every value of the limits: ConnectionPool and Gateway, one after the       *)
(* other.  The modules share no name, and nothing that is said of one rests   *)
(* on the other.                                                              *)
EXTENDS ConnectionPool, Gateway, FiniteSetTheorems, SequenceTheorems, TLAPS

(***************************************************************************)
(* Connections of the pool                                                 *)
(* The connections that handlers hold while they wait are too few to use the *)
(* pool up.  The argument counts: no program opens a third transaction (Nested), *)
(* so that a waiting handler holds at most two connections.                *)
(***************************************************************************)
\* What an instruction leads to: the next one has as many transactions around it,
\* one more after a begin, one less after an end; none has more than two.
Leads(P, k) ==
    /\ P[k].depth \in 0..2
    /\ P[k].what = "begin" => k < Len(P) /\ P[k].depth <= 1
    /\ P[k].what = "end" => P[k].depth >= 1
    /\ k < Len(P) => P[k + 1].depth =
           IF P[k].what = "begin" THEN P[k].depth + 1
           ELSE IF P[k].what = "end" THEN P[k].depth - 1 ELSE P[k].depth

WellNested(P) ==
    /\ Len(P) \in Nat \ {0}
    /\ \A k \in 1..Len(P) : Leads(P, k)

\* Programs of webhook.issue.service.ts, issue.service.ts and the others never
\* nest transactions more than two deep.
LEMMA Nested == \A of \in DOMAIN Program : WellNested(Program[of])
<1>1. WellNested(UpdateIssue)
  <2>1. Len(UpdateIssue) = 12
    BY DEF UpdateIssue
  <2>2. \A k \in 1..12 : Leads(UpdateIssue, k)
    BY DEF UpdateIssue, Do, Leads
  <2> QED
    BY <2>1, <2>2 DEF WellNested
<1>2. WellNested(CreateIssue)
  <2>1. Len(CreateIssue) = 15
    BY DEF CreateIssue
  <2>2. \A k \in 1..15 : Leads(CreateIssue, k)
    BY DEF CreateIssue, Do, Leads
  <2> QED
    BY <2>1, <2>2 DEF WellNested
<1>3. WellNested(RemoveIssue)
  <2>1. Len(RemoveIssue) = 4
    BY DEF RemoveIssue
  <2>2. \A k \in 1..4 : Leads(RemoveIssue, k)
    BY DEF RemoveIssue, Do, Leads
  <2> QED
    BY <2>1, <2>2 DEF WellNested
<1>4. WellNested(Change)
  <2>1. Len(Change) = 4
    BY DEF Change
  <2>2. \A k \in 1..4 : Leads(Change, k)
    BY DEF Change, Do, Leads
  <2> QED
    BY <2>1, <2>2 DEF WellNested
<1>5. WellNested(Synchronise)
  <2>1. Len(Synchronise) = 6
    BY DEF Synchronise
  <2>2. \A k \in 1..6 : Leads(Synchronise, k)
    BY DEF Synchronise, Do, Leads
  <2> QED
    BY <2>1, <2>2 DEF WellNested
<1>6. WellNested(Request)
  <2>1. Len(Request) = 2
    BY DEF Request
  <2>2. \A k \in 1..2 : Leads(Request, k)
    BY DEF Request, Do, Leads
  <2> QED
    BY <2>1, <2>2 DEF WellNested
<1>7. WellNested(UpsertIssue)
  <2>1. Len(UpsertIssue) = 18
    BY DEF UpsertIssue
  <2>2. \A k \in 1..18 : Leads(UpsertIssue, k)
    BY DEF UpsertIssue, Do, Leads
  <2> QED
    BY <2>1, <2>2 DEF WellNested
<1>8. WellNested(Count)
  <2>1. Len(Count) = 1
    BY DEF Count
  <2>2. \A k \in 1..1 : Leads(Count, k)
    BY DEF Count, Do, Leads
  <2> QED
    BY <2>1, <2>2 DEF WellNested
<1>9. \A of \in DOMAIN Program :
          Program[of] \in {UpdateIssue, UpsertIssue, CreateIssue, RemoveIssue, Change,
                          Synchronise, Request, Count}
  BY DEF Program
<1> QED
  BY <1>1, <1>2, <1>3, <1>4, <1>5, <1>6, <1>7, <1>8, <1>9

---------------------------------------------------------------------------
\* A handler is at an instruction of its program, and has at most the transactions
\* that are around that instruction; an idle one has none.  One that runs has begun.
HandlerOK(h) ==
    /\ run[h].pc \in 1..Len(Program[run[h].of])
    /\ At(h, "running") => Op(h).what # "begin"
    /\ \A d \in Depth : tx[h][d].is # "none" => ~At(h, "idle") /\ d <= Op(h).depth

PoolInv ==
    /\ size \in Nat
    /\ run \in [Handler -> Step]
    /\ tx \in [Handler -> [Depth -> [is : {"none", "alive", "over"}, age : Nat]]]
    /\ \A h \in Handler : HandlerOK(h)

\* Idle names a program, too.
LEMMA IdleProgram == "request" \in DOMAIN Program
BY DEF Program

\* A handler that stops gives its connections back.
LEMMA StopOK ==
    ASSUME PoolInv, NEW h \in Handler, NEW waiting, Stop(h, waiting), size' = size
    PROVE  PoolInv'
<1>1. Idle \in Step /\ Idle.pc \in 1..Len(Program[Idle.of])
  BY IdleProgram, Nested DEF Idle, Step, WellNested
<1>2. NoTx \in [Depth -> [is : {"none", "alive", "over"}, age : Nat]]
  BY DEF NoTx, Depth
<1>3. run' \in [Handler -> Step] /\ tx' \in [Handler -> [Depth -> [is : {"none", "alive", "over"}, age : Nat]]]
  BY <1>1, <1>2 DEF Stop, PoolInv
<1>4. ASSUME NEW g \in Handler PROVE HandlerOK(g)'
  <2>1. CASE g = h
    <3>1. run'[h] = Idle /\ tx'[h] = NoTx
      BY DEF Stop, PoolInv
    <3>2. ~At(h, "running")'
      BY <3>1 DEF At, Idle
    <3>3. \A d \in Depth : tx'[h][d].is = "none"
      BY <3>1 DEF NoTx
    <3> QED
      BY <1>1, <2>1, <3>1, <3>2, <3>3 DEF HandlerOK
  <2>2. CASE g # h
    BY <2>2 DEF Stop, PoolInv, HandlerOK, At, Op
  <2> QED
    BY <2>1, <2>2
<1> QED
  BY <1>3, <1>4 DEF PoolInv

\* A handler that comes to an instruction, with the transactions around it.
LEMMA EnterOK ==
    ASSUME PoolInv, NEW h \in Handler, NEW waiting, NEW of \in DOMAIN Program,
           NEW pc \in 1..Len(Program[of]), Enter(h, of, pc, waiting), size' = size,
           tx' \in [Handler -> [Depth -> [is : {"none", "alive", "over"}, age : Nat]]],
           \A g \in Handler : g # h => tx'[g] = tx[g],
           \A d \in Depth : tx'[h][d].is # "none" => d <= Program[of][pc].depth
    PROVE  PoolInv'
<1>0. Len(Program[of]) \in Nat /\ pc \in Nat \ {0}
  BY Nested DEF WellNested
<1>1. run' \in [Handler -> Step]
  BY <1>0 DEF Enter, PoolInv, Step
<1>2. ASSUME NEW g \in Handler PROVE HandlerOK(g)'
  <2>1. CASE g = h
    <3>1. /\ run'[h].of = of /\ run'[h].pc = pc /\ run'[h].at # "idle"
          /\ run'[h].at = "running" => Program[of][pc].what # "begin"
      BY DEF Enter, PoolInv, Needs
    <3> QED
      BY <2>1, <3>1 DEF HandlerOK, At, Op
  <2>2. CASE g # h
    <3>1. run'[g] = run[g] /\ tx'[g] = tx[g]
      BY <2>2 DEF Enter, PoolInv
    <3> QED
      BY <3>1 DEF PoolInv, HandlerOK, At, Op
  <2> QED
    BY <2>1, <2>2
<1> QED
  BY <1>1, <1>2 DEF PoolInv

LEMMA PoolInitInv == PoolInit => PoolInv
<1> SUFFICES ASSUME PoolInit PROVE PoolInv
  OBVIOUS
<1>1. Idle \in Step /\ Idle.pc \in 1..Len(Program[Idle.of])
  BY IdleProgram, Nested DEF Idle, Step, WellNested
<1>2. NoTx \in [Depth -> [is : {"none", "alive", "over"}, age : Nat]]
  BY DEF NoTx, Depth
<1>3. ASSUME NEW h \in Handler PROVE HandlerOK(h)
  <2>1. run[h] = Idle /\ tx[h] = NoTx
    BY DEF PoolInit
  <2>2. ~At(h, "running") /\ \A d \in Depth : tx[h][d].is = "none"
    BY <2>1 DEF At, Idle, NoTx
  <2> QED
    BY <1>1, <2>1, <2>2 DEF HandlerOK
<1> QED
  BY <1>1, <1>2, <1>3, PoolAssumption DEF PoolInit, PoolInv

LEMMA PoolNextInv == PoolInv /\ [PoolNext]_poolVars => PoolInv'
<1> SUFFICES ASSUME PoolInv, [PoolNext]_poolVars PROVE PoolInv'
  OBVIOUS
<1> DEFINE Txs == [Depth -> [is : {"none", "alive", "over"}, age : Nat]]
<1>1. ASSUME NEW h \in Handler, NEW of \in Used, Start(h, of) PROVE PoolInv'
  <2>1. of \in DOMAIN Program /\ 1 \in 1..Len(Program[of])
    <3>1. of \in DOMAIN Program
      BY PoolAssumption DEF Program
    <3> QED
      BY <3>1, Nested DEF WellNested
  <2>2. \A d \in Depth : tx[h][d].is = "none"
    BY <1>1 DEF Start, PoolInv, HandlerOK
  <2> QED
    BY <1>1, <2>1, <2>2, EnterOK DEF Start, PoolInv
<1>2. ASSUME NEW h \in Handler, Acquire(h) PROVE PoolInv'
  <2> DEFINE of == run[h].of  pc == run[h].pc  depth == Op(h).depth
  <2>1. /\ of \in DOMAIN Program /\ pc \in 1..Len(Program[of])
        /\ Len(Program[of]) \in Nat
        /\ Leads(Program[of], pc)
        /\ Op(h) = Program[of][pc]
    BY Nested DEF PoolInv, HandlerOK, Step, WellNested, Op
  <2>2. \A d \in Depth : tx[h][d].is # "none" => d <= depth
    BY DEF PoolInv, HandlerOK
  <2>3. CASE Op(h).what = "begin"
    <3>1. /\ depth \in 0..1 /\ pc + 1 \in 1..Len(Program[of])
          /\ Program[of][pc + 1].depth = depth + 1
      BY <2>1, <2>3 DEF Leads
    <3>2. tx' = [tx EXCEPT ![h][depth + 1] = [is |-> "alive", age |-> 0]] /\ size' = size
      BY <1>2, <2>3 DEF Acquire
    <3>3. tx' \in [Handler -> Txs] /\ \A g \in Handler : g # h => tx'[g] = tx[g]
      BY <3>1, <3>2 DEF PoolInv, Depth
    <3>4. \A d \in Depth : tx'[h][d].is # "none" => d <= Program[of][pc + 1].depth
      BY <2>2, <3>1, <3>2 DEF PoolInv, Depth
    <3>5. Enter(h, of, pc + 1, Tail(queue))
      BY <1>2, <2>3 DEF Acquire
    <3> QED
      BY <2>1, <3>1, <3>2, <3>3, <3>4, <3>5, EnterOK
  <2>4. CASE Op(h).what # "begin"
    <3>1. /\ run' = [run EXCEPT ![h].at = "running", ![h].age = 0]
          /\ tx' = tx /\ size' = size
      BY <1>2, <2>4 DEF Acquire
    <3>2. run' \in [Handler -> Step]
      BY <3>1 DEF PoolInv, Step
    <3>3. ASSUME NEW g \in Handler PROVE HandlerOK(g)'
      <4>1. CASE g = h
        <5>1. run'[h].of = of /\ run'[h].pc = pc /\ run'[h].at = "running"
          BY <3>1 DEF PoolInv, Step
        <5>2. Op(h)' = Op(h)
          BY <5>1 DEF Op
        <5> QED
          BY <2>1, <2>2, <2>4, <3>1, <4>1, <5>1, <5>2 DEF HandlerOK, At
      <4>2. CASE g # h
        BY <3>1, <4>2 DEF PoolInv, HandlerOK, At, Op
      <4> QED
        BY <4>1, <4>2
    <3> QED
      BY <3>1, <3>2, <3>3 DEF PoolInv
  <2> QED
    BY <2>3, <2>4
<1>3. ASSUME NEW h \in Handler, GiveUp(h) \/ Refuse(h) \/ Closed(h) PROVE PoolInv'
  BY <1>3, StopOK DEF GiveUp, Refuse, Closed, Fail
<1>4. ASSUME NEW h \in Handler, Finish(h) PROVE PoolInv'
  <2> DEFINE of == run[h].of  pc == run[h].pc  depth == Op(h).depth
  <2>1. /\ of \in DOMAIN Program /\ pc \in 1..Len(Program[of])
        /\ Len(Program[of]) \in Nat
        /\ Leads(Program[of], pc)
        /\ Op(h) = Program[of][pc]
    BY Nested DEF PoolInv, HandlerOK, Step, WellNested, Op
  <2>2. \A d \in Depth : tx[h][d].is # "none" => d <= depth
    BY DEF PoolInv, HandlerOK
  <2>3. CASE pc = Len(Program[of])
    BY <1>4, <2>3, StopOK DEF Finish
  <2>4. CASE pc # Len(Program[of])
    <3>1. /\ Enter(h, of, pc + 1, queue) /\ size' = size
          /\ tx' = IF Op(h).what = "end" THEN [tx EXCEPT ![h][depth] = NoTx[1]] ELSE tx
      BY <1>4, <2>4 DEF Finish
    <3>2. pc + 1 \in 1..Len(Program[of]) /\ depth \in 0..2
      BY <2>1, <2>4 DEF Leads
    <3>3. NoTx[1] = [is |-> "none", age |-> 0]
      BY DEF NoTx, Depth
    <3>4. tx' \in [Handler -> Txs] /\ \A g \in Handler : g # h => tx'[g] = tx[g]
      <4>1. CASE Op(h).what = "end"
        <5>1. depth \in Depth
          BY <2>1, <4>1 DEF Leads, Depth
        <5> QED
          BY <3>1, <3>3, <4>1, <5>1 DEF PoolInv
      <4>2. CASE Op(h).what # "end"
        BY <3>1, <4>2 DEF PoolInv
      <4> QED
        BY <4>1, <4>2
    <3>5. Op(h).what # "begin"
      BY <1>4 DEF Finish, PoolInv, HandlerOK
    <3>6. \A d \in Depth : tx'[h][d].is # "none" => d <= Program[of][pc + 1].depth
      <4>1. CASE Op(h).what = "end"
        <5>1. depth \in Depth /\ Program[of][pc + 1].depth = depth - 1
          BY <2>1, <2>4, <4>1 DEF Leads, Depth
        <5>2. \A d \in Depth : tx'[h][d] = IF d = depth THEN NoTx[1] ELSE tx[h][d]
          BY <3>1, <4>1, <5>1 DEF PoolInv
        <5> QED
          BY <2>2, <3>3, <5>1, <5>2 DEF Depth
      <4>2. CASE Op(h).what # "end"
        <5>1. Program[of][pc + 1].depth = depth
          BY <2>1, <2>4, <3>5, <4>2 DEF Leads
        <5> QED
          BY <2>2, <3>1, <4>2, <5>1
      <4> QED
        BY <4>1, <4>2
    <3> QED
      BY <2>1, <3>1, <3>2, <3>4, <3>6, EnterOK
  <2> QED
    BY <2>3, <2>4
<1>5. ASSUME NEW h \in Handler, NEW d \in Depth, Expire(h, d) PROVE PoolInv'
  <2>1. /\ size' = size /\ run' = run
        /\ tx[h][d].is # "none"
        /\ tx' = [tx EXCEPT ![h][d] = [is |-> "over", age |-> 0]]
    BY <1>5 DEF Expire, Alive
  <2>2. tx' \in [Handler -> Txs]
    BY <2>1 DEF PoolInv
  <2>3. \A g \in Handler : HandlerOK(g)'
    BY <2>1 DEF PoolInv, HandlerOK, At, Op
  <2> QED
    BY <2>1, <2>2, <2>3 DEF PoolInv
<1>6. CASE PoolTick
  <2>1. /\ size' = size
        /\ run' = [h \in Handler |-> IF At(h, "idle") THEN run[h]
                                     ELSE [run[h] EXCEPT !.age = @ + 1]]
        /\ tx' = [h \in Handler |-> [d \in Depth |->
               IF Alive(h, d) THEN [tx[h][d] EXCEPT !.age = @ + 1] ELSE tx[h][d]]]
    BY <1>6 DEF PoolTick
  <2>2. run' \in [Handler -> Step]
    <3>1. \A h \in Handler : run[h] \in Step /\ [run[h] EXCEPT !.age = @ + 1] \in Step
      BY DEF PoolInv, Step
    <3> QED
      BY <2>1, <3>1
  <2>3. tx' \in [Handler -> Txs]
    <3>1. ASSUME NEW h \in Handler, NEW d \in Depth
          PROVE  [tx[h][d] EXCEPT !.age = @ + 1] \in [is : {"none", "alive", "over"}, age : Nat]
      <4>1. tx[h][d] \in [is : {"none", "alive", "over"}, age : Nat]
        BY DEF PoolInv
      <4> QED
        BY <4>1
    <3> QED
      BY <2>1, <3>1 DEF PoolInv
  <2>4. ASSUME NEW h \in Handler PROVE HandlerOK(h)'
    <3>1. /\ run'[h].of = run[h].of /\ run'[h].pc = run[h].pc /\ run'[h].at = run[h].at
          /\ \A d \in Depth : tx'[h][d].is = tx[h][d].is
      BY <2>1 DEF PoolInv, Step
    <3> QED
      BY <3>1 DEF PoolInv, HandlerOK, At, Op
  <2> QED
    BY <2>1, <2>2, <2>3, <2>4 DEF PoolInv
<1>7. CASE UNCHANGED poolVars
  BY <1>7 DEF poolVars, PoolInv, HandlerOK, At, Op
<1> QED
  BY <1>1, <1>2, <1>3, <1>4, <1>5, <1>6, <1>7 DEF PoolNext, Handle

---------------------------------------------------------------------------
\* A handler that waits has at most two transactions open.
LEMMA TwoAtMost ==
    ASSUME PoolInv, NEW h \in Handler, NEW d \in Depth, Alive(h, d)
    PROVE  d \in 1..2
<1>1. Leads(Program[run[h].of], run[h].pc) /\ Op(h) = Program[run[h].of][run[h].pc]
  BY Nested DEF PoolInv, HandlerOK, Step, WellNested, Op
<1>2. d \in 1..3 /\ d <= Op(h).depth
  BY DEF PoolInv, HandlerOK, Alive, Depth
<1> QED
  BY <1>1, <1>2 DEF Leads

LEMMA Counts ==
    /\ IsFiniteSet(Handler) /\ Cardinality(Handler) \in Nat
    /\ Others \in Int /\ Others + 1 = Cardinality(Handler)
    /\ QueryTime \in Nat \ {0}
BY PoolAssumption, FS_CardinalityType DEF Others

Querying(h) == At(h, "running") /\ Plain(Op(h).what)

\* While no connection is free somebody is at a query.
SomeQuery == \E x \in Handler : Querying(x)

LEMMA QueryRuns == PoolInv /\ Roomy => Free \/ SomeQuery
<1> SUFFICES ASSUME PoolInv, Roomy, \A x \in Handler : ~Querying(x) PROVE Free
  BY DEF SomeQuery
<1> DEFINE Two == Handler \X (1..2)
<1>1. Taken \subseteq Two
  <2>1. HeldByTx \subseteq Two
    BY TwoAtMost DEF HeldByTx
  <2>2. HeldByQuery = {}
    BY DEF HeldByQuery, Querying
  <2> QED
    BY <2>1, <2>2 DEF Taken
<1>2. IsFiniteSet(1..2) /\ Cardinality(1..2) = 2
  <2>1. IsFiniteSet(1..2) /\ Cardinality(1..2) = IF 1 > 2 THEN 0 ELSE 2 - 1 + 1
    BY 1 \in Int, 2 \in Int, FS_Interval
  <2> QED
    BY <2>1
<1>3. IsFiniteSet(Two) /\ Cardinality(Two) = Cardinality(Handler) * 2
  <2>1. IsFiniteSet(Handler)
    BY Counts
  <2> QED
    BY <1>2, <2>1, FS_Product
<1>4. Cardinality(Taken) \in Nat /\ Cardinality(Taken) <= Cardinality(Two)
  BY <1>1, <1>3, FS_Subset, FS_CardinalityType
<1> QED
  BY <1>3, <1>4, Counts DEF Roomy, PoolInv, Free

LEMMA PoolCounted == PoolInv => SparePreventsStandstill
<1> SUFFICES ASSUME PoolInv, Roomy, Standstill PROVE FALSE
  BY DEF SparePreventsStandstill
<1>1. ~SomeQuery
  BY DEF SomeQuery, Querying, Standstill, At
<1> QED
  BY <1>1, QueryRuns DEF Standstill

\* No pool with two connections for each handler and one more comes to a
\* standstill, whatever the handlers do and however long anything takes.
THEOREM NoStandstill == PoolSpec => []SparePreventsStandstill
<1>1. PoolInit => PoolInv
  BY PoolInitInv
<1>2. PoolInv /\ [PoolNext]_poolVars => PoolInv'
  BY PoolNextInv
<1>3. PoolInv => SparePreventsStandstill
  BY PoolCounted
<1> QED
  BY <1>1, <1>2, <1>3, PTL DEF PoolSpec

---------------------------------------------------------------------------
(***************************************************************************)
(* Nobody gives up                                                         *)
(* A pool that never comes to a standstill always finishes some query, and the *)
(* queue moves on by one.  Who joins it has at most all the others in front *)
(* or at work (Waited), and a transaction for labels lives as long as that. *)
(***************************************************************************)
\* How long k queries take, one after the other.
Lasts(k) == k * QueryTime

\* Those who wait for a connection are in the queue, each once.
Queued ==
    /\ queue \in Seq(Handler)
    /\ \A h \in Handler : At(h, "waiting") <=> \E i \in 1..Len(queue) : queue[i] = h
    /\ \A h \in Handler : At(h, "waiting") => Needs(Op(h).what)
    /\ \A i, j \in 1..Len(queue) : queue[i] = queue[j] => i = j

\* What runs, other than a question to Linear, has not run for longer than a query may.
Brief == \A h \in Handler : At(h, "running") /\ Op(h).what # "linear" => run[h].age <= QueryTime

\* At place i one has waited for no more queries than there are others who are not
\* behind; and while no connection is free, the last of these queries is running.
Waited ==
    \A i \in 1..Len(queue) :
        /\ run[queue[i]].age <= Lasts(Others + 1 - i)
        /\ ~Free => \E x \in Handler :
               Querying(x) /\ run[queue[i]].age <= Lasts(Others - i) + run[x].age

Served == Queued /\ Cardinality(Taken) <= size /\ Brief /\ Waited

\* Labels are deleted by instruction k, or by the one after it.
DeletesAt(of, k) == k \in 1..Len(Program[of]) /\ Program[of][k].what = "delete"
LooksAt(of, k) == DeletesAt(of, k + 1)

\* The handler looks at the labels and then deletes some.
Looks(h) == LooksAt(run[h].of, run[h].pc)
Labelling(h) == Looks(h) \/ DeletesAt(run[h].of, run[h].pc)
LabelsTx(h) == tx[h][Op(h).depth]

\* The transaction for the labels is as old as what has been done in it.
LabelsOpen(h) ==
    Labelling(h) =>
        /\ Alive(h, Op(h).depth)
        /\ LabelsTx(h).age <= run[h].age + (IF Looks(h) THEN 0
               ELSE IF At(h, "waiting") THEN QueryTime ELSE Lasts(Cardinality(Handler)))

ServeInv ==
    /\ PoolInv
    /\ Roomy /\ Patient => Served
    /\ Roomy /\ Patient /\ Lasting => \A h \in Handler : LabelsOpen(h)

LEMMA LastsMore ==
    ASSUME NEW k \in Int
    PROVE  /\ Lasts(k) \in Int
           /\ Lasts(k + 1) = Lasts(k) + QueryTime
           /\ k >= 0 => Lasts(k) \in Nat
           /\ \A j \in Int : j <= k => Lasts(j) <= Lasts(k)
<1>1. QueryTime \in Nat /\ QueryTime > 0
  BY Counts
<1>2. Lasts(k) \in Int
  BY <1>1 DEF Lasts
<1>3. Lasts(k + 1) = Lasts(k) + QueryTime
  BY <1>1 DEF Lasts
<1>4. ASSUME k >= 0 PROVE Lasts(k) \in Nat
  BY <1>1, <1>4 DEF Lasts
<1>5. ASSUME NEW j \in Int, j <= k PROVE Lasts(j) <= Lasts(k)
  <2>1. j * QueryTime <= k * QueryTime
    BY <1>1, <1>5
  <2> QED
    BY <2>1 DEF Lasts
<1> QED
  BY <1>2, <1>3, <1>4, <1>5

---------------------------------------------------------------------------
\* Connections in use are finitely many.
LEMMA TakenFinite == IsFiniteSet(Taken) /\ Cardinality(Taken) \in Nat
<1>1. Taken \in SUBSET (Handler \X (0..3))
  <2>1. HeldByTx \subseteq Handler \X (0..3)
    BY DEF HeldByTx, Depth
  <2>2. HeldByQuery \subseteq Handler \X (0..3)
    BY DEF HeldByQuery
  <2> QED
    BY <2>1, <2>2 DEF Taken
<1>2. IsFiniteSet(0..3) /\ IsFiniteSet(Handler)
  BY 0 \in Int, 3 \in Int, FS_Interval, Counts
<1>3. IsFiniteSet(Handler \X (0..3))
  BY <1>2, FS_Product
<1> QED
  BY <1>1, <1>3, FS_Subset, FS_CardinalityType

LEMMA QueryRunsThen == PoolInv' /\ Roomy' => Free' \/ SomeQuery'
BY QueryRuns, PTL

\* A queue with each handler once, and none outside of S, is no longer than S is large.
Once(q) == \A i, j \in 1..Len(q) : q[i] = q[j] => i = j
Within(q, S) == \A i \in 1..Len(q) : q[i] \in S

LEMMA QueueShort ==
    ASSUME NEW S \in SUBSET Handler, NEW q \in Seq(Handler), Once(q), Within(q, S)
    PROVE  Len(q) <= Cardinality(S)
<1>1. Len(q) \in Nat /\ DOMAIN q = 1..Len(q)
  OBVIOUS
<1>2. IsFiniteSet(S) /\ Cardinality(S) \in Nat
  BY Counts, FS_Subset, FS_CardinalityType
<1>3. [i \in 1..Len(q) |-> q[i]] \in Injection(1..Len(q), S)
  BY DEF Once, Within, Injection, IsInjective
<1>4. Cardinality(1..Len(q)) <= Cardinality(S)
  BY <1>2, <1>3, FS_Injection
<1>5. Cardinality(1..Len(q)) = Len(q)
  <2>1. Cardinality(1..Len(q)) = IF 1 > Len(q) THEN 0 ELSE Len(q) - 1 + 1
    BY <1>1, FS_Interval
  <2> QED
    BY <1>1, <2>1
<1> QED
  BY <1>4, <1>5

---------------------------------------------------------------------------
\* A handler comes to another instruction; q is the queue without it.
LEMMA Requeued ==
    ASSUME PoolInv', Roomy, Brief, size' = size, NEW h \in Handler, NEW q \in Seq(Handler),
           \A i \in 1..Len(q) : q[i] # h,
           \A i, j \in 1..Len(q) : q[i] = q[j] => i = j,
           \A g \in Handler : g # h => (At(g, "waiting") <=> \E i \in 1..Len(q) : q[i] = g),
           \A g \in Handler : At(g, "waiting") => Needs(Op(g).what),
           \A g \in Handler : g # h => run'[g] = run[g],
           run'[h].age = 0,
           At(h, "waiting")' => Needs(Op(h).what)',
           queue' = IF At(h, "waiting")' THEN Append(q, h) ELSE q,
           \A i \in 1..Len(q) :
               /\ run[q[i]].age <= Lasts(Others + 1 - i)
               /\ Free' \/ \E x \in Handler :
                      Querying(x)' /\ run[q[i]].age <= Lasts(Others - i) + run'[x].age
    PROVE  Queued' /\ Brief' /\ Waited'
<1> DEFINE waits == At(h, "waiting")'
<1>1. /\ Len(q) \in Nat
      /\ Append(q, h) \in Seq(Handler) /\ Len(Append(q, h)) = Len(q) + 1
      /\ \A i \in 1..Len(q) : Append(q, h)[i] = q[i]
      /\ Append(q, h)[Len(q) + 1] = h
  BY AppendProperties
<1>2. /\ queue' \in Seq(Handler) /\ Len(queue') \in Nat
      /\ \A i \in 1..Len(q) : i \in 1..Len(queue') /\ queue'[i] = q[i]
      /\ \A i \in 1..Len(queue') : i \in 1..Len(q) \/ (i = Len(q) + 1 /\ waits /\ queue'[i] = h)
      /\ waits => Len(q) + 1 \in 1..Len(queue') /\ queue'[Len(q) + 1] = h
  <2>1. CASE waits
    <3>1. queue' = Append(q, h)
      BY <2>1
    <3> HIDE DEF waits
    <3>2. Len(queue') = Len(q) + 1
      BY <1>1, <3>1
    <3>3. /\ \A i \in 1..Len(q) : i \in 1..Len(queue') /\ queue'[i] = q[i]
          /\ \A i \in 1..Len(queue') : i \in 1..Len(q) \/ i = Len(q) + 1
      BY <1>1, <3>1, <3>2
    <3>4. Len(q) + 1 \in 1..Len(queue') /\ queue'[Len(q) + 1] = h
      BY <1>1, <3>1, <3>2
    <3> QED
      BY <1>1, <2>1, <3>1, <3>2, <3>3, <3>4
  <2>2. CASE ~waits
    <3>1. queue' = q
      BY <2>2
    <3> HIDE DEF waits
    <3> QED
      BY <1>1, <2>2, <3>1
  <2> QED
    BY <2>1, <2>2
<1> HIDE DEF waits
<1>3. \A i, j \in 1..Len(queue') : queue'[i] = queue'[j] => i = j
  BY <1>2
<1>4. ASSUME NEW g \in Handler
      PROVE  At(g, "waiting")' <=> \E i \in 1..Len(queue') : queue'[i] = g
  <2>1. CASE g = h
    BY <1>2, <2>1 DEF waits
  <2>2. CASE g # h
    <3>1. At(g, "waiting")' <=> At(g, "waiting")
      BY <2>2 DEF At
    <3> QED
      BY <1>2, <2>2, <3>1
  <2> QED
    BY <2>1, <2>2
<1>5. ASSUME NEW g \in Handler, At(g, "waiting")' PROVE Needs(Op(g).what)'
  <2>1. CASE g = h
    BY <1>5, <2>1
  <2>2. CASE g # h
    BY <1>5, <2>2 DEF At, Op
  <2> QED
    BY <2>1, <2>2
<1>6. Queued'
  BY <1>2, <1>3, <1>4, <1>5 DEF Queued
<1>7. Brief'
  <2>1. ASSUME NEW g \in Handler, At(g, "running")', Op(g)'.what # "linear"
        PROVE  run'[g].age <= QueryTime
    <3>1. CASE g = h
      BY <3>1, Counts
    <3>2. CASE g # h
      BY <2>1, <3>2 DEF Brief, At, Op
    <3> QED
      BY <3>1, <3>2
  <2> QED
    BY <2>1 DEF Brief
<1>8. ASSUME NEW i \in 1..Len(queue')
      PROVE  /\ run'[queue'[i]].age <= Lasts(Others + 1 - i)
             /\ ~Free' => \E x \in Handler :
                    Querying(x)' /\ run'[queue'[i]].age <= Lasts(Others - i) + run'[x].age
  <2>1. CASE i \in 1..Len(q)
    <3>1. q[i] \in Handler
      BY <2>1, ElementOfSeq
    <3>2. queue'[i] = q[i] /\ run'[q[i]] = run[q[i]]
      BY <1>2, <2>1, <3>1
    <3> QED
      BY <2>1, <3>2
  <2>2. CASE i = Len(q) + 1 /\ waits /\ queue'[i] = h
    <3>1. i = Len(queue') /\ i \in Int /\ Others + 1 - i \in Int /\ Others - i \in Int
      BY <1>2, <2>2, Counts
    <3>2. i <= Others + 1
      <4>1. queue' \in Seq(Handler) /\ Once(queue')
        BY <1>2, <1>3 DEF Once
      <4>2. Within(queue', Handler)
        BY <4>1, ElementOfSeq DEF Within
      <4>3. Handler \in SUBSET Handler
        OBVIOUS
      <4>4. Len(queue') <= Cardinality(Handler)
        BY <4>1, <4>2, <4>3, QueueShort
      <4> QED
        BY <3>1, <4>4, Counts
    <3>3. run'[queue'[i]].age <= Lasts(Others + 1 - i)
      <4>1. Others + 1 - i >= 0
        BY <3>1, <3>2, Counts
      <4>2. Lasts(Others + 1 - i) \in Nat
        BY <3>1, <4>1, LastsMore
      <4> QED
        BY <2>2, <4>2
    <3>4. ASSUME ~Free'
          PROVE  \E x \in Handler :
                     Querying(x)' /\ run'[queue'[i]].age <= Lasts(Others - i) + run'[x].age
      <4>1. PICK x \in Handler : Querying(x)'
        <5>1. Roomy'
          BY DEF Roomy
        <5> QED
          BY <3>4, <5>1, QueryRunsThen DEF SomeQuery
      <4>2. ~At(x, "waiting")'
        BY <4>1 DEF Querying, At
      <4>3. i <= Others
        <5>1. queue' \in Seq(Handler) /\ Once(queue') /\ Within(queue', Handler \ {x})
          <6>1. queue' \in Seq(Handler)
            BY <1>2
          <6>2. Once(queue')
            BY <1>3 DEF Once
          <6>3. ASSUME NEW k \in 1..Len(queue') PROVE queue'[k] \in Handler \ {x}
            <7>1. queue'[k] \in Handler
              BY <6>1, ElementOfSeq
            <7>2. ~\E j \in 1..Len(queue') : queue'[j] = x
              BY <1>4, <4>2
            <7> QED
              BY <7>1, <7>2
          <6>4. Within(queue', Handler \ {x})
            BY <6>3 DEF Within
          <6> QED
            BY <6>1, <6>2, <6>4
        <5>2. Handler \ {x} \in SUBSET Handler
          OBVIOUS
        <5>3. Len(queue') <= Cardinality(Handler \ {x})
          BY <5>1, <5>2, QueueShort
        <5>4. Cardinality(Handler \ {x}) = Others
          <6>1. IsFiniteSet(Handler)
            BY Counts
          <6> QED
            BY <6>1, FS_RemoveElement DEF Others
        <5> QED
          BY <3>1, <5>3, <5>4
      <4>4. Lasts(Others - i) \in Nat
        <5>1. Others - i >= 0
          BY <3>1, <4>3, Counts
        <5> QED
          BY <3>1, <5>1, LastsMore
      <4>5. run'[x].age \in Nat
        BY DEF PoolInv, Step
      <4> QED
        BY <2>2, <4>1, <4>4, <4>5
    <3> QED
      BY <3>3, <3>4
  <2> QED
    BY <1>2, <2>1, <2>2
<1>9. Waited'
  BY <1>8 DEF Waited
<1> QED
  BY <1>6, <1>7, <1>9

\* Connections that are given back are free.
LEMMA GivenBack ==
    ASSUME Cardinality(Taken) <= size, size \in Nat, size' = size, Taken' \subseteq Taken
    PROVE  /\ Cardinality(Taken') <= size'
           /\ Free => Free'
           /\ Taken' # Taken => Free'
<1>1. IsFiniteSet(Taken) /\ Cardinality(Taken) \in Nat
  BY TakenFinite
<1>2. /\ Cardinality(Taken') <= Cardinality(Taken)
      /\ Cardinality(Taken) = Cardinality(Taken') => Taken = Taken'
      /\ IsFiniteSet(Taken')
  BY <1>1, FS_Subset
<1>3. Cardinality(Taken') \in Nat
  BY <1>2, FS_CardinalityType
<1> QED
  BY <1>1, <1>2, <1>3 DEF Free

\* A handler that did not wait goes on, or starts, or ends.
LEMMA WentOn ==
    ASSUME PoolInv, PoolInv', Roomy, Served, size' = size, NEW h \in Handler,
           ~At(h, "waiting"),
           \A g \in Handler : g # h => run'[g] = run[g],
           \A x \in HeldByTx' : x \in HeldByTx,
           run'[h].age = 0, ~Querying(h)',
           At(h, "waiting")' => Needs(Op(h).what)',
           queue' = IF At(h, "waiting")' THEN Append(queue, h) ELSE queue
    PROVE  Served'
<1>1. Taken' \subseteq Taken
  <2>1. \A x \in HeldByQuery' : x \in HeldByQuery /\ x # <<h, 0>>
    <3> SUFFICES ASSUME NEW g \in Handler, Querying(g)' PROVE Querying(g) /\ g # h
      BY DEF HeldByQuery, Querying
    <3>1. g # h
      OBVIOUS
    <3>2. run'[g] = run[g]
      BY <3>1
    <3> QED
      BY <3>1, <3>2 DEF Querying, At, Op
  <2> QED
    BY <2>1 DEF Taken
<1>2. Querying(h) => Taken' # Taken
  <2>1. ASSUME Querying(h) PROVE <<h, 0>> \in Taken
    BY <2>1 DEF Taken, HeldByQuery, Querying
  <2>2. <<h, 0>> \notin HeldByQuery'
    BY DEF HeldByQuery, Querying
  <2>3. <<h, 0>> \notin HeldByTx'
    <3>1. 0 \notin Depth
      BY DEF Depth
    <3> QED
      BY <3>1 DEF HeldByTx
  <2> QED
    BY <2>1, <2>2, <2>3 DEF Taken
<1> USE DEF Served
<1>3. /\ Cardinality(Taken)' <= size'
      /\ (Free => Free') /\ (Querying(h) => Free')
  BY <1>1, <1>2, GivenBack DEF PoolInv
<1>4. \A i \in 1..Len(queue) : queue[i] # h
  BY DEF Queued
<1>5. ASSUME NEW i \in 1..Len(queue)
      PROVE  /\ run[queue[i]].age <= Lasts(Others + 1 - i)
             /\ Free' \/ \E x \in Handler :
                    Querying(x)' /\ run[queue[i]].age <= Lasts(Others - i) + run'[x].age
  <2>1. run[queue[i]].age <= Lasts(Others + 1 - i)
    BY DEF Waited
  <2>2. ASSUME ~Free'
        PROVE  \E x \in Handler :
                    Querying(x)' /\ run[queue[i]].age <= Lasts(Others - i) + run'[x].age
    <3>1. PICK x \in Handler : Querying(x) /\ run[queue[i]].age <= Lasts(Others - i) + run[x].age
      BY <1>3, <2>2 DEF Waited
    <3>2. x # h
      BY <1>3, <2>2, <3>1
    <3>3. Querying(x)' /\ run'[x] = run[x]
      BY <3>1, <3>2 DEF Querying, At, Op
    <3> QED
      BY <3>1, <3>3
  <2> QED
    BY <2>1, <2>2
<1>6. Queued' /\ Brief' /\ Waited'
  <2>1. /\ queue \in Seq(Handler)
        /\ \A i, j \in 1..Len(queue) : queue[i] = queue[j] => i = j
        /\ \A g \in Handler : At(g, "waiting") <=> \E i \in 1..Len(queue) : queue[i] = g
        /\ \A g \in Handler : At(g, "waiting") => Needs(Op(g).what)
    BY DEF Queued
  <2>2. Brief
    OBVIOUS
  <2> HIDE DEF Served
  <2> QED
    BY <1>4, <1>5, <2>1, <2>2, Requeued
<1> QED
  BY <1>3, <1>6

\* What it means to come to an instruction, or to stop, for the queue.
LEMMA Entered ==
    ASSUME PoolInv, NEW h \in Handler, NEW of \in DOMAIN Program, NEW pc, NEW waiting,
           Enter(h, of, pc, waiting)
    PROVE  /\ \A g \in Handler : g # h => run'[g] = run[g]
           /\ run'[h].of = of /\ run'[h].pc = pc /\ run'[h].age = 0
           /\ ~At(h, "idle")' /\ ~Querying(h)'
           /\ At(h, "waiting")' => Needs(Op(h).what)'
           /\ queue' = IF At(h, "waiting")' THEN Append(waiting, h) ELSE waiting
<1> DEFINE what == Program[of][pc].what
<1>1. /\ \A g \in Handler : g # h => run'[g] = run[g]
      /\ run'[h].of = of /\ run'[h].pc = pc /\ run'[h].age = 0
      /\ run'[h].at = IF Needs(what) THEN "waiting" ELSE "running"
      /\ queue' = IF Needs(what) THEN Append(waiting, h) ELSE waiting
  BY DEF Enter, PoolInv
<1>2. Op(h)'.what = what
  BY <1>1 DEF Op
<1>3. At(h, "waiting")' <=> Needs(what)
  BY <1>1 DEF At
<1>4. ~Querying(h)' /\ ~At(h, "idle")'
  BY <1>1, <1>2 DEF Querying, At, Needs
<1>5. At(h, "waiting")' => Needs(Op(h).what)'
  BY <1>2, <1>3 DEF Needs, Plain
<1> QED
  BY <1>1, <1>3, <1>4, <1>5

LEMMA Stopped ==
    ASSUME PoolInv, NEW h \in Handler, NEW waiting, Stop(h, waiting)
    PROVE  /\ \A g \in Handler : g # h => run'[g] = run[g] /\ tx'[g] = tx[g]
           /\ run'[h].of = "request" /\ run'[h].age = 0
           /\ ~Querying(h)' /\ ~At(h, "waiting")'
           /\ queue' = waiting
           /\ \A x \in HeldByTx' : x \in HeldByTx
<1>1. /\ \A g \in Handler : g # h => run'[g] = run[g] /\ tx'[g] = tx[g]
      /\ run'[h] = Idle /\ tx'[h] = NoTx /\ queue' = waiting
  BY DEF Stop, PoolInv
<1>2. ~Querying(h)' /\ ~At(h, "waiting")'
  BY <1>1 DEF Querying, At, Idle
<1>3. ASSUME NEW g \in Handler, NEW d \in Depth, Alive(g, d)' PROVE Alive(g, d)
  <2>1. NoTx[d].is # "alive"
    BY DEF NoTx
  <2>2. g # h
    BY <1>1, <1>3, <2>1 DEF Alive
  <2> QED
    BY <1>1, <1>3, <2>2 DEF Alive
<1>4. \A x \in HeldByTx' : x \in HeldByTx
  BY <1>3 DEF HeldByTx
<1> QED
  BY <1>1, <1>2, <1>4 DEF Idle

\* The first in the queue is out of it, and those behind move up.
LEMMA MovedUp ==
    ASSUME PoolInv, PoolInv', Roomy, Served, size' = size, NEW h \in Handler,
           queue # << >>, Head(queue) = h,
           \A g \in Handler : g # h => run'[g] = run[g],
           run'[h].age = 0,
           At(h, "waiting")' => Needs(Op(h).what)',
           queue' = IF At(h, "waiting")' THEN Append(Tail(queue), h) ELSE Tail(queue)
    PROVE  Queued' /\ Brief' /\ Waited'
<1> DEFINE q == Tail(queue)
<1>1. queue \in Seq(Handler)
  BY DEF Served, Queued
<1>2. /\ q \in Seq(Handler) /\ Len(q) = Len(queue) - 1 /\ Len(queue) \in Nat \ {0}
      /\ queue[1] = h
      /\ \A i \in 1..Len(q) : q[i] = queue[i + 1]
  BY <1>1, HeadTailProperties
<1> HIDE DEF q
<1>3. \A i, j \in 1..Len(queue) : queue[i] = queue[j] => i = j
  BY DEF Served, Queued
<1>4. \A i \in 1..Len(q) : i \in Int /\ i + 1 \in 1..Len(queue) /\ i + 1 # 1
  BY <1>2
<1>5. \A i \in 1..Len(q) : q[i] # h
  <2> SUFFICES ASSUME NEW i \in 1..Len(q), q[i] = h PROVE FALSE
    OBVIOUS
  <2>1. queue[i + 1] = queue[1] /\ 1 \in 1..Len(queue)
    BY <1>2
  <2> QED
    BY <1>3, <1>4, <2>1
<1>6. \A i, j \in 1..Len(q) : q[i] = q[j] => i = j
  <2> SUFFICES ASSUME NEW i \in 1..Len(q), NEW j \in 1..Len(q), q[i] = q[j] PROVE i = j
    OBVIOUS
  <2>1. queue[i + 1] = queue[j + 1]
    BY <1>2
  <2>2. i + 1 = j + 1
    BY <1>3, <1>4, <2>1
  <2> QED
    BY <1>4, <2>2
<1>7. ASSUME NEW g \in Handler, g # h
      PROVE  At(g, "waiting") <=> \E i \in 1..Len(q) : q[i] = g
  <2>1. ASSUME NEW i \in 1..Len(queue), queue[i] = g PROVE \E j \in 1..Len(q) : q[j] = g
    <3>1. i # 1
      BY <1>2, <1>7, <2>1
    <3>2. i - 1 \in 1..Len(q) /\ i = (i - 1) + 1
      BY <1>2, <3>1
    <3> QED
      BY <1>2, <2>1, <3>2
  <2>2. At(g, "waiting") <=> \E i \in 1..Len(queue) : queue[i] = g
    BY DEF Served, Queued
  <2> QED
    BY <1>2, <1>4, <2>1, <2>2
<1>8. ASSUME NEW i \in 1..Len(q)
      PROVE  /\ run[q[i]].age <= Lasts(Others + 1 - i)
             /\ Free' \/ \E x \in Handler :
                    Querying(x)' /\ run[q[i]].age <= Lasts(Others - i) + run'[x].age
  <2>0. q[i] \in Handler
    BY <1>2, ElementOfSeq
  <2>1. i \in Int /\ Others - i \in Int /\ Others + 1 - (i + 1) = Others - i
        /\ (Others - i) + 1 = Others + 1 - i
    BY <1>4, Counts
  <2>2. run[q[i]].age <= Lasts(Others - i)
    <3>1. run[queue[i + 1]].age <= Lasts(Others + 1 - (i + 1))
      BY <1>4 DEF Served, Waited
    <3> QED
      BY <1>2, <2>1, <3>1
  <2>3. run[q[i]].age \in Nat
    BY <2>0 DEF PoolInv, Step
  <2>4. Lasts(Others - i) \in Int /\ Lasts(Others + 1 - i) = Lasts(Others - i) + QueryTime
    BY <2>1, LastsMore
  <2>5. run[q[i]].age <= Lasts(Others + 1 - i)
    BY <2>2, <2>3, <2>4, Counts
  <2>6. ASSUME ~Free'
        PROVE  \E x \in Handler :
                    Querying(x)' /\ run[q[i]].age <= Lasts(Others - i) + run'[x].age
    <3>1. PICK x \in Handler : Querying(x)'
      <4>1. Roomy'
        BY DEF Roomy
      <4> QED
        BY <2>6, <4>1, QueryRunsThen DEF SomeQuery
    <3>2. run'[x].age \in Nat
      BY DEF PoolInv, Step
    <3> QED
      BY <2>2, <2>3, <2>4, <3>1, <3>2
  <2> QED
    BY <2>5, <2>6
<1>9. Brief /\ \A g \in Handler : At(g, "waiting") => Needs(Op(g).what)
  BY DEF Served, Queued
<1>10. queue' = IF At(h, "waiting")' THEN Append(q, h) ELSE q
  BY DEF q
<1>11. q \in Seq(Handler)
  BY <1>2
<1> QED
  BY <1>11, <1>5, <1>6, <1>7, <1>8, <1>9, <1>10, Requeued

\* One connection more is in use, of those that were free.
LEMMA OneTaken ==
    ASSUME PoolInv, Free, size' = size, NEW x, \A y \in Taken' : y \in Taken \/ y = x
    PROVE  Cardinality(Taken') <= size'
<1>1. IsFiniteSet(Taken) /\ Cardinality(Taken) \in Nat
  BY TakenFinite
<1>2. IsFiniteSet(Taken \cup {x}) /\ Cardinality(Taken \cup {x}) <= Cardinality(Taken) + 1
  BY <1>1, FS_AddElement
<1>3. Taken' \subseteq Taken \cup {x}
  OBVIOUS
<1>4. Cardinality(Taken') <= Cardinality(Taken \cup {x})
  BY <1>2, <1>3, FS_Subset
<1>5. Cardinality(Taken') \in Nat /\ Cardinality(Taken \cup {x}) \in Nat
  BY <1>2, <1>3, FS_Subset, FS_CardinalityType
<1> QED
  BY <1>1, <1>2, <1>4, <1>5 DEF PoolInv, Free

LEMMA ServedAcquire ==
    ASSUME PoolInv, PoolInv', Roomy, Served, NEW h \in Handler, Acquire(h)
    PROVE  Served'
<1> DEFINE of == run[h].of  pc == run[h].pc
<1>1. of \in DOMAIN Program
  BY DEF PoolInv, Step
<1>2. Queued' /\ Brief' /\ Waited' /\ \E x : \A y \in Taken' : y \in Taken \/ y = x
  <2>1. CASE Op(h).what = "begin"
    <3> DEFINE q == Tail(queue)  next == pc + 1
    <3>1. /\ Enter(h, of, next, q)
          /\ tx' = [tx EXCEPT ![h][Op(h).depth + 1] = [is |-> "alive", age |-> 0]]
      BY <2>1 DEF Acquire
    <3>2. /\ \A g \in Handler : g # h => run'[g] = run[g]
          /\ run'[h].age = 0 /\ ~Querying(h)'
          /\ At(h, "waiting")' => Needs(Op(h).what)'
          /\ queue' = IF At(h, "waiting")' THEN Append(q, h) ELSE q
      <4> HIDE DEF of, next, q
      <4> QED
        BY <1>1, <3>1, Entered
    <3>3. Queued' /\ Brief' /\ Waited'
      BY <3>2, MovedUp DEF Acquire
    <3>4. \A y \in Taken' : y \in Taken \/ y = <<h, Op(h).depth + 1>>
      <4>1. ASSUME NEW g \in Handler, NEW d \in Depth, Alive(g, d)'
            PROVE  Alive(g, d) \/ (g = h /\ d = Op(h).depth + 1)
        BY <3>1, <4>1 DEF Alive, PoolInv
      <4>2. ASSUME NEW g \in Handler, Querying(g)' PROVE Querying(g)
        BY <3>2, <4>2 DEF Querying, At, Op
      <4> QED
        BY <4>1, <4>2 DEF Taken, HeldByTx, HeldByQuery, Querying
    <3> QED
      BY <3>3, <3>4
  <2>2. CASE Op(h).what # "begin"
    <3>1. /\ run' = [run EXCEPT ![h].at = "running", ![h].age = 0]
          /\ queue' = Tail(queue) /\ tx' = tx
      BY <2>2 DEF Acquire
    <3>2. /\ \A g \in Handler : g # h => run'[g] = run[g]
          /\ run'[h].age = 0 /\ ~At(h, "waiting")'
      BY <3>1 DEF PoolInv, Step, At
    <3>3. Queued' /\ Brief' /\ Waited'
      BY <3>1, <3>2, MovedUp DEF Acquire
    <3>4. \A y \in Taken' : y \in Taken \/ y = <<h, 0>>
      <4>1. HeldByTx' = HeldByTx
        BY <3>1 DEF HeldByTx, Alive
      <4>2. ASSUME NEW g \in Handler, g # h, Querying(g)' PROVE Querying(g)
        BY <3>2, <4>2 DEF Querying, At, Op
      <4> QED
        BY <4>1, <4>2 DEF Taken, HeldByQuery, Querying
    <3> QED
      BY <3>3, <3>4
  <2> QED
    BY <2>1, <2>2
<1>3. Cardinality(Taken)' <= size'
  BY <1>2, OneTaken DEF Acquire
<1> QED
  BY <1>2, <1>3 DEF Served

LEMMA ServedTick ==
    ASSUME PoolInv, PoolInv', Served, PoolTick
    PROVE  Served'
<1>1. /\ size' = size /\ queue' = queue
      /\ \A h \in Handler : run'[h] = IF At(h, "idle") THEN run[h]
                                      ELSE [run[h] EXCEPT !.age = @ + 1]
      /\ \A h \in Handler : \A d \in Depth : tx'[h][d] =
             IF Alive(h, d) THEN [tx[h][d] EXCEPT !.age = @ + 1] ELSE tx[h][d]
  BY DEF PoolTick
<1>2. ASSUME NEW h \in Handler
      PROVE  /\ run'[h].of = run[h].of /\ run'[h].pc = run[h].pc /\ run'[h].at = run[h].at
             /\ run[h].age \in Nat
             /\ ~At(h, "idle") => run'[h].age = run[h].age + 1
  <2>1. run[h] \in Step
    BY DEF PoolInv
  <2> QED
    BY <1>1, <2>1 DEF Step
<1>3. ASSUME NEW h \in Handler, NEW d \in Depth PROVE Alive(h, d)' <=> Alive(h, d)
  <2>1. tx[h][d] \in [is : {"none", "alive", "over"}, age : Nat]
    BY DEF PoolInv
  <2>2. tx'[h][d] = IF Alive(h, d) THEN [tx[h][d] EXCEPT !.age = @ + 1] ELSE tx[h][d]
    BY <1>1
  <2>3. tx'[h][d].is = tx[h][d].is
    BY <2>1, <2>2
  <2> QED
    BY <2>3 DEF Alive
<1>4. Taken' = Taken
  <2>1. HeldByTx' = HeldByTx
    BY <1>3 DEF HeldByTx
  <2>2. HeldByQuery' = HeldByQuery
    BY <1>2 DEF HeldByQuery, At, Op
  <2> QED
    BY <2>1, <2>2 DEF Taken
<1>5. (Free' <=> Free) /\ Cardinality(Taken)' <= size'
  BY <1>1, <1>4 DEF Free, Served
<1>6. Queued'
  BY <1>1, <1>2 DEF Served, Queued, At, Op
<1>7. ASSUME NEW h \in Handler, At(h, "running")', Op(h)'.what # "linear"
      PROVE  run'[h].age <= QueryTime
  <2>1. At(h, "running") /\ Op(h).what # "linear" /\ ~At(h, "idle")
    BY <1>2, <1>7 DEF At, Op
  <2>2. run[h].age < QueryTime
    BY <2>1 DEF PoolTick, RunLimit
  <2> QED
    BY <1>2, <2>1, <2>2, Counts
<1>8. ASSUME NEW i \in 1..Len(queue)
      PROVE  /\ run'[queue[i]].age <= Lasts(Others + 1 - i)
             /\ \E x \in Handler :
                    Querying(x)' /\ run'[queue[i]].age <= Lasts(Others - i) + run'[x].age
  <2>1. queue \in Seq(Handler) /\ queue # << >>
    <3>1. queue \in Seq(Handler)
      BY DEF Served, Queued
    <3> QED
      BY <3>1
  <2>2. queue[i] \in Handler
    BY <2>1, ElementOfSeq
  <2>3. At(queue[i], "waiting")
    BY <2>2 DEF Served, Queued
  <2>4. PICK x \in Handler :
            Querying(x) /\ run[queue[i]].age <= Lasts(Others - i) + run[x].age
    BY <2>1 DEF Served, Waited, PoolTick
  <2>5. /\ run'[queue[i]].age = run[queue[i]].age + 1 /\ run[queue[i]].age \in Nat
        /\ run'[x].age = run[x].age + 1 /\ run[x].age \in Nat
    BY <1>2, <2>2, <2>3, <2>4 DEF Querying, At
  <2>6. run[x].age < QueryTime
    BY <2>4 DEF Querying, Plain, PoolTick, RunLimit
  <2>7. Querying(x)'
    BY <1>2, <2>4 DEF Querying, At, Op
  <2>8. i \in Int /\ Others - i \in Int /\ (Others - i) + 1 = Others + 1 - i
    BY Counts
  <2>9. Lasts(Others - i) \in Int /\ Lasts(Others + 1 - i) = Lasts(Others - i) + QueryTime
    BY <2>8, LastsMore
  <2>10. run'[queue[i]].age <= Lasts(Others - i) + run'[x].age
    BY <2>4, <2>5, <2>9
  <2>11. run'[queue[i]].age <= Lasts(Others + 1 - i)
    <3>1. run'[x].age <= QueryTime /\ QueryTime \in Nat
      BY <2>5, <2>6, Counts
    <3>2. \A a, l, b, q \in Int : a <= l + b /\ b <= q => a <= l + q
      OBVIOUS
    <3>3. run'[queue[i]].age \in Int /\ run'[x].age \in Int
      BY <2>5
    <3>4. run'[queue[i]].age <= Lasts(Others - i) + QueryTime
      BY <2>9, <2>10, <3>1, <3>2, <3>3
    <3> QED
      BY <2>9, <3>4
  <2> QED
    BY <2>7, <2>10, <2>11
<1> QED
  BY <1>1, <1>5, <1>6, <1>7, <1>8 DEF Served, Brief, Waited

LEMMA ServedExpire ==
    ASSUME PoolInv, Served, NEW h \in Handler, NEW d \in Depth, Expire(h, d)
    PROVE  Served'
<1>1. /\ size' = size /\ queue' = queue /\ run' = run
      /\ tx' = [tx EXCEPT ![h][d] = [is |-> "over", age |-> 0]]
  BY DEF Expire
<1>2. Taken' \subseteq Taken
  <2>1. ASSUME NEW g \in Handler, NEW e \in Depth, Alive(g, e)' PROVE Alive(g, e)
    BY <1>1, <2>1 DEF Alive, PoolInv
  <2>2. HeldByQuery' = HeldByQuery
    BY <1>1 DEF HeldByQuery, At, Op
  <2> QED
    BY <2>1, <2>2 DEF Taken, HeldByTx
<1>3. Cardinality(Taken)' <= size' /\ (Free => Free')
  BY <1>1, <1>2, GivenBack DEF Served, PoolInv
<1>4. Queued' /\ Brief'
  BY <1>1 DEF Served, Queued, Brief, At, Op
<1>5. Waited'
  BY <1>1, <1>3 DEF Served, Waited, Querying, At, Op
<1> QED
  BY <1>3, <1>4, <1>5 DEF Served

\* Nobody waits for as long as it would take to give up.
LEMMA NoGiveUp == ASSUME PoolInv, Patient, Served, NEW h \in Handler PROVE ~GiveUp(h)
<1> SUFFICES ASSUME GiveUp(h) PROVE FALSE
  OBVIOUS
<1>1. At(h, "waiting") /\ run[h].age = WaitLimit(Op(h).what)
  BY DEF GiveUp
<1>2. PICK i \in 1..Len(queue) : queue[i] = h
  BY <1>1 DEF Served, Queued
<1>3. run[h].age <= Lasts(Others + 1 - i)
  BY <1>2 DEF Served, Waited
<1>4. i \in Int /\ Others + 1 - i \in Int /\ Others + 1 - i <= Others /\ Others \in Int
  BY Counts
<1>5. Lasts(Others + 1 - i) \in Int /\ Lasts(Others) \in Int /\ Lasts(Others + 1 - i) <= Lasts(Others)
  BY <1>4, LastsMore
<1>6. Lasts(Others) < MaxWait /\ Lasts(Others) < PoolTimeout
  BY DEF Patient, Lasts
<1>7. run[h].age \in Nat /\ MaxWait \in Nat /\ PoolTimeout \in Nat
  BY PoolAssumption DEF PoolInv, Step
<1> QED
  BY <1>1, <1>3, <1>5, <1>6, <1>7 DEF WaitLimit

LEMMA ServedNext ==
    ASSUME PoolInv, PoolInv', Roomy, Patient, Served, [PoolNext]_poolVars
    PROVE  Served'
<1>1. ASSUME NEW h \in Handler, NEW of \in Used, Start(h, of) PROVE Served'
  <2>1. of \in DOMAIN Program
    BY PoolAssumption DEF Program
  <2>2. /\ \A g \in Handler : g # h => run'[g] = run[g]
        /\ run'[h].age = 0 /\ ~Querying(h)'
        /\ At(h, "waiting")' => Needs(Op(h).what)'
        /\ queue' = IF At(h, "waiting")' THEN Append(queue, h) ELSE queue
    BY <1>1, <2>1, Entered DEF Start
  <2>3. ~At(h, "waiting") /\ size' = size /\ tx' = tx
    BY <1>1 DEF Start, At
  <2>4. \A x \in HeldByTx' : x \in HeldByTx
    BY <2>3 DEF HeldByTx, Alive
  <2> QED
    BY <2>2, <2>3, <2>4, WentOn
<1>2. ASSUME NEW h \in Handler, Acquire(h) PROVE Served'
  BY <1>2, ServedAcquire
<1>3. ASSUME NEW h \in Handler, GiveUp(h) PROVE Served'
  BY <1>3, NoGiveUp
<1>4. ASSUME NEW h \in Handler, ~At(h, "waiting"), Stop(h, queue), size' = size PROVE Served'
  <2>1. /\ \A g \in Handler : g # h => run'[g] = run[g]
        /\ run'[h].age = 0 /\ ~Querying(h)' /\ ~At(h, "waiting")'
        /\ queue' = queue
        /\ \A x \in HeldByTx' : x \in HeldByTx
    BY <1>4, Stopped
  <2> QED
    BY <1>4, <2>1, WentOn
<1>5. ASSUME NEW h \in Handler, Refuse(h) \/ Closed(h) PROVE Served'
  BY <1>4, <1>5 DEF Refuse, Closed, Fail, At
<1>6. ASSUME NEW h \in Handler, Finish(h) PROVE Served'
  <2>1. ~At(h, "waiting") /\ size' = size
    BY <1>6 DEF Finish, At
  <2>2. CASE run[h].pc = Len(Program[run[h].of])
    BY <1>4, <1>6, <2>1, <2>2 DEF Finish
  <2>3. CASE run[h].pc # Len(Program[run[h].of])
    <3>1. /\ Enter(h, run[h].of, run[h].pc + 1, queue)
          /\ tx' = IF Op(h).what = "end" THEN [tx EXCEPT ![h][Op(h).depth] = NoTx[1]] ELSE tx
      BY <1>6, <2>3 DEF Finish
    <3>2. run[h].of \in DOMAIN Program
      BY DEF PoolInv, Step
    <3>3. /\ \A g \in Handler : g # h => run'[g] = run[g]
          /\ run'[h].age = 0 /\ ~Querying(h)'
          /\ At(h, "waiting")' => Needs(Op(h).what)'
          /\ queue' = IF At(h, "waiting")' THEN Append(queue, h) ELSE queue
      BY <3>1, <3>2, Entered
    <3>4. NoTx[1].is = "none"
      BY DEF NoTx, Depth
    <3>5. ASSUME NEW g \in Handler, NEW d \in Depth, Alive(g, d)' PROVE Alive(g, d)
      BY <3>1, <3>4, <3>5 DEF Alive, PoolInv
    <3>6. \A x \in HeldByTx' : x \in HeldByTx
      BY <3>5 DEF HeldByTx
    <3> QED
      BY <2>1, <3>3, <3>6, WentOn
  <2> QED
    BY <2>2, <2>3
<1>7. ASSUME NEW h \in Handler, NEW d \in Depth, Expire(h, d) PROVE Served'
  BY <1>7, ServedExpire
<1>8. CASE PoolTick
  BY <1>8, ServedTick
<1>9. CASE UNCHANGED poolVars
  <2>1. size' = size /\ queue' = queue /\ run' = run /\ tx' = tx
    BY <1>9 DEF poolVars
  <2>2. Taken' = Taken
    BY <2>1 DEF Taken, HeldByTx, HeldByQuery, Alive, At, Op
  <2>3. Queued' /\ Brief'
    BY <2>1 DEF Served, Queued, Brief, At, Op
  <2>4. Waited'
    BY <2>1, <2>2 DEF Served, Waited, Querying, Free, At, Op
  <2> QED
    BY <2>1, <2>2, <2>3, <2>4 DEF Served
<1> QED
  BY <1>1, <1>2, <1>3, <1>5, <1>6, <1>7, <1>8, <1>9 DEF PoolNext, Handle

LEMMA ServedFirst == PoolInit => Served
<1> SUFFICES ASSUME PoolInit PROVE Served
  OBVIOUS
<1>1. queue = << >> /\ \A h \in Handler : run[h].at = "idle" /\ tx[h] = NoTx
  BY DEF PoolInit, Idle
<1>2. Taken = {}
  BY <1>1 DEF Taken, HeldByTx, HeldByQuery, Alive, NoTx, At
<1>3. Cardinality(Taken) <= size
  BY <1>2, FS_EmptySet, PoolAssumption DEF PoolInit
<1>4. queue \in Seq(Handler) /\ Len(queue) = 0
  BY <1>1, EmptySeq
<1> QED
  BY <1>1, <1>3, <1>4 DEF Served, Queued, Brief, Waited, At

---------------------------------------------------------------------------
\* Where a program has the labels written: it begins a transaction, looks at them and
\* deletes those that are gone.
DeletesRightly(P) ==
    \A k \in 1..Len(P) : P[k].what = "delete" =>
        /\ k - 2 \in 1..Len(P) /\ k - 1 \in 1..Len(P)
        /\ P[k].depth \in 1..2
        /\ P[k - 1] = Do("inside", P[k].depth)
        /\ P[k - 2] = Do("begin", P[k].depth - 1)

LEMMA EachDeletesRightly == \A of \in DOMAIN Program : DeletesRightly(Program[of])
<1>1. DeletesRightly(UpdateIssue)
  <2>1. Len(UpdateIssue) = 12
    BY DEF UpdateIssue
  <2>2. \A k \in 1..12 : UpdateIssue[k].what = "delete" => k = 6
    BY DEF UpdateIssue, Do
  <2>3. /\ UpdateIssue[4] = Do("begin", 1) /\ UpdateIssue[5] = Do("inside", 2)
        /\ UpdateIssue[6] = Do("delete", 2)
    BY DEF UpdateIssue
  <2> QED
    BY <2>1, <2>2, <2>3 DEF DeletesRightly, Do
<1>2. DeletesRightly(UpsertIssue)
  <2>1. Len(UpsertIssue) = 18
    BY DEF UpsertIssue
  <2>2. \A k \in 1..18 : UpsertIssue[k].what = "delete" => k = 13
    BY DEF UpsertIssue, Do
  <2>3. /\ UpsertIssue[11] = Do("begin", 1) /\ UpsertIssue[12] = Do("inside", 2)
        /\ UpsertIssue[13] = Do("delete", 2)
    BY DEF UpsertIssue
  <2> QED
    BY <2>1, <2>2, <2>3 DEF DeletesRightly, Do
<1>3. DeletesRightly(CreateIssue)
  <2>1. Len(CreateIssue) = 15
    BY DEF CreateIssue
  <2>2. \A k \in 1..15 : CreateIssue[k].what = "delete" => k = 11
    BY DEF CreateIssue, Do
  <2>3. /\ CreateIssue[9] = Do("begin", 0) /\ CreateIssue[10] = Do("inside", 1)
        /\ CreateIssue[11] = Do("delete", 1)
    BY DEF CreateIssue
  <2> QED
    BY <2>1, <2>2, <2>3 DEF DeletesRightly, Do
<1>4. \A k \in 1..Len(RemoveIssue) : RemoveIssue[k].what # "delete"
  BY DEF RemoveIssue, Do
<1>5. \A k \in 1..Len(Change) : Change[k].what # "delete"
  BY DEF Change, Do
<1>6. \A k \in 1..Len(Synchronise) : Synchronise[k].what # "delete"
  BY DEF Synchronise, Do
<1>7. \A k \in 1..Len(Request) : Request[k].what # "delete"
  BY DEF Request, Do
<1>8. \A k \in 1..Len(Count) : Count[k].what # "delete"
  BY DEF Count, Do
<1>9. \A of \in DOMAIN Program :
          Program[of] \in {UpdateIssue, UpsertIssue, CreateIssue, RemoveIssue, Change,
                          Synchronise, Request, Count}
  BY DEF Program
<1>10. \A P \in {RemoveIssue, Change, Synchronise, Request, Count} : DeletesRightly(P)
  BY <1>4, <1>5, <1>6, <1>7, <1>8 DEF DeletesRightly
<1> QED
  BY <1>1, <1>2, <1>3, <1>9, <1>10

\* The same, of the instruction that a handler is at.
LEMMA LabelPlaces ==
    ASSUME NEW of \in DOMAIN Program, NEW k \in Nat
    PROVE  /\ LooksAt(of, k) => /\ k - 1 \in 1..Len(Program[of]) /\ k >= 2
                               /\ Program[of][k + 1].depth \in 1..2
                               /\ Program[of][k + 1].what = "delete"
                               /\ Program[of][k] = Do("inside", Program[of][k + 1].depth)
                               /\ Program[of][k - 1] = Do("begin", Program[of][k + 1].depth - 1)
           /\ DeletesAt(of, k) => k >= 3 /\ LooksAt(of, k - 1) /\ ~LooksAt(of, k)
<1>1. Len(Program[of]) \in Nat
  BY Nested DEF WellNested
<1>2. ASSUME LooksAt(of, k)
      PROVE  /\ k - 1 \in 1..Len(Program[of]) /\ k >= 2
             /\ Program[of][k + 1].depth \in 1..2
             /\ Program[of][k + 1].what = "delete"
             /\ Program[of][k] = Do("inside", Program[of][k + 1].depth)
             /\ Program[of][k - 1] = Do("begin", Program[of][k + 1].depth - 1)
  <2>1. k + 1 \in 1..Len(Program[of]) /\ Program[of][k + 1].what = "delete"
    BY <1>2 DEF LooksAt, DeletesAt
  <2>2. DeletesRightly(Program[of])
    BY EachDeletesRightly
  <2>3. (k + 1) - 2 = k - 1 /\ (k + 1) - 1 = k
    OBVIOUS
  <2>4. /\ (k + 1) - 2 \in 1..Len(Program[of])
        /\ Program[of][k + 1].depth \in 1..2
        /\ Program[of][(k + 1) - 1] = Do("inside", Program[of][k + 1].depth)
        /\ Program[of][(k + 1) - 2] = Do("begin", Program[of][k + 1].depth - 1)
    BY <2>1, <2>2 DEF DeletesRightly
  <2> QED
    BY <1>1, <2>1, <2>3, <2>4
<1>3. ASSUME DeletesAt(of, k) PROVE k >= 3 /\ LooksAt(of, k - 1)
  <2>1. k - 2 \in 1..Len(Program[of])
    BY <1>3, EachDeletesRightly DEF DeletesAt, DeletesRightly
  <2>2. (k - 1) + 1 = k /\ k >= 3
    BY <1>1, <2>1
  <2> QED
    BY <1>3, <2>2 DEF LooksAt
<1>4. ASSUME DeletesAt(of, k), LooksAt(of, k) PROVE FALSE
  <2>1. Program[of][k].what = "delete"
    BY <1>4 DEF DeletesAt
  <2>2. Program[of][k].what = "inside"
    BY <1>2, <1>4 DEF Do
  <2> QED
    BY <2>1, <2>2
<1> QED
  BY <1>2, <1>3, <1>4

\* What one of the first two steps in the transaction of the labels is at.
LEMMA LabelSteps ==
    ASSUME PoolInv, NEW h \in Handler, Labelling(h)
    PROVE  /\ run[h].of \in DOMAIN Program /\ run[h].pc \in Nat /\ run[h].pc >= 2
           /\ Op(h).depth \in 1..2 /\ Op(h).depth \in Depth
           /\ Looks(h) => Op(h).what = "inside" /\ ~DeletesAt(run[h].of, run[h].pc)
           /\ ~Looks(h) => Op(h).what = "delete"
           /\ run[h].of # "sync"
<1> DEFINE of == run[h].of  pc == run[h].pc
<1>1. of \in DOMAIN Program /\ pc \in Nat /\ Op(h) = Program[of][pc]
  BY DEF PoolInv, Step, Op
<1> HIDE DEF of, pc
<1>2. 1..2 \subseteq Depth
  BY DEF Depth
<1>3. of # "sync"
  <2>1. Program["sync"] = Synchronise
    BY DEF Program
  <2>2. \A k \in 1..Len(Synchronise) : Synchronise[k].what # "delete"
    BY DEF Synchronise, Do
  <2>3. LooksAt(of, pc) \/ DeletesAt(of, pc)
    BY DEF Labelling, Looks, of, pc
  <2> QED
    BY <2>1, <2>2, <2>3 DEF LooksAt, DeletesAt
<1>4. CASE LooksAt(of, pc)
  <2>1. /\ pc >= 2 /\ Program[of][pc + 1].depth \in 1..2
        /\ Program[of][pc] = Do("inside", Program[of][pc + 1].depth)
        /\ ~DeletesAt(of, pc)
    BY <1>1, <1>4, LabelPlaces
  <2>2. Op(h).depth \in 1..2 /\ Op(h).what = "inside"
    BY <1>1, <2>1 DEF Do
  <2> QED
    BY <1>1, <1>2, <1>3, <1>4, <2>1, <2>2 DEF of, pc, Looks
<1>5. CASE ~LooksAt(of, pc)
  <2>1. DeletesAt(of, pc)
    BY <1>5 DEF Labelling, Looks, of, pc
  <2>2. Op(h).what = "delete"
    BY <1>1, <2>1 DEF DeletesAt
  <2>3. Op(h).depth \in 1..2
    BY <1>1, <2>1, EachDeletesRightly DEF DeletesAt, DeletesRightly
  <2>4. pc >= 2
    BY <1>1, <2>1, LabelPlaces
  <2> QED
    BY <1>1, <1>2, <1>3, <1>5, <2>2, <2>3, <2>4 DEF of, pc, Looks
<1> QED
  BY <1>4, <1>5

\* One that looks at labels runs.
LEMMA LookersRun == ASSUME PoolInv, Served, NEW h \in Handler, Looks(h) PROVE ~At(h, "waiting")
<1>1. Op(h).what = "inside"
  BY LabelSteps DEF Labelling
<1> QED
  BY <1>1 DEF Served, Queued, Needs, Plain

\* The transaction of the labels does not run out of time on their account.
LEMMA LabelsInTime ==
    ASSUME PoolInv, Patient, Lasting, Served, NEW h \in Handler, LabelsOpen(h),
           Labelling(h)
    PROVE  /\ Alive(h, Op(h).depth) /\ ~At(h, "idle")
           /\ LabelsTx(h).age < TxLimit(h)
           /\ Looks(h) => LabelsTx(h).age <= QueryTime
           /\ At(h, "waiting") => LabelsTx(h).age <= Lasts(Cardinality(Handler))
<1> DEFINE N == Cardinality(Handler)
<1>1. /\ N \in Nat \ {0} /\ Others \in Nat /\ Others + 1 = N
      /\ QueryTime \in Nat \ {0}
  <2>1. N # 0
    BY Counts, FS_EmptySet
  <2> QED
    BY <2>1, Counts
<1>2. /\ Lasts(Others) \in Nat /\ Lasts(N) = Lasts(Others) + QueryTime
      /\ Lasts(N) \in Nat /\ Lasts(N + 1) = Lasts(N) + QueryTime
      /\ \A j \in Int : j <= Others => Lasts(j) \in Int /\ Lasts(j) <= Lasts(Others)
  <2> N \in Int /\ Others \in Int /\ N >= 0 /\ Others >= 0
    BY <1>1
  <2>1. Lasts(Others) \in Nat /\ Lasts(Others + 1) = Lasts(Others) + QueryTime
    BY LastsMore
  <2>2. Lasts(N) \in Nat /\ Lasts(N + 1) = Lasts(N) + QueryTime
    BY LastsMore
  <2>3. \A j \in Int : Lasts(j) \in Int
    BY LastsMore
  <2>4. \A j \in Int : j <= Others => Lasts(j) <= Lasts(Others)
    BY LastsMore
  <2> QED
    BY <1>1, <2>1, <2>2, <2>3, <2>4
<1>3. TxLimit(h) = TxTimeout /\ TxTimeout \in Nat /\ Lasts(N + 1) < TxTimeout
  BY PoolAssumption, LabelSteps DEF TxLimit, Lasting, Lasts
<1>4. /\ Alive(h, Op(h).depth)
      /\ LabelsTx(h).age <= run[h].age + (IF Looks(h) THEN 0
               ELSE IF At(h, "waiting") THEN QueryTime ELSE Lasts(N))
  BY DEF LabelsOpen
<1>5. ~At(h, "idle")
  BY <1>4 DEF PoolInv, HandlerOK, Alive
<1>6. run[h].age \in Nat /\ LabelsTx(h).age \in Nat
  BY <1>4, LabelSteps DEF PoolInv, Step, LabelsTx
<1>7. ASSUME At(h, "waiting") PROVE ~Looks(h) /\ run[h].age <= Lasts(Others)
  <2>1. PICK i \in 1..Len(queue) : queue[i] = h
    BY <1>7 DEF Served, Queued
  <2>2. run[h].age <= Lasts(Others + 1 - i)
    BY <2>1 DEF Served, Waited
  <2>3. i \in Int /\ Others + 1 - i \in Int /\ Others + 1 - i <= Others
    BY <1>1
  <2>4. Lasts(Others + 1 - i) \in Int /\ Lasts(Others + 1 - i) <= Lasts(Others)
    BY <1>2, <2>3
  <2>5. run[h].age <= Lasts(Others)
    BY <1>2, <1>6, <2>2, <2>4
  <2> QED
    BY <1>7, <2>5, LookersRun
<1>8. ASSUME ~At(h, "waiting") PROVE run[h].age <= QueryTime
  <2>1. At(h, "running")
    BY <1>5, <1>8 DEF PoolInv, Step, At
  <2>2. Op(h).what # "linear"
    BY LabelSteps
  <2> QED
    BY <2>1, <2>2 DEF Served, Brief
<1>9. CASE At(h, "waiting")
  <2>1. ~Looks(h) /\ run[h].age <= Lasts(Others)
    BY <1>7, <1>9
  <2>2. LabelsTx(h).age <= run[h].age + QueryTime
    BY <1>4, <1>9, <2>1
  <2>3. LabelsTx(h).age <= Lasts(N)
    BY <1>1, <1>2, <1>6, <2>1, <2>2
  <2>4. LabelsTx(h).age < TxTimeout
    BY <1>1, <1>2, <1>3, <1>6, <2>3
  <2> QED
    BY <1>3, <1>4, <1>5, <2>1, <2>3, <2>4
<1>10. CASE ~At(h, "waiting")
  <2>1. run[h].age <= QueryTime
    BY <1>8, <1>10
  <2>2. CASE Looks(h)
    <3>1. LabelsTx(h).age <= QueryTime
      BY <1>1, <1>4, <1>6, <2>1, <2>2
    <3>2. LabelsTx(h).age < TxTimeout
      BY <1>1, <1>2, <1>3, <1>6, <3>1
    <3> QED
      BY <1>3, <1>4, <1>5, <1>10, <3>1, <3>2
  <2>3. CASE ~Looks(h)
    <3>1. LabelsTx(h).age <= run[h].age + Lasts(N)
      BY <1>4, <1>10, <2>3
    <3>2. LabelsTx(h).age < TxTimeout
      BY <1>1, <1>2, <1>3, <1>6, <2>1, <3>1
    <3> QED
      BY <1>3, <1>4, <1>5, <1>10, <2>3, <3>2
  <2> QED
    BY <2>2, <2>3
<1> QED
  BY <1>9, <1>10

LEMMA LabelsNext ==
    ASSUME PoolInv, PoolInv', Patient, Lasting, Served, NEW h \in Handler, LabelsOpen(h),
           [PoolNext]_poolVars
    PROVE  LabelsOpen(h)'
<1> SUFFICES ASSUME Labelling(h)' PROVE LabelsOpen(h)'
  BY DEF LabelsOpen
<1> DEFINE N == Cardinality(Handler)
<1>a. /\ run[h].of \in DOMAIN Program /\ run[h].pc \in Nat /\ run[h] \in Step
      /\ run'[h].of \in DOMAIN Program /\ run'[h].pc \in Nat
  BY DEF PoolInv, Step
<1>b. QueryTime \in Nat /\ N \in Nat /\ Lasts(N) \in Nat
  BY Counts, LastsMore
<1>c. run'[h].pc >= 2
  BY <1>a, LabelPlaces DEF Labelling, Looks
<1>1. ASSUME run'[h] = run[h], tx'[h] = tx[h] PROVE LabelsOpen(h)'
  BY <1>1 DEF LabelsOpen, Labelling, Looks, LabelsTx, Alive, At, Op
<1>2. ASSUME NEW g \in Handler, NEW of \in Used, Start(g, of) PROVE LabelsOpen(h)'
  <2>1. of \in DOMAIN Program
    BY PoolAssumption DEF Program
  <2>2. /\ \A x \in Handler : x # g => run'[x] = run[x]
        /\ run'[g].pc = 1 /\ tx' = tx
    BY <1>2, <2>1, Entered DEF Start
  <2>3. g # h
    BY <1>c, <2>2
  <2> QED
    BY <1>1, <2>2, <2>3
<1>3. ASSUME NEW g \in Handler, Acquire(g) PROVE LabelsOpen(h)'
  <2> DEFINE of == run[g].of  pc == run[g].pc
  <2>0. of \in DOMAIN Program /\ pc \in Nat /\ run[g] \in Step
    BY DEF PoolInv, Step
  <2>1. CASE Op(g).what = "begin"
    <3>1. /\ Enter(g, of, pc + 1, Tail(queue))
          /\ tx' = [tx EXCEPT ![g][Op(g).depth + 1] = [is |-> "alive", age |-> 0]]
      BY <1>3, <2>1 DEF Acquire
    <3>2. /\ \A x \in Handler : x # g => run'[x] = run[x] /\ tx'[x] = tx[x]
          /\ run'[g].of = of /\ run'[g].pc = pc + 1 /\ run'[g].age = 0
      BY <2>0, <3>1, Entered DEF PoolInv
    <3>3. ASSUME g = h PROVE LabelsOpen(h)'
      <4>1. Op(h) = Program[of][pc] /\ Op(h)' = Program[of][pc + 1]
        BY <3>2, <3>3 DEF Op
      <4>2. ~DeletesAt(of, pc + 1)
        <5>1. ASSUME DeletesAt(of, pc + 1) PROVE FALSE
          <6>1. LooksAt(of, pc)
            BY <5>1 DEF LooksAt
          <6>2. Program[of][pc] = Do("inside", Program[of][pc + 1].depth)
            BY <2>0, <6>1, LabelPlaces
          <6>3. Program[of][pc].what = "inside"
            BY <6>2 DEF Do
          <6> QED
            BY <2>1, <3>3, <4>1, <6>3
        <5> QED
          BY <5>1
      <4>3. LooksAt(of, pc + 1) /\ Looks(h)'
        BY <3>2, <3>3, <4>2 DEF Labelling, Looks
      <4>4. /\ Program[of][pc + 2].depth \in 1..2
            /\ Program[of][pc + 1] = Do("inside", Program[of][pc + 2].depth)
            /\ Program[of][pc] = Do("begin", Program[of][pc + 2].depth - 1)
        <5>1. pc + 1 \in Nat /\ (pc + 1) + 1 = pc + 2 /\ (pc + 1) - 1 = pc
          BY <2>0
        <5> QED
          BY <2>0, <4>3, <5>1, LabelPlaces
      <4>5. Op(h)'.depth \in 1..2 /\ Op(h).depth + 1 = Op(h)'.depth
        BY <4>1, <4>4 DEF Do
      <4>6. LabelsTx(h)' = [is |-> "alive", age |-> 0]
        <5>1. Op(h)'.depth \in Depth
          BY <4>5 DEF Depth
        <5> QED
          BY <3>1, <3>3, <4>5, <5>1 DEF PoolInv, LabelsTx
      <4>7. Alive(h, Op(h).depth)'
        BY <4>5, <4>6 DEF LabelsTx, Alive, Depth
      <4> QED
        BY <3>2, <3>3, <4>3, <4>6, <4>7 DEF LabelsOpen
    <3> QED
      BY <1>1, <3>2, <3>3
  <2>2. CASE Op(g).what # "begin"
    <3>1. /\ run' = [run EXCEPT ![g].at = "running", ![g].age = 0]
          /\ tx' = tx
      BY <1>3, <2>2 DEF Acquire
    <3>2. /\ \A x \in Handler : x # g => run'[x] = run[x]
          /\ run'[g].of = of /\ run'[g].pc = pc /\ run'[g].age = 0 /\ run'[g].at = "running"
      BY <2>0, <3>1 DEF PoolInv, Step
    <3>3. ASSUME g = h PROVE LabelsOpen(h)'
      <4>1. At(h, "waiting")
        <5>1. queue \in Seq(Handler) /\ queue # << >> /\ queue[1] = h
          BY <1>3, <3>3 DEF Acquire, Served, Queued
        <5>2. 1 \in 1..Len(queue)
          BY <5>1
        <5> QED
          BY <5>1, <5>2 DEF Served, Queued
      <4>2. Op(h)' = Op(h) /\ Labelling(h) /\ (Looks(h)' <=> Looks(h))
        BY <3>2, <3>3 DEF Op, Labelling, Looks
      <4>3. ~Looks(h) /\ Alive(h, Op(h).depth) /\ LabelsTx(h).age <= Lasts(N)
        BY <4>1, <4>2, LabelsInTime, LookersRun
      <4>4. LabelsTx(h)' = LabelsTx(h) /\ run'[h].age = 0 /\ ~At(h, "waiting")'
        BY <3>1, <3>2, <3>3, <4>2 DEF At, LabelsTx
      <4>5. LabelsTx(h)'.age <= run'[h].age + Lasts(N)
        BY <1>b, <4>3, <4>4
      <4>6. Alive(h, Op(h).depth)'
        BY <3>1, <4>2, <4>3 DEF Alive
      <4> QED
        BY <4>2, <4>3, <4>4, <4>5, <4>6 DEF LabelsOpen
    <3> QED
      BY <1>1, <3>1, <3>2, <3>3
  <2> QED
    BY <2>1, <2>2
<1>4. ASSUME NEW g \in Handler, GiveUp(g) PROVE LabelsOpen(h)'
  BY <1>4, NoGiveUp
<1>5. ASSUME NEW g \in Handler, Stop(g, queue) PROVE LabelsOpen(h)'
  <2>1. /\ \A x \in Handler : x # g => run'[x] = run[x] /\ tx'[x] = tx[x]
        /\ run'[g] = Idle
    BY <1>5 DEF Stop, PoolInv
  <2>2. g # h
    BY <1>c, <2>1 DEF Idle
  <2> QED
    BY <1>1, <2>1, <2>2
<1>6. ASSUME NEW g \in Handler, Refuse(g) \/ Closed(g) PROVE LabelsOpen(h)'
  BY <1>5, <1>6 DEF Refuse, Closed, Fail
<1>7. ASSUME NEW g \in Handler, Finish(g) PROVE LabelsOpen(h)'
  <2> DEFINE of == run[g].of  pc == run[g].pc
  <2>0. of \in DOMAIN Program /\ pc \in Nat /\ run[g] \in Step
    BY DEF PoolInv, Step
  <2>1. CASE pc = Len(Program[of])
    BY <1>5, <1>7, <2>1 DEF Finish
  <2>2. CASE pc # Len(Program[of])
    <3>1. /\ Enter(g, of, pc + 1, queue)
          /\ tx' = IF Op(g).what = "end" THEN [tx EXCEPT ![g][Op(g).depth] = NoTx[1]] ELSE tx
          /\ At(g, "running")
      BY <1>7, <2>2 DEF Finish
    <3>2. /\ \A x \in Handler : x # g => run'[x] = run[x]
          /\ run'[g].of = of /\ run'[g].pc = pc + 1 /\ run'[g].age = 0
          /\ ~At(g, "idle")' /\ ~Querying(g)'
      BY <2>0, <3>1, Entered
    <3>3. \A x \in Handler : x # g => tx'[x] = tx[x]
      BY <3>1 DEF PoolInv
    <3>4. run'[g].at \in {"idle", "waiting", "running"}
      BY DEF PoolInv, Step
    <3>5. ASSUME g = h PROVE LabelsOpen(h)'
      <4>1. Op(h) = Program[of][pc] /\ Op(h)' = Program[of][pc + 1]
        BY <3>2, <3>5 DEF Op
      <4>2. ~LooksAt(of, pc + 1)
        <5>1. ASSUME LooksAt(of, pc + 1) PROVE FALSE
          <6>1. pc + 1 \in Nat /\ (pc + 1) - 1 = pc
            BY <2>0
          <6>2. \A k \in Nat : LooksAt(of, k)
                    => Program[of][k - 1] = Do("begin", Program[of][k + 1].depth - 1)
            BY <2>0, LabelPlaces
          <6>3. Program[of][pc] = Do("begin", Program[of][(pc + 1) + 1].depth - 1)
            BY <5>1, <6>1, <6>2
          <6>4. Program[of][pc].what = "begin"
            BY <6>3 DEF Do
          <6>5. Op(h).what # "begin"
            BY <3>1, <3>5 DEF PoolInv, HandlerOK
          <6> QED
            BY <4>1, <6>4, <6>5
        <5> QED
          BY <5>1
      <4>3. ~Looks(h)' /\ LooksAt(of, pc) /\ Looks(h)
        BY <3>2, <3>5, <4>2 DEF Labelling, Looks, LooksAt
      <4>4. /\ Program[of][pc] = Do("inside", Program[of][pc + 1].depth)
            /\ Program[of][pc + 1].what = "delete"
        BY <2>0, <4>3, LabelPlaces
      <4>5. Op(h).depth = Op(h)'.depth /\ Op(h).what = "inside" /\ Op(h)'.what = "delete"
        BY <4>1, <4>4 DEF Do
      <4>6. Labelling(h) /\ Alive(h, Op(h).depth) /\ LabelsTx(h).age <= QueryTime
        <5>1. Labelling(h)
          BY <4>3 DEF Labelling
        <5> QED
          BY <4>3, <5>1, LabelsInTime
      <4>7. tx' = tx
        BY <3>1, <3>5, <4>5
      <4>8. At(h, "waiting")'
        BY <3>2, <3>4, <3>5, <4>5 DEF Querying, Plain, At
      <4>9. LabelsTx(h)' = LabelsTx(h)
        BY <4>5, <4>7 DEF LabelsTx
      <4>10. LabelsTx(h)'.age <= run'[h].age + QueryTime
        BY <1>b, <3>2, <3>5, <4>6, <4>9
      <4>11. Alive(h, Op(h).depth)'
        BY <4>5, <4>6, <4>7 DEF Alive
      <4> QED
        BY <4>3, <4>8, <4>10, <4>11 DEF LabelsOpen
    <3> QED
      BY <1>1, <3>2, <3>3, <3>5
  <2> QED
    BY <2>1, <2>2
<1>8. ASSUME NEW g \in Handler, NEW d \in Depth, Expire(g, d) PROVE LabelsOpen(h)'
  <2>1. /\ run' = run /\ Alive(g, d) /\ tx[g][d].age = TxLimit(g)
        /\ tx' = [tx EXCEPT ![g][d] = [is |-> "over", age |-> 0]]
    BY <1>8 DEF Expire
  <2>2. Labelling(h) /\ Op(h)' = Op(h) /\ (Looks(h)' <=> Looks(h))
    BY <2>1 DEF Labelling, Looks, Op
  <2>3. Op(h).depth \in Depth /\ Alive(h, Op(h).depth)
    BY <2>2, LabelSteps, LabelsInTime
  <2>4. ~(g = h /\ d = Op(h).depth)
    <3> SUFFICES ASSUME g = h, d = Op(h).depth PROVE FALSE
      OBVIOUS
    <3>1. LabelsTx(h).age < TxLimit(h)
      BY <2>2, LabelsInTime
    <3>2. TxLimit(h) \in Nat
      BY PoolAssumption DEF TxLimit
    <3> QED
      BY <2>1, <3>1, <3>2 DEF LabelsTx
  <2>5. LabelsTx(h)' = LabelsTx(h)
    BY <2>1, <2>2, <2>3, <2>4 DEF PoolInv, LabelsTx
  <2>6. Alive(h, Op(h).depth)'
    BY <2>2, <2>3, <2>5 DEF LabelsTx, Alive
  <2> QED
    BY <2>1, <2>2, <2>5, <2>6 DEF LabelsOpen, At
<1>9. CASE PoolTick
  <2>1. run'[h] = IF At(h, "idle") THEN run[h] ELSE [run[h] EXCEPT !.age = @ + 1]
    BY <1>9 DEF PoolTick
  <2>2. run'[h].of = run[h].of /\ run'[h].pc = run[h].pc /\ run'[h].at = run[h].at
    BY <1>a, <2>1 DEF Step
  <2>3. Labelling(h) /\ Op(h)' = Op(h) /\ (Looks(h)' <=> Looks(h))
    BY <2>2 DEF Labelling, Looks, Op
  <2>4. Op(h).depth \in Depth /\ Alive(h, Op(h).depth) /\ ~At(h, "idle")
    BY <2>3, LabelSteps, LabelsInTime
  <2>5. LabelsTx(h) \in [is : {"none", "alive", "over"}, age : Nat]
    BY <2>4 DEF PoolInv, LabelsTx
  <2>6. LabelsTx(h)' = [LabelsTx(h) EXCEPT !.age = @ + 1]
    BY <1>9, <2>3, <2>4 DEF PoolTick, LabelsTx
  <2>7. /\ LabelsTx(h)'.age = LabelsTx(h).age + 1 /\ LabelsTx(h).age \in Nat
        /\ LabelsTx(h)'.is = LabelsTx(h).is
    BY <2>5, <2>6
  <2>8. run'[h].age = run[h].age + 1 /\ run[h].age \in Nat
    BY <1>a, <2>1, <2>4 DEF Step
  <2>9. ASSUME NEW more \in Nat, LabelsTx(h).age <= run[h].age + more
        PROVE  LabelsTx(h)'.age <= run'[h].age + more
    BY <2>7, <2>8, <2>9
  <2>10. Alive(h, Op(h).depth)'
    BY <2>3, <2>4, <2>7 DEF Alive, LabelsTx
  <2> DEFINE more == IF Looks(h) THEN 0 ELSE IF At(h, "waiting") THEN QueryTime ELSE Lasts(N)
  <2>11. more \in Nat /\ LabelsTx(h).age <= run[h].age + more
    BY <1>b, <2>3 DEF LabelsOpen
  <2>12. LabelsTx(h)'.age <= run'[h].age + more
    BY <2>9, <2>11
  <2>13. At(h, "waiting")' <=> At(h, "waiting")
    BY <2>2 DEF At
  <2> QED
    BY <2>3, <2>10, <2>12, <2>13 DEF LabelsOpen
<1>10. CASE UNCHANGED poolVars
  BY <1>1, <1>10 DEF poolVars
<1> QED
  BY <1>2, <1>3, <1>4, <1>6, <1>7, <1>8, <1>9, <1>10 DEF PoolNext, Handle

---------------------------------------------------------------------------
LEMMA ServeFirst == PoolInit => ServeInv
<1> SUFFICES ASSUME PoolInit PROVE ServeInv
  OBVIOUS
<1>1. ASSUME NEW h \in Handler PROVE ~Labelling(h)
  <2>1. run[h].of \in DOMAIN Program /\ run[h].pc = 1
    BY IdleProgram DEF PoolInit, Idle
  <2>2. 1 \in Nat
    OBVIOUS
  <2> QED
    BY <2>1, <2>2, LabelPlaces DEF Labelling, Looks
<1> QED
  BY <1>1, PoolInitInv, ServedFirst DEF ServeInv, LabelsOpen

LEMMA ServeNext == ServeInv /\ [PoolNext]_poolVars => ServeInv'
<1> SUFFICES ASSUME ServeInv, [PoolNext]_poolVars PROVE ServeInv'
  OBVIOUS
<1>1. PoolInv /\ PoolInv'
  BY PoolNextInv DEF ServeInv
<1>2. Roomy' <=> Roomy
  <2>1. size' = size
    BY DEF PoolNext, Handle, Start, Acquire, GiveUp, Refuse, Closed, Fail, Finish, Expire,
       PoolTick, poolVars
  <2> QED
    BY <2>1 DEF Roomy
<1>3. ASSUME Roomy, Patient PROVE Served'
  BY <1>1, <1>3, ServedNext DEF ServeInv
<1>4. ASSUME Roomy, Patient, Lasting, NEW h \in Handler PROVE LabelsOpen(h)'
  BY <1>1, <1>4, LabelsNext DEF ServeInv
<1> QED
  BY <1>1, <1>2, <1>3, <1>4 DEF ServeInv

LEMMA Serves == PoolSpec => []ServeInv
BY ServeFirst, ServeNext, PTL DEF PoolSpec

\* In such a pool, and with such limits, no handler ever gives up waiting for a
\* connection: whoever waits is served within a query of every other handler.
THEOREM NobodyGivesUp == PoolSpec => RoomyServes
<1>1. ServeInv => (Roomy /\ Patient => \A h \in Handler : ~GiveUp(h))
  BY NoGiveUp DEF ServeInv
<1>2. ServeInv /\ [PoolNext]_poolVars
          => [Roomy /\ Patient => \A h \in Handler : ~GiveUp(h)]_poolVars
  BY <1>1
<1> QED
  BY <1>2, Serves, PTL DEF PoolSpec, RoomyServes

\* And the labels that an update takes away are deleted, by a query outside of it,
\* before the transaction that writes the others runs out of time.
THEOREM LabelsDeletedInTime == PoolSpec => DeletesWithinTransaction
<1>1. ASSUME ServeInv, Roomy, Patient, Lasting, NEW h \in Handler, Deletes(h)
      PROVE  Alive(h, Op(h).depth)
  <2>1. /\ run[h].of \in DOMAIN Program /\ run[h].pc \in Nat
        /\ run[h].pc \in 1..Len(Program[run[h].of])
    BY <1>1 DEF ServeInv, PoolInv, HandlerOK, Step
  <2>2. Program[run[h].of][run[h].pc].what = "delete"
    BY <1>1 DEF Deletes, Op
  <2>3. Labelling(h)
    BY <2>1, <2>2 DEF Labelling, DeletesAt
  <2> QED
    BY <1>1, <2>3 DEF ServeInv, LabelsOpen
<1>2. ServeInv /\ [PoolNext]_poolVars
          => [Roomy /\ Patient /\ Lasting => \A h \in Handler : Deletes(h) => Alive(h, Op(h).depth)]_poolVars
  BY <1>1
<1> QED
  BY <1>2, Serves, PTL DEF PoolSpec, DeletesWithinTransaction

(***************************************************************************)
(* WebSocket connections                                                   *)
(* The registry of connections and the cleanup of silent clients.          *)
(***************************************************************************)
GatewayInv == TypeOK /\ RegistryMatches /\ TimersAgree

\* handleConnection knows no user, and makes room for nobody.
LEMMA NobodyEvicted == ASSUME NEW s PROVE Evicted(UserId(s)) = {}
BY DEF Evicted, UserId

\* What closing the sockets of S does to the registry.
LEMMA CloseMatches ==
  ASSUME GatewayInv, NEW S \in SUBSET Socket, Close(S)
  PROVE  /\ open' \subseteq Socket
         /\ connections' \in [Socket -> Info \cup {None}]
         /\ userConnections' \in [User -> SUBSET Socket]
         /\ RegistryMatches'
         /\ open' = open \ S
         /\ \A s \in open' : connections'[s] = connections[s]
<1> USE DEF GatewayInv, TypeOK, Close, Without, UsersWithout
<1>1. /\ open' \subseteq Socket
      /\ connections' \in [Socket -> Info \cup {None}]
      /\ userConnections' \in [User -> SUBSET Socket]
  OBVIOUS
<1>2. Registered' = Registered \ S
  BY DEF Registered
<1>3. \A s \in Registered' : connections'[s] = connections[s]
  BY <1>2 DEF Registered
<1>4. \A u \in User :
        userConnections'[u] = {s \in Registered' : connections'[s].userId = u}
  BY <1>2, <1>3 DEF RegistryMatches
<1>5. RegistryMatches'
  BY <1>2, <1>4 DEF RegistryMatches
<1>6. \A s \in open' : connections'[s] = connections[s]
  BY <1>3, <1>5 DEF RegistryMatches
<1> QED
  BY <1>1, <1>5, <1>6

\* The server starts without sockets, with its cleanup an interval away.
LEMMA InitGatewayInv == Init => GatewayInv
<1> SUFFICES ASSUME Init PROVE GatewayInv
  OBVIOUS
<1>1. TypeOK
  BY GatewayAssumption DEF Init, TypeOK
<1>2. RegistryMatches
  BY DEF Init, RegistryMatches, Registered
<1>3. TimersAgree
  BY GatewayAssumption DEF Init, TimersAgree
<1> QED
  BY <1>1, <1>2, <1>3 DEF GatewayInv

\* A new connection is in the registry, without a user, and heard of just now.
LEMMA ConnectGatewayInv ==
  ASSUME GatewayInv, NEW s \in Socket, NEW u \in User, Connect(s, u)
  PROVE  GatewayInv'
<1> DEFINE info == [userId |-> None, connectedAt |-> now, lastActivity |-> now]
<1>1. /\ open' = open \cup {s}
      /\ connections' = [connections EXCEPT ![s] = info]
      /\ userConnections' = userConnections
      /\ owner' = [owner EXCEPT ![s] = u]
      /\ heard' = [heard EXCEPT ![s] = now]
      /\ now' = now /\ cleanupDue' = cleanupDue
      /\ s \notin open
  <2>1. Without({}) = connections /\ UsersWithout({}) = userConnections
    BY DEF GatewayInv, TypeOK, Without, UsersWithout
  <2>2. \A v \in User : v # UserId(s)
    BY GatewayAssumption DEF UserId
  <2>3. userConnections' = [v \in User |-> userConnections[v]]
    BY <2>1, <2>2, NobodyEvicted DEF Connect
  <2> QED
    BY <2>1, <2>3, NobodyEvicted DEF Connect, UserId, GatewayInv, TypeOK
<1>2. info \in Info /\ now \in Nat
  BY GatewayAssumption DEF GatewayInv, TypeOK, Info
<1>3. TypeOK'
  BY <1>1, <1>2 DEF GatewayInv, TypeOK
<1>4. info # None
  BY <1>2, GatewayAssumption
<1>5. Registered' = Registered \cup {s}
  BY <1>1, <1>4 DEF Registered, GatewayInv, TypeOK
<1>6. \A v \in User : {t \in Registered' : connections'[t].userId = v}
                        = {t \in Registered : connections[t].userId = v}
  BY <1>1, <1>5, GatewayAssumption DEF Registered, GatewayInv, TypeOK, RegistryMatches
<1>7. RegistryMatches'
  BY <1>1, <1>5, <1>6 DEF GatewayInv, RegistryMatches
<1>8. TimersAgree'
  BY <1>1, <1>2, GatewayAssumption DEF GatewayInv, TypeOK, TimersAgree, Info
<1> QED
  BY <1>3, <1>7, <1>8 DEF GatewayInv

\* A connection that breaks leaves the others as they are.
LEMMA DisconnectGatewayInv ==
  ASSUME GatewayInv, NEW s \in Socket, Disconnect(s)
  PROVE  GatewayInv'
<1>1. Close({s}) /\ UNCHANGED <<now, cleanupDue, owner, heard>>
  BY DEF Disconnect
<1>2. TypeOK' /\ RegistryMatches'
  BY <1>1, CloseMatches DEF GatewayInv, TypeOK
<1>3. TimersAgree'
  BY <1>1, CloseMatches DEF GatewayInv, TimersAgree
<1> QED
  BY <1>2, <1>3 DEF GatewayInv

\* The cleanup leaves the connections that have lasted for an interval at most;
\* the next one comes an interval later.
LEMMA CleanupGatewayInv == ASSUME GatewayInv, Cleanup PROVE GatewayInv'
<1>1. /\ Inactive \cap open \in SUBSET Socket
      /\ Close(Inactive \cap open)
      /\ cleanupDue' = now + Timeout
      /\ UNCHANGED <<now, owner, heard>>
  BY DEF Cleanup, Inactive, Registered
<1>2. /\ now \in Nat /\ Timeout \in Nat
      /\ TypeOK' /\ RegistryMatches'
  BY <1>1, CloseMatches, GatewayAssumption DEF GatewayInv, TypeOK
<1>3. ASSUME NEW s \in open'
      PROVE  /\ connections'[s].lastActivity <= heard'[s]
             /\ heard'[s] <= now'
             /\ cleanupDue' <= connections'[s].lastActivity + 2 * Timeout
  <2>1. /\ s \in open /\ s \in Registered /\ s \notin Inactive
        /\ connections'[s] = connections[s]
    BY <1>1, <1>3, CloseMatches DEF GatewayInv, RegistryMatches
  <2>2. connections[s] \in Info
    BY <2>1 DEF GatewayInv, TypeOK, Registered
  <2>3. connections[s].lastActivity \in Nat
    BY <2>2 DEF Info
  <2>4. now - connections[s].lastActivity <= Timeout
    BY <1>2, <2>1, <2>3 DEF Inactive
  <2>5. connections[s].lastActivity <= heard[s] /\ heard[s] <= now
    BY <2>1 DEF GatewayInv, TimersAgree
  <2> QED
    BY <1>1, <1>2, <2>1, <2>3, <2>4, <2>5
<1>4. TimersAgree'
  BY <1>1, <1>2, <1>3, GatewayAssumption DEF TimersAgree
<1> QED
  BY <1>2, <1>4 DEF GatewayInv

\* Heartbeats and the clock change neither sockets nor registry.
LEMMA EnvironmentGatewayInv ==
  ASSUME GatewayInv, (\E s \in Socket : Hear(s)) \/ Tick \/ UNCHANGED vars
  PROVE  GatewayInv'
<1>1. UNCHANGED <<open, connections, userConnections, cleanupDue, owner>>
  BY DEF Hear, Tick, vars, registry
<1>2. RegistryMatches'
  BY <1>1 DEF GatewayInv, RegistryMatches, Registered
<1>3. \A s \in open : connections[s].lastActivity \in Nat
  BY DEF GatewayInv, TypeOK, RegistryMatches, Registered, Info
<1>4. CASE \E s \in Socket : Hear(s)
  <2>1. PICK s \in Socket : Hear(s)
    BY <1>4
  <2>2. heard' = [heard EXCEPT ![s] = now] /\ now' = now
    BY <2>1 DEF Hear
  <2>3. TypeOK'
    BY <1>1, <2>2 DEF GatewayInv, TypeOK
  <2>4. \A t \in open : t \in Socket /\ heard[t] \in Nat
                         /\ connections[t].lastActivity <= now
    BY <1>3 DEF GatewayInv, TypeOK, TimersAgree
  <2> QED
    BY <1>1, <1>2, <1>3, <2>2, <2>3, <2>4 DEF GatewayInv, TypeOK, TimersAgree
<1>5. CASE Tick \/ UNCHANGED vars
  BY <1>1, <1>2, <1>5, GatewayAssumption
     DEF Tick, vars, registry, GatewayInv, TypeOK, TimersAgree
<1> QED
  BY <1>4, <1>5

\* Every step of the specification, by the lemmas above.
LEMMA NextGatewayInv == GatewayInv /\ [Next]_vars => GatewayInv'
BY ConnectGatewayInv, DisconnectGatewayInv, CleanupGatewayInv, EnvironmentGatewayInv
   DEF Next

\* The registry follows the open sockets, whatever connects, breaks or times out.
THEOREM RegistrySound == Spec => [](TypeOK /\ RegistryMatches)
<1>1. GatewayInv => TypeOK /\ RegistryMatches
  BY DEF GatewayInv
<1> QED
  BY <1>1, InitGatewayInv, NextGatewayInv, PTL DEF Spec

\* A silent client is disconnected within two intervals of the cleanup, whatever
\* the timeout is.
THEOREM SilenceEnds == Spec => []SilentDropped
<1>1. GatewayInv => SilentDropped
  <2> SUFFICES ASSUME GatewayInv, NEW s \in open PROVE now - heard[s] <= 2 * Timeout
    BY DEF SilentDropped
  <2>1. connections[s].lastActivity \in Nat
    BY DEF GatewayInv, TypeOK, RegistryMatches, Registered, Info
  <2>2. /\ connections[s].lastActivity <= heard[s]
        /\ now <= connections[s].lastActivity + 2 * Timeout
    BY <2>1, GatewayAssumption DEF GatewayInv, TypeOK, TimersAgree
  <2>3. s \in Socket
    BY DEF GatewayInv, TypeOK
  <2> QED
    BY <2>1, <2>2, <2>3, GatewayAssumption DEF GatewayInv, TypeOK
<1> QED
  BY <1>1, InitGatewayInv, NextGatewayInv, PTL DEF Spec
===============================================================================
