------------------------------- MODULE Billing -------------------------------
(* time/, rate/ and invoice/: the time entries of a project, the rates they   *)
(* are entered at, and the invoices and reports computed from them.           *)
(* InvoiceService asks the database four questions, each of its own: the      *)
(* project, the membership of the caller, the sums per rate, the rates.       *)
(* People enter, correct and remove times, rates and memberships in between.  *)
(* Instants are naturals; an entry's elapsed time is in thousandths of the    *)
(* unit of MsPerHour, and money and hours are integers in 1 / DecimalPlaces.  *)
(* Projects other than one, and the wording of answers, are left out.         *)
EXTENDS Integers, FiniteSets, Functions

CONSTANTS
    User, Admin,        \* who asks for invoices; the administrators among them
    Rate, Entry, None,
    Price,              \* what each rate charges an hour: never updated
    MsPerHour, DecimalPlaces,
    Day, OneYear,       \* lengths of a day and of the longest invoice
    MaxTime,            \* bound on instants
    Elapsed             \* the elapsed times that clients report

Instant == 0..MaxTime
Row == [start : Instant, end : Instant, rate : Rate \cup {None}, elapsed : Elapsed]

ASSUME BillingAssumption ==
    /\ Admin \subseteq User
    /\ Price \in [Rate -> Nat] /\ Elapsed \subseteq Nat /\ MaxTime \in Nat
    /\ {MsPerHour, DecimalPlaces, Day, OneYear} \subseteq Nat \ {0}
    /\ None \notin Rate /\ None \notin Row
    /\ IsFiniteSet(Rate) /\ IsFiniteSet(Entry)

VARIABLES
    project,            \* the project is in the database
    rate,               \* the rows of Rate
    time,               \* the rows of Time: a record, or None
    entered,            \* the ids that Time and Rate have ever had (autoincrement)
    member,             \* the users in the project's team
    call                \* the invoice that each user is asking for

vars == <<project, rate, time, entered, member, call>>

Period == {p \in [from : Instant, to : Instant] :
               p.from < p.to /\ p.to - p.from <= OneYear}
Rows == {k \in Entry : time[k] # None}

(***************************************************************************)
(* Periods                                                                 *)
(***************************************************************************)
\* Mutant: an entry that spans the whole period is missed.
InPeriodNoSpan(row, p) == \/ row.start \in p.from..p.to
                          \/ row.end \in p.from..p.to

\* An entry counts for an invoice when it starts in the period, ends in it, or
\* spans it.
InPeriod(row, p) == \/ row.start \in p.from..p.to
                    \/ row.end \in p.from..p.to
                    \/ row.start <= p.from /\ row.end >= p.to

Billed(p) == {k \in Rows : /\ InPeriod(time[k], p)
                           /\ time[k].rate # None
                           /\ time[k].elapsed > 0}

DayStart(t) == t - (t % Day)
DayEnd(t) == DayStart(t) + Day - 1

\* Mutant: the report takes what overlaps the days, as the invoice does.
InReportOverlap(row, first, last) == row.start <= DayEnd(last) /\ row.end >= DayStart(first)

\* An entry counts for a report when it lies within the days of the report.
InReport(row, first, last) == row.start >= DayStart(first) /\ row.end <= DayEnd(last)

\* The report over a period, and over all time.
Spent == [k \in Rows |-> time[k].elapsed]
Sum(K) == SumFunctionOnSet(Spent, K)
TimeSpent(first, last) == Sum({k \in Rows : InReport(time[k], first, last)})
TimeForProject == Sum(Rows)

(***************************************************************************)
(* Invoices                                                                *)
(***************************************************************************)
Round(n, d) == (2 * n + d) \div (2 * d)
Hours(ms) == Round(ms * DecimalPlaces, MsPerHour)
Cost(r, ms) == Round(ms * Price[r] * DecimalPlaces, MsPerHour)

\* The sums of the entries in K per rate; 0 where no entry has the rate.
GroupBy(K) == [r \in Rate |-> Sum({k \in K : time[k].rate = r})]
Groups(sums) == {r \in Rate : sums[r] > 0}

\* Mutant: the total is computed from the time, not from the lines.
InvoiceTotalApart(sums) ==
    [totalHours |-> Hours(SumFunctionOnSet(sums, Groups(sums))),
     totalCost |-> LET exact == [r \in Rate |-> sums[r] * Price[r]]
                   IN  Round(DecimalPlaces * SumFunctionOnSet(exact, Groups(sums)), MsPerHour),
     hours |-> [r \in Rate |-> Hours(sums[r])],
     cost |-> [r \in Rate |-> Cost(r, sums[r])]]

\* The lines and the totals: hours add up unrounded, costs by the line.
Invoice(sums) ==
    LET cost == [r \in Rate |-> Cost(r, sums[r])] IN
    [totalHours |-> Hours(SumFunctionOnSet(sums, Groups(sums))),
     totalCost |-> SumFunctionOnSet(cost, Groups(sums)),
     hours |-> [r \in Rate |-> Hours(sums[r])],
     cost |-> cost]

\* at: where the call is; sums: what groupBy returned; the rest is history for
\* the properties: the time of all the entries in the sums, whether one of their
\* rates was removed afterwards, whether the user was a member meanwhile.
NoSums == [r \in Rate |-> 0]
NoCall == [at |-> "idle", period |-> [from |-> 0, to |-> 0], sums |-> NoSums,
           invoice |-> Invoice(NoSums), due |-> 0, lost |-> FALSE]
Phase == {"idle", "found", "allowed", "grouped", "answered", "missing", "forbidden", "broken"}

Bill == [totalHours : Nat, totalCost : Nat, hours : [Rate -> Nat], cost : [Rate -> Nat]]
Call == [at : Phase, period : [from : Instant, to : Instant], sums : [Rate -> Nat],
         invoice : Bill, due : Nat, lost : BOOLEAN]

TypeOK ==
    /\ project \in BOOLEAN
    /\ rate \subseteq Rate
    /\ time \in [Entry -> Row \cup {None}]
    /\ entered \subseteq Entry \cup Rate
    /\ member \subseteq User
    /\ call \in [User -> Call]

\* The project is there, and nobody has entered a rate or a time.
Init ==
    /\ project = TRUE
    /\ rate = {}
    /\ time = [k \in Entry |-> None]
    /\ entered = {}
    /\ member \in SUBSET User
    /\ call = [u \in User |-> NoCall]

(***************************************************************************)
(* Times, rates and memberships.  What they refuse they leave as it was.   *)
(* The end of a new entry is the server's clock, and update can move it    *)
(* before the start.  Foreign keys demand the project and the rate.        *)
(***************************************************************************)
CreateTime(k, row) ==
    /\ k \notin entered /\ project /\ row.rate \in rate
    /\ time' = [time EXCEPT ![k] = row]
    /\ entered' = entered \cup {k}
    /\ UNCHANGED <<project, rate, member, call>>

UpdateTime(k, end, elapsed) ==
    /\ k \in Rows
    /\ time' = [time EXCEPT ![k].end = end, ![k].elapsed = elapsed]
    /\ UNCHANGED <<project, rate, entered, member, call>>

RemoveTime(k) ==
    /\ k \in Rows
    /\ time' = [time EXCEPT ![k] = None]
    /\ UNCHANGED <<project, rate, entered, member, call>>

CreateRate(r) ==
    /\ r \notin entered
    /\ rate' = rate \cup {r}
    /\ entered' = entered \cup {r}
    /\ UNCHANGED <<project, time, member, call>>

\* Mutants: a deleted rate takes its entries along; it leaves its id in them;
\* the key leaves with the row.
DetachedCascade(r) == [k \in Entry |-> IF time[k] # None /\ time[k].rate = r
                                       THEN None ELSE time[k]]
DetachedNot(r) == time
DetachedKey(r) == [k \in {e \in Entry : time[e] # None => time[e].rate # r} |-> time[k]]

\* The entries without rate r: their time stays.
Detached(r) == [k \in Entry |-> IF time[k] # None /\ time[k].rate = r
                                THEN [time[k] EXCEPT !.rate = None] ELSE time[k]]

RemoveRate(r) ==
    /\ r \in rate
    /\ rate' = rate \ {r}
    /\ time' = Detached(r)
    /\ call' = [u \in User |-> [call[u] EXCEPT !.lost = @ \/ call[u].sums[r] > 0]]
    /\ UNCHANGED <<project, entered, member>>

AddUserToTeam(u) ==
    /\ member' = member \cup {u}
    /\ UNCHANGED <<project, rate, time, entered, call>>

RemoveUserFromTeam(u) ==
    /\ u \in member
    /\ member' = member \ {u}
    /\ UNCHANGED <<project, rate, time, entered, call>>

\* A webhook or a synchronisation deletes the project, and its times with it.
RemoveProject ==
    /\ project
    /\ project' = FALSE
    /\ time' = [k \in Entry |-> None]
    /\ UNCHANGED <<rate, entered, member, call>>

(***************************************************************************)
(* generateInvoiceForProject                                               *)
(***************************************************************************)
FindProject(u, p) ==
    /\ call[u].at = "idle"
    /\ call' = [call EXCEPT ![u].at = IF project THEN "found" ELSE "missing",
                            ![u].period = p]
    /\ UNCHANGED <<project, rate, time, entered, member>>

Allowed(u) == u \in Admin \/ u \in member

ValidateUserTeamAccess(u) ==
    /\ call[u].at = "found"
    /\ call' = [call EXCEPT ![u].at = IF Allowed(u) THEN "allowed" ELSE "forbidden"]
    /\ UNCHANGED <<project, rate, time, entered, member>>

\* No sums: the empty invoice, at once.
Aggregate(u) ==
    /\ call[u].at = "allowed"
    /\ LET K == Billed(call[u].period) IN
         call' = [call EXCEPT ![u].at = IF K = {} THEN "answered" ELSE "grouped",
                              ![u].sums = GroupBy(K), ![u].due = Sum(K)]
    /\ UNCHANGED <<project, rate, time, entered, member>>

\* Mutant: groups without a rate are left out rather than refused.
AnswerSkipsMissing(c) ==
    [c EXCEPT !.at = "answered",
              !.invoice = Invoice([r \in Rate |-> IF r \in rate THEN c.sums[r] ELSE 0])]

\* A group whose rate is gone is a data integrity issue.
Answer(c) ==
    IF Groups(c.sums) \subseteq rate
    THEN [c EXCEPT !.at = "answered", !.invoice = Invoice(c.sums)]
    ELSE [c EXCEPT !.at = "broken"]

ReadRates(u) ==
    /\ call[u].at = "grouped"
    /\ call' = [call EXCEPT ![u] = Answer(call[u])]
    /\ UNCHANGED <<project, rate, time, entered, member>>

Receive(u) ==
    /\ call[u].at \in {"answered", "missing", "forbidden", "broken"}
    /\ call' = [call EXCEPT ![u] = NoCall]
    /\ UNCHANGED <<project, rate, time, entered, member>>

Next ==
    \/ \E k \in Entry, row \in Row : CreateTime(k, row)
    \/ \E k \in Entry, end \in Instant, elapsed \in Elapsed : UpdateTime(k, end, elapsed)
    \/ \E k \in Entry : RemoveTime(k)
    \/ \E r \in Rate : CreateRate(r) \/ RemoveRate(r)
    \/ RemoveProject
    \/ \E u \in User :
          \/ AddUserToTeam(u) \/ RemoveUserFromTeam(u)
          \/ \E p \in Period : FindProject(u, p)
          \/ ValidateUserTeamAccess(u) \/ Aggregate(u) \/ ReadRates(u) \/ Receive(u)

Spec == Init /\ [][Next]_vars

(***************************************************************************)
(* Properties                                                              *)
(***************************************************************************)
Answered == {u \in User : call[u].at = "answered"}

\* An invoice charges for all the time its groupBy saw, whatever happens to
\* entries and rates before the rates are read: it is complete or it fails.
InvoiceComplete ==
    \A u \in Answered : call[u].invoice.totalHours = Hours(call[u].due)

\* "data integrity issue" is only ever said when a rate was removed between the
\* two queries: no entry keeps the id of a rate that is gone.
IntegrityErrorEarned ==
    \A u \in User : call[u].at = "broken" => call[u].lost

\* The lines of an invoice add up: to the cent for the cost, and for the hours,
\* which are rounded line by line, up to half a unit for each line and the total.
InvoiceAddsUp ==
    \A u \in Answered :
        LET inv == call[u].invoice
            lines == Groups(call[u].sums)
            off == SumFunctionOnSet(inv.hours, lines) - inv.totalHours
        IN  /\ inv.totalCost = SumFunctionOnSet(inv.cost, lines)
            /\ lines # {} => 2 * off \in -(Cardinality(lines) + 1)..(Cardinality(lines) + 1)

\* Removing a rate takes its entries off later invoices, and no time off reports.
RemovalKeepsTime == [][rate' # rate => TimeForProject' = TimeForProject]_vars

Ordered == {k \in Rows : time[k].start <= time[k].end}

\* The three clauses of the period filter pick an entry exactly when the entry
\* and the period have an instant in common.
BilledWhenOverlapping ==
    \A k \in Ordered, p \in Period :
        InPeriod(time[k], p) <=> \E t \in p.from..p.to : time[k].start <= t /\ t <= time[k].end

\* Reports over consecutive days count no entry twice: together they are at most
\* the report over all their days.
ReportedOnce ==
    Rows = Ordered =>
        \A first, mid, last \in Instant :
            first <= mid /\ mid + Day <= last =>
                TimeSpent(first, mid) + TimeSpent(mid + Day, last) <= TimeSpent(first, last)

\* What "handles overlapping time periods correctly" (invoice.service.ts:172)
\* must mean to whoever pays: two periods without a common instant never charge
\* for more than all the time there is.  The entry that reaches into both is
\* charged in full by each.
BilledOnce ==
    Rows = Ordered =>
        \A p, q \in Period : p.to < q.from => Sum(Billed(p)) + Sum(Billed(q)) <= TimeForProject
=============================================================================
