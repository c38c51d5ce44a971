--------------------------- MODULE IssueFeedProofs ---------------------------
(* What IssueFeed keeps, for any issues, projects, labels, handlers and        *)
(* webhooks.                                                                   *)
(*   1. Types, and which steps a webhook of which kind gets to (TypeInv).      *)
(*   2. However handlers overlap: removals are announced once (AnnouncedInv),  *)
(*      and no label is there more often than its writers (CopiesInv).         *)
(*   3. One handler, webhooks in order, nothing that fails: the caches forget  *)
(*      what is gone (OrderlyInv), and when all is quiet the database is as    *)
(*      Linear is.  For that, MirrorInv relates the two in between: it says    *)
(*      what the webhooks that wait, and the one that is handled, will still   *)
(*      change.  SingleRows adds that no label of an issue has two rows.       *)
EXTENDS IssueFeed, FiniteSetTheorems, TLAPS

\* A handler that has a webhook keeps it, one among the labels has labels to
\* write, and only a removal gets to the steps of a removal.
WebhookSteps == Step \ {"list", "listed"}
LabelSteps == {"labelsRead", "labelsDelete", "labelsWrite"}
RemovalSteps == {"removeFind", "removeDelete", "removed"}

Sound(h) ==
    /\ h \in Handler
    /\ h.at \in WebhookSteps => h.ev \in Event
    /\ h.at \in LabelSteps => h.ev.labels \in SUBSET Label
    /\ h.at \in RemovalSteps <=> h.at \in WebhookSteps /\ h.ev.action = "remove"

HandlersSound ==
    \A r \in Request : Sound(req[r]) /\ (~At(r, "idle") => r \in used.of.handlers)

\* A synchronisation that is under way has been counted.
SyncCounted == sync.at # "idle" => used.syncs > 0

TypeInv == TypeOK /\ HandlersSound /\ SyncCounted

---------------------------------------------------------------------------
LEMMA IdleSound == Sound(Idle) /\ Idle.at = "idle"
  BY IssueFeedAssumption DEF Sound, Idle, Handler, WebhookSteps, LabelSteps, RemovalSteps, Step

\* Going on to a step of the same kind.
LEMMA GotoSound ==
  ASSUME NEW h, Sound(h), h.at \in WebhookSteps, NEW step \in WebhookSteps,
         step \in LabelSteps => h.ev.labels \in SUBSET Label,
         step \in RemovalSteps <=> h.at \in RemovalSteps
  PROVE  Sound([h EXCEPT !.at = step])
  BY DEF Sound, Handler, WebhookSteps, LabelSteps, RemovalSteps, Step

LEMMA InsertSound ==
  ASSUME NEW h, Sound(h), h.at \in {"ensure", "unassigned"}, NEW p \in Project
  PROVE  Sound([h EXCEPT !.at = "insert", !.ev.project = p])
<1>1. h.ev \in Event /\ [h.ev EXCEPT !.project = p] \in Event
  BY DEF Sound, WebhookSteps, Step, Event
<1>2. [h EXCEPT !.at = "insert", !.ev.project = p]
        = [h EXCEPT !.at = "insert", !.ev = [h.ev EXCEPT !.project = p]]
  BY <1>1 DEF Sound, Handler
<1>3. [h.ev EXCEPT !.project = p].action = h.ev.action
  BY <1>1 DEF Event
<1> QED
  BY <1>1, <1>2, <1>3 DEF Sound, Handler, WebhookSteps, LabelSteps, RemovalSteps, Step

\* The steps of a handler, what each makes of its own record.
LEMMA OwnSteps ==
  ASSUME TypeInv, NEW r \in Request, Handle(r)
  PROVE  \E h : Sound(h) /\ req' = [req EXCEPT ![r] = h]
<1> DEFINE h == req[r]
           Became(k) == Sound(k) /\ req' = [req EXCEPT ![r] = k]
<1> USE DEF At, Goto, Done
<1>1. /\ Sound(h) /\ h \in Handler
      /\ h.at \in WebhookSteps => h.ev \in Event
      /\ req \in [Request -> Handler]
  BY DEF TypeInv, HandlersSound, Sound, TypeOK
<1>2. ASSUME Done(r) PROVE Became(Idle)
  BY <1>2, IdleSound
<1>3. ASSUME NEW step \in WebhookSteps, h.at \in WebhookSteps, Goto(r, step),
             step \in LabelSteps => h.ev.labels \in SUBSET Label,
             step \in RemovalSteps <=> h.at \in RemovalSteps
      PROVE  Became([h EXCEPT !.at = step])
  BY <1>1, <1>3, GotoSound
<1>4. ASSUME NEW p \in Project, h.at \in {"ensure", "unassigned"},
             req' = [req EXCEPT ![r].at = "insert", ![r].ev.project = p]
      PROVE  Became([h EXCEPT !.at = "insert", !.ev.project = p])
  BY <1>1, <1>4, InsertSound
<1>5. projects \subseteq Project /\ rows \subseteq LabelRow /\ Unassigned \in Project
  BY IssueFeedAssumption DEF TypeInv, TypeOK
<1> USE DEF WebhookSteps, LabelSteps, RemovalSteps, Step
<1>6. CASE Ensure(r)
  <2>1. CASE Goto(r, "insert")
    BY <1>3, <1>6, <2>1 DEF Ensure
  <2>2. CASE Goto(r, "unassigned")
    BY <1>3, <1>6, <2>2 DEF Ensure
  <2>3. CASE \E p \in projects : req' = [req EXCEPT ![r].at = "insert", ![r].ev.project = p]
    BY <1>4, <1>5, <1>6, <2>3 DEF Ensure
  <2> QED
    BY <1>6, <2>1, <2>2, <2>3 DEF Ensure
<1>7. CASE EnsureUnassigned(r)
  BY <1>2, <1>4, <1>5, <1>7 DEF EnsureUnassigned
<1>8. CASE Insert(r)
  <2>1. CASE Goto(r, "cacheNew")
    BY <1>3, <1>8, <2>1 DEF Insert
  <2> QED
    BY <1>2, <1>8, <2>1 DEF Insert
<1>9. CASE CacheNew(r)
  <2>1. h.at = "cacheNew" /\ h.ev \in Event /\ Goto(r, AfterInsert(h.ev))
    BY <1>1, <1>9 DEF CacheNew
  <2>2. AfterInsert(h.ev) \in {"fetch", "labelsRead"}
        /\ (AfterInsert(h.ev) = "labelsRead" => h.ev.labels \in SUBSET Label)
    BY <2>1 DEF AfterInsert, Event
  <2> QED
    BY <1>3, <2>1, <2>2
<1>10. CASE Exists(r)
  <2>1. CASE Goto(r, "ensure")
    BY <1>3, <1>10, <2>1 DEF Exists
  <2>2. CASE req' = [req EXCEPT ![r].at = "update", ![r].verb = "update"]
    <3>1. Sound([h EXCEPT !.at = "update", !.verb = "update"])
      BY <1>1, <1>10 DEF Exists, Sound, Handler
    <3> QED
      BY <1>1, <2>2, <3>1
  <2> QED
    BY <1>10, <2>1, <2>2 DEF Exists
<1>11. CASE Update(r)
  <2>1. h.at = "update" /\ h.ev \in Event
    BY <1>1, <1>11 DEF Update
  <2>2. AfterUpdate(h.ev) \in {"fetch", "labelsRead"}
        /\ (AfterUpdate(h.ev) = "labelsRead" => h.ev.labels \in SUBSET Label)
    BY <2>1 DEF AfterUpdate, Event
  <2> QED
    BY <1>2, <1>3, <1>11, <2>1, <2>2 DEF Update
<1>12. CASE LabelsRead(r)
  <2>1. \E step \in {"labelsWrite", "labelsDelete"} :
           req' = [req EXCEPT ![r].snap = RowsOf(h.ev.issue), ![r].at = step]
    BY <1>1, <1>12 DEF LabelsRead
  <2>2. PICK step \in {"labelsWrite", "labelsDelete"} :
           req' = [req EXCEPT ![r].snap = RowsOf(h.ev.issue), ![r].at = step]
    BY <2>1
  <2>3. RowsOf(h.ev.issue) \in SUBSET LabelRow
    BY <1>5 DEF RowsOf
  <2>4. Sound([h EXCEPT !.snap = RowsOf(h.ev.issue), !.at = step])
    BY <1>1, <1>12, <2>3 DEF LabelsRead, Sound, Handler
  <2> QED
    BY <1>1, <2>2, <2>4
<1>13. CASE LabelsDelete(r)
  BY <1>1, <1>3, <1>13 DEF LabelsDelete, Sound
<1>14. CASE LabelsWrite(r)
  <2>1. CASE Goto(r, "fetch")
    BY <1>1, <1>3, <1>14, <2>1 DEF LabelsWrite
  <2> QED
    BY <1>2, <1>14, <2>1 DEF LabelsWrite
<1>15. CASE Fetch(r)
  <2>1. CASE cache[h.ev.issue] # None
    BY <1>2, <1>15, <2>1 DEF Fetch
  <2>2. CASE cache[h.ev.issue] = None
    <3>1. PICK found \in Full \cup {None} :
             req' = [req EXCEPT ![r].at = "fetched", ![r].found = found]
      <4> DEFINE i == h.ev.issue
      <4>1. i \in Existing => [rev |-> issue[i].rev, labels |-> LabelsOf(i)] \in Full
        BY <1>5 DEF Existing, Full, LabelsOf, RowsOf, TypeInv, TypeOK, Row, LabelRow
      <4> QED
        BY <1>15, <2>2, <4>1 DEF Fetch
    <3>2. Sound([h EXCEPT !.at = "fetched", !.found = found])
      BY <1>1, <1>15 DEF Fetch, Sound, Handler
    <3> QED
      BY <1>1, <3>1, <3>2
  <2> QED
    BY <2>1, <2>2
<1>16. CASE Fetched(r)
  <2>1. CASE Goto(r, "fallback")
    BY <1>1, <1>3, <1>16, <2>1 DEF Fetched
  <2> QED
    BY <1>2, <1>16, <2>1 DEF Fetched
<1>17. CASE Fallback(r)
  BY <1>2, <1>17 DEF Fallback
<1>18. CASE RemoveFind(r)
  <2>1. CASE Goto(r, "removeDelete")
    BY <1>1, <1>3, <1>18, <2>1 DEF RemoveFind
  <2> QED
    BY <1>2, <1>18, <2>1 DEF RemoveFind
<1>19. CASE RemoveDelete(r)
  <2>1. CASE Goto(r, "removed")
    BY <1>1, <1>3, <1>19, <2>1 DEF RemoveDelete
  <2> QED
    BY <1>2, <1>19, <2>1 DEF RemoveDelete
<1>20. CASE RemoveAnswer(r)
  BY <1>2, <1>20 DEF RemoveAnswer
<1>21. CASE List(r)
  <2>1. Sound([h EXCEPT !.at = "list"])
    BY <1>1, <1>21 DEF List, Sound, Handler
  <2> QED
    BY <1>1, <1>21, <2>1 DEF List
<1>22. CASE ListRead(r)
  <2>1. Sound([h EXCEPT !.at = "listed", !.ids = Existing])
    BY <1>1, <1>22 DEF ListRead, Sound, Handler, Existing
  <2> QED
    BY <1>1, <1>22, <2>1 DEF ListRead
<1>23. CASE ListAnswer(r)
  BY <1>2, <1>23 DEF ListAnswer
<1> QED
  BY <1>6, <1>7, <1>8, <1>9, <1>10, <1>11, <1>12, <1>13, <1>14, <1>15, <1>16, <1>17,
     <1>18, <1>19, <1>20, <1>21, <1>22, <1>23 DEF Handle

---------------------------------------------------------------------------
\* What a handler writes into the database, the caches and the history is of
\* its type.
LEMMA UpdatedTyped ==
  ASSUME TypeInv, NEW ev \in Event, CanUpdate(ev)
  PROVE  Updated(ev) \in [Issue -> Row \cup {None}]
<1>1. issue[ev.issue] \in Row /\ ProjectId(ev) \in Project \cup {None} /\ ev.rev \in Nat
      /\ ev.issue \in Issue
  BY DEF TypeInv, TypeOK, CanUpdate, Event, ProjectId
<1>2. [rev |-> ev.rev, project |-> IF ProjectId(ev) = None THEN issue[ev.issue].project
                                    ELSE ProjectId(ev)] \in Row
  BY <1>1 DEF Row
<1> QED
  BY <1>1, <1>2 DEF Updated, TypeInv, TypeOK

HistoryTyped ==
    /\ handed \in Message \cup {None}
    /\ deletions \in [Issue -> Nat]
    /\ announced \in [Issue -> Nat]

LEMMA HandTyped ==
  ASSUME TypeInv, NEW message \in Message, Hand(message), deletions' = deletions
  PROVE  HistoryTyped'
  BY DEF HistoryTyped, Hand, Message, TypeInv, TypeOK

LEMMA MessagesTyped ==
  ASSUME NEW r \in Request, Sound(req[r]), req[r].at \in WebhookSteps \ RemovalSteps
  PROVE  /\ \A full \in Full : FromRow(r, full) \in Message
         /\ \A dates \in BOOLEAN : FromWebhook(r, dates) \in Message
  BY DEF Sound, Handler, Event, FromRow, FromWebhook, Message, Full

LEMMA OwnWrites ==
  ASSUME TypeInv, NEW r \in Request, Handle(r)
  PROVE  /\ (projects \subseteq Project)' /\ (issue \in [Issue -> Row \cup {None}])'
         /\ (rows \subseteq LabelRow)' /\ (cache \in [Issue -> Full \cup {None}])'
         /\ (page \in (SUBSET Issue) \cup {None})' /\ HistoryTyped'
         /\ UNCHANGED <<sync, environment, used, overran>>
<1> DEFINE h == req[r]
<1>1. /\ Sound(h) /\ h \in Handler
      /\ h.at \in WebhookSteps => h.ev \in Event
      /\ h.at \in LabelSteps => h.ev.labels \in SUBSET Label
  BY DEF TypeInv, HandlersSound, Sound
<1>2. /\ projects \subseteq Project /\ issue \in [Issue -> Row \cup {None}]
      /\ rows \subseteq LabelRow /\ cache \in [Issue -> Full \cup {None}]
      /\ page \in (SUBSET Issue) \cup {None} /\ HistoryTyped
      /\ Unassigned \in Project
  BY IssueFeedAssumption DEF TypeInv, TypeOK, HistoryTyped
<1> USE DEF At, WebhookSteps, RemovalSteps, LabelSteps, Step, database, cached, history, told
<1>3. CASE Ensure(r)
  BY <1>2, <1>3 DEF Ensure, HistoryTyped
<1>4. CASE EnsureUnassigned(r)
  BY <1>2, <1>4 DEF EnsureUnassigned, HistoryTyped
<1>5. CASE Insert(r)
  <2>1. h.ev.issue \in Issue /\ h.ev.rev \in Nat
    BY <1>1, <1>5 DEF Insert, Event
  <2>2. issue' \in [Issue -> Row \cup {None}]
    BY <1>2, <1>5, <2>1 DEF Insert, Row
  <2> QED
    BY <1>2, <1>5, <2>2 DEF Insert, HistoryTyped
<1>6. CASE CacheNew(r)
  <2>1. cache' \in [Issue -> Full \cup {None}]
    BY <1>1, <1>2, <1>6 DEF CacheNew, Full, Event
  <2> QED
    BY <1>2, <1>6, <2>1 DEF CacheNew, HistoryTyped
<1>7. CASE Exists(r)
  BY <1>2, <1>7 DEF Exists, HistoryTyped
<1>8. CASE Update(r)
  <2>1. issue' \in [Issue -> Row \cup {None}]
    BY <1>1, <1>2, <1>8, UpdatedTyped DEF Update
  <2> QED
    BY <1>2, <1>8, <2>1 DEF Update, HistoryTyped
<1>9. CASE LabelsRead(r)
  BY <1>2, <1>9 DEF LabelsRead, HistoryTyped
<1>10. CASE LabelsDelete(r)
  BY <1>2, <1>10 DEF LabelsDelete, HistoryTyped
<1>11. CASE LabelsWrite(r)
  <2>1. {[issue |-> h.ev.issue, label |-> l, by |-> h.id] : l \in ToCreate(r)} \subseteq LabelRow
    BY <1>1, <1>11 DEF LabelsWrite, ToCreate, LabelRow, Event, Handler
  <2> QED
    BY <1>2, <1>11, <2>1 DEF LabelsWrite, HistoryTyped
<1>12. CASE Fetch(r)
  <2>1. HistoryTyped'
    <3>1. CASE cache[h.ev.issue] # None
      <4>1. cache[h.ev.issue] \in Full
        BY <1>1, <1>2, <1>12, <3>1 DEF Fetch, Event
      <4>2. FromRow(r, cache[h.ev.issue]) \in Message
        BY <1>1, <1>12, <4>1, MessagesTyped DEF Fetch
      <4> QED
        BY <1>12, <3>1, <4>2, HandTyped DEF Fetch
    <3>2. CASE cache[h.ev.issue] = None
      BY <1>2, <1>12, <3>2 DEF Fetch, HistoryTyped
    <3> QED
      BY <3>1, <3>2
  <2> QED
    BY <1>2, <1>12, <2>1 DEF Fetch
<1>13. CASE Fetched(r)
  <2>1. h.found \in Full \cup {None} /\ h.ev.issue \in Issue
    BY <1>1, <1>13 DEF Fetched, Event, Handler
  <2>2. HistoryTyped'
    <3>1. CASE h.found # None
      <4>1. FromRow(r, h.found) \in Message
        BY <1>1, <1>13, <2>1, <3>1, MessagesTyped DEF Fetched
      <4> QED
        BY <1>13, <3>1, <4>1, HandTyped DEF Fetched
    <3>2. CASE h.found = None /\ h.verb = "update"
      BY <1>2, <1>13, <3>2 DEF Fetched, HistoryTyped
    <3>3. CASE h.found = None /\ h.verb # "update"
      <4>1. FromWebhook(r, h.ev.action = "create") \in Message
        BY <1>1, <1>13, MessagesTyped DEF Fetched
      <4> QED
        BY <1>13, <3>3, <4>1, HandTyped DEF Fetched
    <3> QED
      BY <3>1, <3>2, <3>3
  <2>3. cache' \in [Issue -> Full \cup {None}]
    BY <1>2, <1>13, <2>1 DEF Fetched
  <2> QED
    BY <1>2, <1>13, <2>2, <2>3 DEF Fetched
<1>14. CASE Fallback(r)
  <2>1. HistoryTyped'
    <3>1. FromWebhook(r, FALSE) \in Message
      BY <1>1, <1>14, MessagesTyped DEF Fallback
    <3>2. CASE Hand(FromWebhook(r, FALSE))
      BY <1>14, <3>1, <3>2, HandTyped DEF Fallback
    <3>3. CASE UNCHANGED <<handed, announced>>
      BY <1>2, <1>14, <3>3 DEF Fallback, HistoryTyped
    <3> QED
      BY <1>14, <3>2, <3>3 DEF Fallback
  <2>2. issue' \in [Issue -> Row \cup {None}]
    BY <1>1, <1>2, <1>14, UpdatedTyped DEF Fallback
  <2> QED
    BY <1>2, <1>14, <2>1, <2>2 DEF Fallback
<1>15. CASE RemoveFind(r)
  BY <1>2, <1>15 DEF RemoveFind, HistoryTyped
<1>16. CASE RemoveDelete(r)
  <2>1. h.ev.issue \in Issue
    BY <1>1, <1>16 DEF RemoveDelete, Event
  <2> QED
    BY <1>2, <1>16, <2>1 DEF RemoveDelete, HistoryTyped
<1>17. CASE RemoveAnswer(r)
  <2>1. h.ev.issue \in Issue
    BY <1>1, <1>17 DEF RemoveAnswer, Event
  <2>2. [action |-> "remove", issue |-> h.ev.issue, dates |-> FALSE, rev |-> 0,
         labels |-> {}] \in Message
    BY <2>1 DEF Message
  <2>3. HistoryTyped'
    BY <1>17, <2>2, HandTyped DEF RemoveAnswer
  <2> QED
    BY <1>2, <1>17, <2>1, <2>3 DEF RemoveAnswer
<1>18. CASE List(r)
  BY <1>2, <1>18 DEF List, HistoryTyped
<1>19. CASE ListRead(r)
  BY <1>2, <1>19 DEF ListRead, HistoryTyped
<1>20. CASE ListAnswer(r)
  <2>1. h.ids \in SUBSET Issue
    BY <1>1 DEF Handler
  <2> QED
    BY <1>2, <1>20, <2>1 DEF ListAnswer, HistoryTyped
<1> QED
  BY <1>3, <1>4, <1>5, <1>6, <1>7, <1>8, <1>9, <1>10, <1>11, <1>12, <1>13, <1>14, <1>15,
     <1>16, <1>17, <1>18, <1>19, <1>20 DEF Handle

---------------------------------------------------------------------------
Counts == [of : Regime, edits : Nat, retries : Nat, deliveries : Nat,
           failures : Nat, removals : Nat, syncs : Nat]

Within(u) ==
    /\ u \in Counts
    /\ u.edits <= u.of.edits /\ u.retries <= u.of.retries /\ u.failures <= u.of.failures
    /\ u.removals <= u.of.removals /\ u.syncs <= u.of.syncs

LEMMA WithinBounds ==
  ASSUME used \in Counts
  PROVE  (\A what \in Bounded : used[what] <= used.of[what]) <=> Within(used)
<1>1. ASSUME NEW of, of = used.of PROVE
        (\A what \in Bounded : used[what] <= of[what]) <=>
        /\ used.edits <= of.edits /\ used.retries <= of.retries
        /\ used.failures <= of.failures
        /\ used.removals <= of.removals /\ used.syncs <= of.syncs
  BY DEF Bounded
<1> QED
  BY <1>1 DEF Within

\* A bound is used up one by one, and the circumstances never change.
LEMMA UsedOneMore ==
  ASSUME Within(used)
  PROVE  /\ Left("edits") => Within([used EXCEPT !.edits = used.edits + 1])
         /\ Left("failures") => Within([used EXCEPT !.failures = @ + 1])
         /\ Left("removals") => Within([used EXCEPT !.removals = @ + 1])
         /\ Left("syncs") => Within([used EXCEPT !.syncs = @ + 1, !.deliveries = @ + 1])
         /\ \A again \in BOOLEAN : (again => Left("retries")) =>
              Within([used EXCEPT !.deliveries = @ + 1, !.retries = IF again THEN @ + 1 ELSE @])
<1>1. used \in Counts /\ used.of \in Circumstances
  BY IssueFeedAssumption DEF Within, Counts
<1>2. /\ used.of.edits \in Nat /\ used.of.retries \in Nat /\ used.of.failures \in Nat
      /\ used.of.removals \in Nat /\ used.of.syncs \in Nat
  BY <1>1 DEF Circumstances
<1>3. Left("edits") => Within([used EXCEPT !.edits = used.edits + 1])
  BY <1>1, <1>2 DEF Within, Left, Counts
<1>4. Left("failures") => Within([used EXCEPT !.failures = @ + 1])
  BY <1>1, <1>2 DEF Within, Left, Counts
<1>5. Left("removals") => Within([used EXCEPT !.removals = @ + 1])
  BY <1>1, <1>2 DEF Within, Left, Counts
<1>6. ASSUME Left("syncs")
      PROVE  Within([used EXCEPT !.syncs = @ + 1, !.deliveries = @ + 1])
  <2> DEFINE u == [used EXCEPT !.syncs = @ + 1, !.deliveries = @ + 1]
  <2>1. used.deliveries + 1 \in Nat /\ used.syncs + 1 \in Nat /\ used.syncs < used.of.syncs
    BY <1>1, <1>6 DEF Counts, Left
  <2>2. u = [[used EXCEPT !.syncs = used.syncs + 1] EXCEPT !.deliveries = used.deliveries + 1]
    BY <1>1 DEF Counts
  <2>3. [used EXCEPT !.syncs = used.syncs + 1] \in Counts
    BY <1>1, <2>1 DEF Counts
  <2>4. u \in Counts /\ u.of = used.of /\ u.syncs = used.syncs + 1 /\ u.edits = used.edits
        /\ u.retries = used.retries /\ u.failures = used.failures /\ u.removals = used.removals
    BY <1>1, <2>1, <2>2, <2>3 DEF Counts
  <2> HIDE DEF u
  <2>5. Within(u)
    BY <1>1, <1>2, <2>1, <2>4 DEF Within, Counts
  <2> QED
    BY <2>5 DEF u
<1>7. ASSUME NEW again \in BOOLEAN, again => Left("retries")
      PROVE  Within([used EXCEPT !.deliveries = @ + 1, !.retries = IF again THEN @ + 1 ELSE @])
  <2> DEFINE n == IF again THEN used.retries + 1 ELSE used.retries
             u == [used EXCEPT !.deliveries = @ + 1, !.retries = n]
  <2>1. used.deliveries + 1 \in Nat /\ n \in Nat /\ n <= used.of.retries
    BY <1>1, <1>2, <1>7 DEF Counts, Left, Within
  <2> HIDE DEF n
  <2>2. u = [[used EXCEPT !.deliveries = used.deliveries + 1] EXCEPT !.retries = n]
    BY <1>1 DEF Counts
  <2>3. [used EXCEPT !.deliveries = used.deliveries + 1] \in Counts
    BY <1>1, <2>1 DEF Counts
  <2>4. u \in Counts /\ u.of = used.of /\ u.retries = n /\ u.edits = used.edits
        /\ u.syncs = used.syncs /\ u.failures = used.failures /\ u.removals = used.removals
    BY <1>1, <2>1, <2>2, <2>3 DEF Counts
  <2> HIDE DEF u
  <2>5. Within(u)
    BY <1>1, <1>2, <2>1, <2>4 DEF Within, Counts
  <2> QED
    BY <2>5 DEF u, n
<1> QED
  BY <1>3, <1>4, <1>5, <1>6, <1>7

---------------------------------------------------------------------------
\* HandlersSound looks at nothing but the handlers and the circumstances.
LEMMA OneHandler ==
  ASSUME TypeInv, NEW r \in Request, NEW h, Sound(h), req' = [req EXCEPT ![r] = h],
         used'.of = used.of, h.at # "idle" => r \in used.of.handlers
  PROVE  (req \in [Request -> Handler])' /\ HandlersSound'
  BY DEF TypeInv, TypeOK, HandlersSound, Sound, At

LEMMA TypeHandle == ASSUME TypeInv, NEW r \in Request, Handle(r) PROVE TypeInv'
<1>1. PICK h : Sound(h) /\ req' = [req EXCEPT ![r] = h]
  BY OwnSteps
<1>2. r \in used.of.handlers
  BY DEF TypeInv, HandlersSound, Handle, At, Ensure, EnsureUnassigned, Insert, CacheNew, Exists,
     Update, LabelsRead, LabelsDelete, LabelsWrite, Fetch, Fetched, Fallback, RemoveFind,
     RemoveDelete, RemoveAnswer, List, ListRead, ListAnswer
<1>3. UNCHANGED <<sync, linear, net, used, overran>>
  BY OwnWrites DEF environment
<1>4. (req \in [Request -> Handler])' /\ HandlersSound'
  BY <1>1, <1>2, <1>3, OneHandler
<1> QED
  BY <1>3, <1>4, OwnWrites DEF TypeInv, TypeOK, SyncCounted, HistoryTyped

LEMMA TypeFail == ASSUME TypeInv, NEW r \in Request, Fail(r) PROVE TypeInv'
<1>1. used \in Counts /\ Within(used)
  BY WithinBounds DEF TypeInv, TypeOK, Counts
<1>2. Within(used') /\ used'.of = used.of /\ used'.syncs = used.syncs
  BY <1>1, UsedOneMore DEF Fail, Counts
<1>3. used' \in Counts /\ \A what \in Bounded : used'[what] <= used'.of[what]
  BY <1>2 DEF Within, Bounded
<1>4. (req \in [Request -> Handler])' /\ HandlersSound'
  BY <1>2, IdleSound, OneHandler DEF Fail, Done
<1> QED
  BY <1>2, <1>3, <1>4 DEF TypeInv, TypeOK, SyncCounted, Fail, Counts, database, cached,
     environment, history, told

LEMMA TypeExpire == ASSUME TypeInv, Expire PROVE TypeInv'
<1>1. cache' \in [Issue -> Full \cup {None}] /\ page' \in (SUBSET Issue) \cup {None}
  BY DEF Expire, TypeInv, TypeOK
<1> QED
  BY <1>1 DEF Expire, TypeInv, TypeOK, HandlersSound, SyncCounted, At, database, environment,
     history, told

LEMMA TypeRemoveProject == ASSUME TypeInv, NEW p \in Project, RemoveProject(p) PROVE TypeInv'
<1>1. used \in Counts /\ Within(used)
  BY WithinBounds DEF TypeInv, TypeOK, Counts
<1>2. Within(used') /\ used'.of = used.of /\ used'.syncs = used.syncs
  BY <1>1, UsedOneMore DEF RemoveProject, Counts
<1>3. used' \in Counts /\ \A what \in Bounded : used'[what] <= used'.of[what]
  BY <1>2 DEF Within, Bounded
<1>4. projects' \subseteq Project /\ issue' \in [Issue -> Row \cup {None}] /\ rows' \subseteq LabelRow
  BY DEF RemoveProject, TypeInv, TypeOK
<1> QED
  BY <1>2, <1>3, <1>4 DEF TypeInv, TypeOK, HandlersSound, At, SyncCounted, RemoveProject, Counts,
     cached, environment, history, told

LEMMA TypeEdit ==
  ASSUME TypeInv, NEW i \in Issue, NEW action \in {"create", "update", "remove"},
         NEW labels \in (SUBSET Label) \cup {None}, NEW p \in Project \cup {None},
         NEW t \in Team, Edit(i, action, labels, p, t)
  PROVE  TypeInv'
<1>1. used \in Counts /\ Within(used)
  BY WithinBounds DEF TypeInv, TypeOK, Counts
<1>2. used' = [used EXCEPT !.edits = used.edits + 1] /\ used.edits + 1 \in Nat
  BY <1>1 DEF Edit, Counts
<1>3. Within(used') /\ used'.of = used.of /\ used'.syncs = used.syncs
  BY <1>1, <1>2, UsedOneMore DEF Edit, Counts
<1>4. used' \in Counts /\ \A what \in Bounded : used'[what] <= used'.of[what]
  BY <1>3 DEF Within, Bounded
<1>5. net' \in Seq(Event)
  <2>1. [action |-> action, issue |-> i, rev |-> used.edits + 1, labels |-> labels,
         project |-> p, team |-> t] \in Event
    BY <1>2 DEF Event
  <2> QED
    BY <2>1 DEF Edit, TypeInv, TypeOK
<1>6. linear' \in [Issue -> LinearIssue \cup {None}]
  <2> DEFINE old == IF linear[i] = None THEN {} ELSE linear[i].labels
  <2>1. old \in SUBSET Label /\ linear \in [Issue -> LinearIssue \cup {None}]
    BY DEF TypeInv, TypeOK, LinearIssue
  <2>2. [rev |-> used.edits + 1, labels |-> IF labels = None THEN old ELSE labels,
         project |-> p, team |-> t] \in LinearIssue
    BY <1>2, <2>1 DEF LinearIssue
  <2> QED
    BY <2>1, <2>2 DEF Edit
<1> QED
  BY <1>3, <1>4, <1>5, <1>6 DEF TypeInv, TypeOK, HandlersSound, At, SyncCounted, Edit, Counts,
     database, cached, history, told

\* What is left of the net when a webhook arrives.
LEMMA NetRest ==
  ASSUME net \in Seq(Event), NEW n \in DOMAIN net
  PROVE  RemoveAt(net, n) \in Seq(Event)
<1>1. n \in 1..Len(net) /\ Len(net) \in Nat /\ n \in Nat
  OBVIOUS
<1>2. SubSeq(net, 1, n - 1) \in Seq(Event) /\ SubSeq(net, n + 1, Len(net)) \in Seq(Event)
  BY <1>1
<1> QED
  BY <1>2 DEF RemoveAt

\* The first step of each webhook.
Entry(ev) == CASE ev.action = "create" -> "ensure"
               [] ev.action = "update" -> "exists"
               [] ev.action = "remove" -> "removeFind"

LEMMA Entries ==
  ASSUME NEW ev \in Event
  PROVE  /\ ev.action = "create" => Entry(ev) = "ensure"
         /\ ev.action = "update" => Entry(ev) = "exists"
         /\ ev.action = "remove" => Entry(ev) = "removeFind"
         /\ ev.action \in {"create", "update", "remove"}
  BY DEF Entry, Event

LEMMA Arrival ==
  ASSUME TypeInv, NEW r \in Request, NEW n \in DOMAIN net, NEW again \in BOOLEAN,
         Deliver(r, n, again)
  PROVE  \E h : /\ Sound(h) /\ req' = [req EXCEPT ![r] = h]
                /\ h.ev = net[n] /\ h.at = Entry(net[n])
<1> DEFINE ev == net[n]
           step == Entry(ev)
           h == [Idle EXCEPT !.at = step, !.ev = ev, !.id = used.deliveries + 1]
<1>1. used \in Counts
  BY DEF TypeInv, TypeOK, Counts
<1>2. net \in Seq(Event)
  BY DEF TypeInv, TypeOK
<1>4. ev \in Event
  BY <1>2
<1>5. req' = [req EXCEPT ![r] = h]
  BY DEF Deliver, Entry
<1> HIDE DEF step
<1>6. /\ ev.action = "create" => step = "ensure"
      /\ ev.action = "update" => step = "exists"
      /\ ev.action = "remove" => step = "removeFind"
      /\ ev.action \in {"create", "update", "remove"}
  BY <1>4, Entries DEF step
<1>7. Sound(h) /\ h.ev = ev /\ h.at = step
  <2> DEFINE h1 == [Idle EXCEPT !.at = step]
             h2 == [h1 EXCEPT !.ev = ev]
             h3 == [h2 EXCEPT !.id = used.deliveries + 1]
  <2>1. used.deliveries + 1 \in Nat /\ step \in {"ensure", "exists", "removeFind"}
    BY <1>1, <1>6 DEF Counts
  <2>2. h = h3
    BY DEF Idle
  <2>3. Idle \in Handler
    BY IdleSound DEF Sound
  <2>4. h1 \in Handler /\ h1.at = step
    BY <2>1, <2>3 DEF Handler, Step
  <2> HIDE DEF h1, ev
  <2>5. h2 \in Handler /\ h2.at = step /\ h2.ev = ev
    BY <1>4, <2>1, <2>4 DEF Handler
  <2> HIDE DEF h2
  <2>6. h3 \in Handler /\ h3.at = step /\ h3.ev = ev
    BY <1>4, <2>1, <2>5 DEF Handler
  <2> HIDE DEF h3, h
  <2> QED
    BY <1>4, <1>6, <2>1, <2>2, <2>6 DEF Sound, WebhookSteps, LabelSteps, RemovalSteps, Step
<1> HIDE DEF h
<1> QED
  BY <1>5, <1>7 DEF step

LEMMA TypeDeliver ==
  ASSUME TypeInv, NEW r \in Request, NEW n \in DOMAIN net, NEW again \in BOOLEAN,
         Deliver(r, n, again)
  PROVE  TypeInv'
<1>1. used \in Counts /\ Within(used)
  BY WithinBounds DEF TypeInv, TypeOK, Counts
<1>2. Within(used') /\ used'.of = used.of /\ used'.syncs = used.syncs
  BY <1>1, UsedOneMore DEF Deliver, Counts
<1>3. used' \in Counts /\ \A what \in Bounded : used'[what] <= used'.of[what]
  BY <1>2 DEF Within, Bounded
<1>4. net' \in Seq(Event)
  BY NetRest DEF Deliver, TypeInv, TypeOK
<1>5. PICK h : Sound(h) /\ req' = [req EXCEPT ![r] = h]
  BY Arrival
<1>6. (req \in [Request -> Handler])' /\ HandlersSound'
  BY <1>2, <1>5, OneHandler DEF Deliver
<1> QED
  BY <1>2, <1>3, <1>4, <1>6 DEF TypeInv, TypeOK, SyncCounted, Deliver, Counts,
     database, cached, history, told

LEMMA TypeSynchronise == ASSUME TypeInv, Synchronise PROVE TypeInv'
<1>1. used \in Counts /\ Within(used)
  BY WithinBounds DEF TypeInv, TypeOK, Counts
<1> DEFINE Syncs == [at : {"idle", "begun", "fetched"}, id : Nat, rows : SUBSET Issue,
                     projects : SUBSET Project, linear : [Issue -> LinearIssue \cup {None}]]
<1>2. NoSync \in Syncs /\ NoSync.at = "idle" /\ sync \in Syncs
  BY DEF NoSync, TypeInv, TypeOK
<1>3. CASE SyncBegin
  <2>1. Within(used') /\ used'.of = used.of /\ used'.syncs = used.syncs + 1
    BY <1>1, <1>3, UsedOneMore DEF SyncBegin, Counts
  <2>2. used' \in Counts /\ \A what \in Bounded : used'[what] <= used'.of[what]
    BY <2>1 DEF Within, Bounded
  <2>3. sync' \in Syncs /\ used.syncs + 1 > 0
    <3>1. used.deliveries + 1 \in Nat /\ used.syncs \in Nat
      BY <1>1 DEF Counts
    <3>2. Existing \in SUBSET Issue /\ projects \in SUBSET Project
      BY DEF Existing, TypeInv, TypeOK
    <3>3. sync' = [at |-> "begun", id |-> used.deliveries + 1, rows |-> Existing,
                   projects |-> projects, linear |-> sync.linear]
      BY <1>2, <1>3 DEF SyncBegin
    <3>4. sync.linear \in [Issue -> LinearIssue \cup {None}]
      BY <1>2
    <3> QED
      BY <3>1, <3>2, <3>3, <3>4
  <2> QED
    BY <1>3, <2>1, <2>2, <2>3 DEF TypeInv, TypeOK, HandlersSound, At, SyncCounted, SyncBegin,
       Counts, database, cached, environment, history, told
<1>4. CASE SyncFetch
  <2>1. sync' \in Syncs /\ linear \in [Issue -> LinearIssue \cup {None}]
    BY <1>2, <1>4 DEF SyncFetch, TypeInv, TypeOK
  <2> QED
    BY <1>4, <2>1 DEF TypeInv, TypeOK, HandlersSound, At, SyncCounted, SyncFetch,
       database, cached, environment, history, told
<1>5. CASE SyncCommit
  <2>1. ASSUME NEW i \in Wanted
        PROVE  /\ i \in Issue /\ sync.linear[i].labels \in SUBSET Label
               /\ [rev |-> sync.linear[i].rev, project |-> sync.linear[i].project] \in Row
    BY <1>2, <2>1 DEF Wanted, LinearIssue, Row
  <2>2. ASSUME SyncWrites
        PROVE  issue' \in [Issue -> Row \cup {None}] /\ rows' \subseteq LabelRow
    <3>1. issue' \in [Issue -> Row \cup {None}]
      BY <2>1, <2>2 DEF SyncWrites, TypeInv, TypeOK
    <3>2. rows' \subseteq LabelRow
      <4>1. ASSUME NEW i \in Relabelled
            PROVE  {[issue |-> i, label |-> l, by |-> sync.id] : l \in sync.linear[i].labels}
                       \subseteq LabelRow
        <5>1. i \in Issue /\ sync.linear[i].labels \in SUBSET Label /\ sync.id \in Nat
          BY <1>2, <2>1, <4>1 DEF Relabelled
        <5> QED
          BY <5>1 DEF LabelRow
      <4>2. {x \in rows : x.issue \notin Relabelled} \subseteq LabelRow
        BY DEF TypeInv, TypeOK
      <4> QED
        BY <2>2, <4>1, <4>2 DEF SyncWrites
    <3> QED
      BY <3>1, <3>2
  <2>3. issue' \in [Issue -> Row \cup {None}] /\ rows' \subseteq LabelRow
        /\ overran' \subseteq {"edit", "labels"}
    BY <1>5, <2>2 DEF SyncCommit, TypeInv, TypeOK, SyncWrites
  <2> QED
    BY <1>2, <1>5, <2>3 DEF TypeInv, TypeOK, HandlersSound, At, SyncCounted, SyncCommit,
       cached, environment, told
<1>6. CASE SyncFail
  <2>1. Within(used') /\ used'.of = used.of /\ used'.syncs = used.syncs
    BY <1>1, <1>6, UsedOneMore DEF SyncFail, Counts
  <2>2. used' \in Counts /\ \A what \in Bounded : used'[what] <= used'.of[what]
    BY <2>1 DEF Within, Bounded
  <2> QED
    BY <1>2, <1>6, <2>1, <2>2 DEF TypeInv, TypeOK, HandlersSound, At, SyncCounted, SyncFail,
       Counts, database, cached, environment, history, told
<1> QED
  BY <1>3, <1>4, <1>5, <1>6 DEF Synchronise

LEMMA TypeInit == ASSUME Init PROVE TypeInv
<1>1. used.of \in Regime /\ used.of \in Circumstances
  BY IssueFeedAssumption DEF Init
<1>2. used \in Counts /\ Within(used)
  BY <1>1 DEF Init, Within, Counts, Circumstances
<1>3. \A what \in Bounded : used[what] <= used.of[what]
  BY <1>2, WithinBounds
<1>4. sync.at = "idle"
  BY DEF Init, NoSync
<1>5. HandlersSound /\ req \in [Request -> Handler]
  <2>1. \A r \in Request : req[r] = Idle
    BY DEF Init
  <2> QED
    BY <2>1, IdleSound DEF Init, HandlersSound, At, Sound
<1> QED
  BY <1>1, <1>2, <1>3, <1>4, <1>5 DEF Init, TypeInv, TypeOK, SyncCounted, Counts, NoSync, Circumstances

\* The steps, by who takes them.
LEMMA Steps ==
  ASSUME Next
  PROVE  \/ \E i \in Issue, action \in {"create", "update", "remove"},
               labels \in (SUBSET Label) \cup {None}, p \in Project \cup {None}, t \in Team :
               Edit(i, action, labels, p, t)
         \/ \E r \in Request, n \in DOMAIN net, again \in BOOLEAN : Deliver(r, n, again)
         \/ \E r \in Request : Handle(r)
         \/ \E r \in Request : Fail(r)
         \/ \E p \in Project : RemoveProject(p)
         \/ Synchronise
         \/ Expire
  BY DEF Next

LEMMA TypeStutters == ASSUME TypeInv, UNCHANGED vars PROVE TypeInv'
  BY DEF TypeInv, TypeOK, HandlersSound, At, SyncCounted, vars, database, cached, environment,
     history, told

\* Every variable has its type; no handler is without the webhook it handles, and
\* none that is among the labels is without labels to write.
THEOREM FeedTyped == Spec => []TypeInv
<1>1. TypeInv /\ [Next]_vars => TypeInv'
  BY Steps, TypeEdit, TypeDeliver, TypeHandle, TypeFail, TypeRemoveProject, TypeSynchronise,
     TypeExpire, TypeStutters
<1> QED
  BY <1>1, TypeInit, PTL DEF Spec

\* Every variable of the feed stays in its type (issue.service.ts and the
\* webhook handlers write rows, caches and messages of the declared shapes).
THEOREM FeedTypes == Spec => []TypeOK
<1>1. TypeInv => TypeOK
  BY DEF TypeInv
<1> QED
  BY <1>1, FeedTyped, PTL

---------------------------------------------------------------------------
\* The handlers that have deleted issue i and not told anybody yet.
Telling(i) == {r \in Request : At(r, "removed") /\ req[r].ev.issue = i}

AnnouncedInv == TypeInv /\ RemovalAnnouncedOnce

LEMMA TellingFinite ==
  ASSUME NEW i
  PROVE  /\ IsFiniteSet(Telling(i)) /\ Cardinality(Telling(i)) \in Nat
         /\ IsFiniteSet(Telling(i)') /\ Cardinality(Telling(i)') \in Nat
<1>1. Telling(i) \in SUBSET Request /\ Telling(i)' \in SUBSET Request /\ IsFiniteSet(Request)
  BY IssueFeedAssumption DEF Telling
<1> QED
  BY <1>1, FS_Subset, FS_CardinalityType

\* A step that neither deletes nor announces keeps the count.
LEMMA SilentStep ==
  ASSUME AnnouncedInv, UNCHANGED <<announced, deletions>>,
         \A i \in Issue : Telling(i)' \subseteq Telling(i)
  PROVE  RemovalAnnouncedOnce'
<1> SUFFICES ASSUME NEW i \in Issue
             PROVE  announced[i] + Cardinality(Telling(i)') <= deletions[i]
  BY DEF RemovalAnnouncedOnce, Telling
<1>1. announced[i] + Cardinality(Telling(i)) <= deletions[i]
  BY DEF AnnouncedInv, RemovalAnnouncedOnce, Telling
<1>2. announced[i] \in Nat /\ deletions[i] \in Nat
  BY DEF AnnouncedInv, TypeInv, TypeOK
<1>3. Cardinality(Telling(i)') <= Cardinality(Telling(i))
  <2>1. Telling(i)' \in SUBSET Telling(i)
    OBVIOUS
  <2> QED
    BY <2>1, TellingFinite, FS_Subset
<1> QED
  BY <1>1, <1>2, <1>3, TellingFinite

\* A message about a row, or one built from the webhook, announces no removal.
LEMMA NoRemoval ==
  ASSUME TypeInv, NEW r \in Request, req[r].verb \in {"create", "update"}
  PROVE  /\ \A full : FromRow(r, full).action # "remove"
         /\ \A dates : FromWebhook(r, dates).action # "remove"
  BY DEF FromRow, FromWebhook

LEMMA OtherSteps ==
  ASSUME TypeInv, NEW r \in Request, Handle(r), ~RemoveDelete(r), ~RemoveAnswer(r)
  PROVE  UNCHANGED <<announced, deletions>> /\ \A i \in Issue : Telling(i)' \subseteq Telling(i)
<1>1. req \in [Request -> Handler] /\ req[r].verb \in {"create", "update"}
  BY DEF TypeInv, TypeOK, Handler
<1>2. \A full : FromRow(r, full).action # "remove"
  BY <1>1, NoRemoval
<1>3. \A dates : FromWebhook(r, dates).action # "remove"
  BY <1>1, NoRemoval
<1>4. ASSUME \A s \in Request \ {r} : req'[s] = req[s], req'[r].at # "removed"
      PROVE  \A i \in Issue : Telling(i)' \subseteq Telling(i)
  BY <1>4 DEF Telling, At
<1> USE DEF At, Goto, Done, history, told
<1>5. ASSUME NEW step, step # "removed", Goto(r, step)
      PROVE  (\A s \in Request \ {r} : req'[s] = req[s]) /\ req'[r].at # "removed"
  BY <1>1, <1>5 DEF Handler
<1>6. ASSUME Done(r)
      PROVE  (\A s \in Request \ {r} : req'[s] = req[s]) /\ req'[r].at # "removed"
  BY <1>1, <1>6, IdleSound DEF Handler
<1>7. CASE Ensure(r)
  BY <1>1, <1>4, <1>7 DEF Ensure, Handler
<1>8. CASE EnsureUnassigned(r)
  BY <1>1, <1>4, <1>6, <1>8 DEF EnsureUnassigned, Handler
<1>9. CASE Insert(r)
  BY <1>4, <1>5, <1>6, <1>9 DEF Insert
<1>10. CASE CacheNew(r)
  <2>1. AfterInsert(req[r].ev) # "removed"
    BY DEF AfterInsert
  <2> QED
    BY <1>4, <1>5, <1>10, <2>1 DEF CacheNew
<1>11. CASE Exists(r)
  BY <1>1, <1>4, <1>11 DEF Exists, Handler
<1>12. CASE Update(r)
  <2>1. AfterUpdate(req[r].ev) # "removed"
    BY DEF AfterUpdate
  <2> QED
    BY <1>4, <1>5, <1>6, <1>12, <2>1 DEF Update
<1>13. CASE LabelsRead(r)
  BY <1>1, <1>4, <1>13 DEF LabelsRead, Handler
<1>14. CASE LabelsDelete(r)
  BY <1>4, <1>5, <1>14 DEF LabelsDelete
<1>15. CASE LabelsWrite(r)
  BY <1>4, <1>5, <1>6, <1>15 DEF LabelsWrite
<1>16. CASE Fetch(r)
  <2>1. CASE cache[req[r].ev.issue] # None
    BY <1>2, <1>4, <1>6, <1>16, <2>1 DEF Fetch, Hand
  <2>2. CASE cache[req[r].ev.issue] = None
    BY <1>1, <1>4, <1>16, <2>2 DEF Fetch, Handler
  <2> QED
    BY <2>1, <2>2
<1>17. CASE Fetched(r)
  BY <1>2, <1>3, <1>4, <1>5, <1>6, <1>17 DEF Fetched, Hand
<1>18. CASE Fallback(r)
  BY <1>3, <1>4, <1>6, <1>18 DEF Fallback, Hand
<1>19. CASE RemoveFind(r)
  BY <1>4, <1>5, <1>6, <1>19 DEF RemoveFind
<1>20. CASE List(r)
  BY <1>4, <1>5, <1>20 DEF List
<1>21. CASE ListRead(r)
  BY <1>1, <1>4, <1>21 DEF ListRead, Handler
<1>22. CASE ListAnswer(r)
  BY <1>4, <1>6, <1>22 DEF ListAnswer
<1> QED
  BY <1>7, <1>8, <1>9, <1>10, <1>11, <1>12, <1>13, <1>14, <1>15, <1>16, <1>17, <1>18, <1>19,
     <1>20, <1>21, <1>22 DEF Handle

\* The delete adds a handler that has something to tell, and counts it.
LEMMA DeleteCounts ==
  ASSUME AnnouncedInv, NEW r \in Request, RemoveDelete(r)
  PROVE  RemovalAnnouncedOnce'
<1> SUFFICES ASSUME NEW i \in Issue
             PROVE  announced'[i] + Cardinality(Telling(i)') <= deletions'[i]
  BY DEF RemovalAnnouncedOnce, Telling
<1> DEFINE ev == req[r].ev
<1>1. /\ req \in [Request -> Handler] /\ ev.issue \in Issue /\ announced' = announced
      /\ announced[i] \in Nat /\ deletions[i] \in Nat /\ deletions \in [Issue -> Nat]
      /\ announced[i] + Cardinality(Telling(i)) <= deletions[i]
  BY DEF AnnouncedInv, TypeInv, TypeOK, HandlersSound, Sound, RemoveDelete, At, WebhookSteps,
     Step, Event, RemovalAnnouncedOnce, Telling
<1>2. CASE ev.issue \in Existing
  <2>1. /\ \A s \in Request \ {r} : req'[s] = req[s]
        /\ req'[r].at = "removed" /\ req'[r].ev = ev /\ req[r].at = "removeDelete"
        /\ deletions' = [deletions EXCEPT ![ev.issue] = @ + 1]
    BY <1>1, <1>2 DEF RemoveDelete, Goto, At, Handler
  <2>2. CASE i = ev.issue
    <3>1. Telling(i)' = Telling(i) \cup {r} /\ r \notin Telling(i)
      BY <2>1, <2>2 DEF Telling, At
    <3>2. Cardinality(Telling(i)') = Cardinality(Telling(i)) + 1
      BY <3>1, TellingFinite, FS_AddElement
    <3> QED
      BY <1>1, <2>1, <2>2, <3>2, TellingFinite
  <2>3. CASE i # ev.issue
    <3>1. Telling(i)' = Telling(i)
      BY <2>1, <2>3 DEF Telling, At
    <3> QED
      BY <1>1, <2>1, <2>3, <3>1, TellingFinite
  <2> QED
    BY <2>2, <2>3
<1>3. CASE ev.issue \notin Existing
  <2>1. /\ \A s \in Request \ {r} : req'[s] = req[s]
        /\ req'[r].at = "idle" /\ deletions' = deletions
    BY <1>1, <1>3, IdleSound DEF RemoveDelete, Done
  <2>2. Telling(i)' = Telling(i)
    BY <2>1 DEF Telling, At, RemoveDelete
  <2> QED
    BY <1>1, <2>1, <2>2
<1> QED
  BY <1>2, <1>3

\* The answer announces what its own handler has deleted.
LEMMA AnswerCounts ==
  ASSUME AnnouncedInv, NEW r \in Request, RemoveAnswer(r)
  PROVE  RemovalAnnouncedOnce'
<1> SUFFICES ASSUME NEW i \in Issue
             PROVE  announced'[i] + Cardinality(Telling(i)') <= deletions'[i]
  BY DEF RemovalAnnouncedOnce, Telling
<1> DEFINE ev == req[r].ev
<1>1. /\ req \in [Request -> Handler] /\ ev.issue \in Issue /\ deletions' = deletions
      /\ announced[i] \in Nat /\ deletions[i] \in Nat /\ announced \in [Issue -> Nat]
      /\ announced[i] + Cardinality(Telling(i)) <= deletions[i]
  BY DEF AnnouncedInv, TypeInv, TypeOK, HandlersSound, Sound, RemoveAnswer, At, WebhookSteps,
     Step, Event, RemovalAnnouncedOnce, Telling
<1>2. /\ \A s \in Request \ {r} : req'[s] = req[s]
      /\ req'[r].at = "idle" /\ req[r].at = "removed"
      /\ announced' = [announced EXCEPT ![ev.issue] = @ + 1]
  BY <1>1, IdleSound DEF RemoveAnswer, Done, At, Hand, Passes
<1>3. CASE i = ev.issue
  <2>1. Telling(i)' = Telling(i) \ {r} /\ r \in Telling(i)
    BY <1>2, <1>3 DEF Telling, At
  <2>2. Cardinality(Telling(i)') = Cardinality(Telling(i)) - 1
    BY <2>1, TellingFinite, FS_RemoveElement
  <2> QED
    BY <1>1, <1>2, <1>3, <2>2, TellingFinite
<1>4. CASE i # ev.issue
  <2>1. Telling(i)' = Telling(i)
    BY <1>2, <1>4 DEF Telling, At
  <2> QED
    BY <1>1, <1>2, <1>4, <2>1
<1> QED
  BY <1>3, <1>4

LEMMA AnnouncedNext == ASSUME AnnouncedInv, [Next]_vars PROVE AnnouncedInv'
<1> USE DEF history, told
<1>1. TypeInv'
  BY Steps, TypeEdit, TypeDeliver, TypeHandle, TypeFail, TypeRemoveProject, TypeSynchronise,
     TypeExpire, TypeStutters DEF AnnouncedInv
<1> SUFFICES RemovalAnnouncedOnce'
  BY <1>1 DEF AnnouncedInv
<1>2. req \in [Request -> Handler]
  BY DEF AnnouncedInv, TypeInv, TypeOK
<1>3. ASSUME UNCHANGED <<announced, deletions, req>> PROVE RemovalAnnouncedOnce'
  BY <1>3, SilentStep DEF Telling, At
<1>4. CASE \E i \in Issue, action \in {"create", "update", "remove"},
              labels \in (SUBSET Label) \cup {None}, p \in Project \cup {None}, t \in Team :
              Edit(i, action, labels, p, t)
  BY <1>3, <1>4 DEF Edit
<1>5. ASSUME NEW r \in Request, NEW n \in DOMAIN net, NEW again \in BOOLEAN, Deliver(r, n, again)
      PROVE  RemovalAnnouncedOnce'
  <2>1. net[n] \in Event /\ net[n].action \in {"create", "update", "remove"}
    <3>1. net \in Seq(Event)
      BY DEF AnnouncedInv, TypeInv, TypeOK
    <3>2. net[n] \in Event
      BY <3>1
    <3> QED
      BY <3>2 DEF Event
  <2>2. req'[r].at # "removed" /\ \A s \in Request \ {r} : req'[s] = req[s]
    BY <1>2, <1>5, <2>1 DEF Deliver, Idle
  <2>3. \A i \in Issue : Telling(i)' \subseteq Telling(i)
    BY <2>2 DEF Telling, At
  <2> QED
    BY <1>5, <2>3, SilentStep DEF Deliver
<1>6. ASSUME NEW r \in Request, Handle(r) PROVE RemovalAnnouncedOnce'
  BY <1>6, OtherSteps, SilentStep, DeleteCounts, AnswerCounts DEF AnnouncedInv
<1>7. ASSUME NEW r \in Request, Fail(r) PROVE RemovalAnnouncedOnce'
  <2>1. \A i \in Issue : Telling(i)' \subseteq Telling(i)
    BY <1>2, <1>7, IdleSound DEF Fail, Done, Telling, At
  <2> QED
    BY <1>7, <2>1, SilentStep DEF Fail
<1>8. CASE \E p \in Project : RemoveProject(p)
  BY <1>3, <1>8 DEF RemoveProject
<1>9. CASE Synchronise
  BY <1>3, <1>9 DEF Synchronise, SyncBegin, SyncFetch, SyncCommit, SyncFail
<1>10. CASE Expire
  BY <1>3, <1>10 DEF Expire
<1>11. CASE UNCHANGED vars
  BY <1>3, <1>11 DEF vars
<1> QED
  BY <1>4, <1>5, <1>6, <1>7, <1>8, <1>9, <1>10, <1>11, Steps

\* However many removals of an issue overlap, clients hear of one only when a
\* handler has deleted a row for it (IssueService.remove and the broadcast that
\* follows in handleIssue): what was announced and what is yet to be
\* announced never exceeds what was deleted.
THEOREM RemovalsAnnounced == Spec => []RemovalAnnouncedOnce
<1>1. Init => AnnouncedInv
  <2> SUFFICES ASSUME Init, NEW i \in Issue
               PROVE  announced[i] + Cardinality(Telling(i)) <= deletions[i]
    BY TypeInit DEF AnnouncedInv, RemovalAnnouncedOnce, Telling
  <2>1. Telling(i) = {}
    BY IdleSound DEF Init, Telling, At
  <2> QED
    BY <2>1, FS_EmptySet DEF Init
<1>2. AnnouncedInv => RemovalAnnouncedOnce
  BY DEF AnnouncedInv
<1> QED
  BY <1>1, <1>2, AnnouncedNext, PTL DEF Spec

(***************************************************************************)
(* Duplicates of labels                                                    *)
(***************************************************************************)
\* The rows of one label of an issue, and the handlers that found none when they
\* looked and will add one.
Copies(i, l) == {x \in RowsOf(i) : x.label = l}
Creators(i, l) ==
    {r \in Request : /\ req[r].at \in {"labelsDelete", "labelsWrite"}
                     /\ req[r].ev.issue = i
                     /\ l \in ToCreate(r)}

Most == Cardinality(used.of.handlers) + (IF used.syncs > 0 THEN 1 ELSE 0)

CopiesBounded(i, l) ==
    /\ IsFiniteSet(Copies(i, l))
    /\ Cardinality(Copies(i, l)) + Cardinality(Creators(i, l)) <= Most

CopiesInv == TypeInv /\ \A i \in Issue, l \in Label : CopiesBounded(i, l)

\* Only handlers that the circumstances allow are under way.
LEMMA AllowedFinite ==
  ASSUME NEW of \in Regime, NEW C, C \subseteq of.handlers
  PROVE  /\ IsFiniteSet(C) /\ Cardinality(C) \in Nat
         /\ Cardinality(of.handlers) \in Nat /\ Cardinality(C) <= Cardinality(of.handlers)
<1>1. of.handlers \in SUBSET Request /\ C \in SUBSET of.handlers
  BY IssueFeedAssumption DEF Circumstances
<1> QED
  BY <1>1, IssueFeedAssumption, FS_Subset, FS_CardinalityType

LEMMA CreatorsFinite ==
  ASSUME TypeInv, NEW i, NEW l
  PROVE  /\ IsFiniteSet(Creators(i, l)) /\ Cardinality(Creators(i, l)) \in Nat
         /\ Cardinality(used.of.handlers) \in Nat
         /\ Cardinality(Creators(i, l)) <= Cardinality(used.of.handlers)
         /\ used.syncs \in Nat
<1>1. used.of \in Regime /\ used.syncs \in Nat
  BY DEF TypeInv, TypeOK
<1>2. Creators(i, l) \subseteq used.of.handlers
  BY DEF Creators, TypeInv, HandlersSound, At
<1> QED
  BY <1>1, <1>2, AllowedFinite

\* A step after which there are no more rows and no more handlers that will add
\* one keeps the bound.
LEMMA ShrinkStep ==
  ASSUME TypeInv, TypeInv', NEW i, NEW l, CopiesBounded(i, l), used'.of = used.of,
         used.syncs <= used'.syncs,
         Copies(i, l)' \subseteq Copies(i, l), Creators(i, l)' \subseteq Creators(i, l)
  PROVE  CopiesBounded(i, l)'
<1>1. Copies(i, l)' \in SUBSET Copies(i, l) /\ Creators(i, l)' \in SUBSET Creators(i, l)
  OBVIOUS
<1>2. /\ IsFiniteSet(Copies(i, l)')
      /\ Cardinality(Copies(i, l)') <= Cardinality(Copies(i, l))
      /\ Cardinality(Copies(i, l)) \in Nat /\ Cardinality(Copies(i, l)') \in Nat
  BY <1>1, FS_Subset, FS_CardinalityType DEF CopiesBounded
<1>3. /\ Cardinality(Creators(i, l)') <= Cardinality(Creators(i, l))
      /\ Cardinality(Creators(i, l)) \in Nat /\ Cardinality(Creators(i, l)') \in Nat
  BY <1>1, CreatorsFinite, FS_Subset, FS_CardinalityType
<1>4. /\ Cardinality(used.of.handlers) \in Nat /\ used.syncs \in Nat
      /\ used'.syncs \in Nat
  BY CreatorsFinite DEF TypeInv, TypeOK
<1>5. Most' = Cardinality(used.of.handlers) + (IF used'.syncs > 0 THEN 1 ELSE 0)
  BY DEF Most
<1> QED
  BY <1>2, <1>3, <1>4, <1>5 DEF CopiesBounded, Most

\* Where there are no rows, or only one that a synchronisation has written, the
\* handlers that will add one are few enough.
LEMMA AnewStep ==
  ASSUME TypeInv', NEW i, NEW l, NEW x, Copies(i, l)' \subseteq {x},
         Copies(i, l)' # {} => used'.syncs > 0
  PROVE  CopiesBounded(i, l)'
<1>1. /\ Cardinality(Creators(i, l)') \in Nat /\ Cardinality(used'.of.handlers) \in Nat
      /\ Cardinality(Creators(i, l)') <= Cardinality(used'.of.handlers)
      /\ used'.syncs \in Nat
  <2>1. used'.of \in Regime /\ used'.syncs \in Nat
    BY DEF TypeInv, TypeOK
  <2>2. Creators(i, l)' \subseteq used'.of.handlers
    BY DEF Creators, TypeInv, HandlersSound, At
  <2> QED
    BY <2>1, <2>2, AllowedFinite
<1>2. Copies(i, l)' = {} \/ Copies(i, l)' = {x}
  OBVIOUS
<1>3. CASE Copies(i, l)' = {}
  <2>1. IsFiniteSet(Copies(i, l)') /\ Cardinality(Copies(i, l)') = 0
    BY <1>3, FS_EmptySet
  <2> QED
    BY <1>1, <2>1 DEF CopiesBounded, Most
<1>4. CASE Copies(i, l)' = {x}
  <2>1. IsFiniteSet(Copies(i, l)') /\ Cardinality(Copies(i, l)') = 1
    BY <1>4, FS_Singleton
  <2> QED
    BY <1>1, <1>4, <2>1 DEF CopiesBounded, Most
<1> QED
  BY <1>2, <1>3, <1>4

\* Every step of a handler but two leaves no more rows, and no more handlers that
\* will add one.
LEMMA OtherStepsShrink ==
  ASSUME TypeInv, NEW r \in Request, Handle(r), ~LabelsRead(r), ~LabelsWrite(r)
  PROVE  /\ rows' \subseteq rows
         /\ \A i, l : Creators(i, l)' \subseteq Creators(i, l)
<1>1. req \in [Request -> Handler]
  BY DEF TypeInv, TypeOK
<1>2. ASSUME \A s \in Request \ {r} : req'[s] = req[s],
             req'[r].at \notin {"labelsDelete", "labelsWrite"}
      PROVE  \A i, l : Creators(i, l)' \subseteq Creators(i, l)
  BY <1>2 DEF Creators, ToCreate
<1> USE DEF At, Goto, Done, database
<1>3. ASSUME NEW step, step \notin {"labelsDelete", "labelsWrite"}, Goto(r, step)
      PROVE  \A i, l : Creators(i, l)' \subseteq Creators(i, l)
  <2>1. (\A s \in Request \ {r} : req'[s] = req[s]) /\ req'[r].at = step
    BY <1>1, <1>3 DEF Handler
  <2> QED
    BY <1>2, <1>3, <2>1
<1>4. ASSUME Done(r) PROVE \A i, l : Creators(i, l)' \subseteq Creators(i, l)
  <2>1. (\A s \in Request \ {r} : req'[s] = req[s]) /\ req'[r].at = "idle"
    BY <1>1, <1>4, IdleSound
  <2> QED
    BY <1>2, <2>1
<1>5. CASE Ensure(r)
  <2>1. CASE \E p \in projects : req' = [req EXCEPT ![r].at = "insert", ![r].ev.project = p]
    <3>1. /\ \A s \in Request \ {r} : req'[s] = req[s]
          /\ req'[r].at \notin {"labelsDelete", "labelsWrite"}
      BY <1>1, <2>1 DEF Handler
    <3> QED
      BY <1>2, <1>5, <3>1 DEF Ensure
  <2> QED
    BY <1>3, <1>5, <2>1 DEF Ensure
<1>6. CASE EnsureUnassigned(r)
  <2>1. CASE req' = [req EXCEPT ![r].at = "insert", ![r].ev.project = Unassigned]
    BY <1>1, <1>2, <1>6, <2>1 DEF EnsureUnassigned, Handler
  <2> QED
    BY <1>4, <1>6, <2>1 DEF EnsureUnassigned
<1>7. CASE Insert(r)
  BY <1>3, <1>4, <1>7 DEF Insert
<1>8. CASE CacheNew(r)
  <2>1. AfterInsert(req[r].ev) \notin {"labelsDelete", "labelsWrite"}
    BY DEF AfterInsert
  <2> QED
    BY <1>3, <1>8, <2>1 DEF CacheNew
<1>9. CASE Exists(r)
  <2>1. CASE req' = [req EXCEPT ![r].at = "update", ![r].verb = "update"]
    BY <1>1, <1>2, <1>9, <2>1 DEF Exists, Handler
  <2> QED
    BY <1>3, <1>9, <2>1 DEF Exists
<1>10. CASE Update(r)
  <2>1. AfterUpdate(req[r].ev) \notin {"labelsDelete", "labelsWrite"}
    BY DEF AfterUpdate
  <2> QED
    BY <1>3, <1>4, <1>10, <2>1 DEF Update
<1>11. CASE LabelsDelete(r)
  <2>1. /\ \A s \in Request \ {r} : req'[s] = req[s]
        /\ req'[r].ev = req[r].ev /\ req'[r].snap = req[r].snap
        /\ req[r].at = "labelsDelete"
    BY <1>1, <1>11 DEF LabelsDelete, Handler
  <2> QED
    BY <1>11, <2>1 DEF LabelsDelete, Creators, ToCreate
<1>12. CASE Fetch(r)
  <2>1. CASE cache[req[r].ev.issue] = None
    BY <1>1, <1>2, <1>12, <2>1 DEF Fetch, Handler
  <2> QED
    BY <1>4, <1>12, <2>1 DEF Fetch
<1>13. CASE Fetched(r)
  BY <1>3, <1>4, <1>13 DEF Fetched
<1>14. CASE Fallback(r)
  BY <1>4, <1>14 DEF Fallback
<1>15. CASE RemoveFind(r)
  BY <1>3, <1>4, <1>15 DEF RemoveFind
<1>16. CASE RemoveDelete(r)
  <2>1. Goto(r, "removed") \/ Done(r)
    BY <1>16 DEF RemoveDelete
  <2>2. \A i, l : Creators(i, l)' \subseteq Creators(i, l)
    BY <1>3, <1>4, <2>1
  <2> QED
    BY <1>16, <2>2 DEF RemoveDelete
<1>17. CASE RemoveAnswer(r)
  BY <1>4, <1>17 DEF RemoveAnswer
<1>18. CASE List(r)
  <2>1. (\A s \in Request \ {r} : req'[s] = req[s]) /\ req'[r].at = "list"
    BY <1>1, <1>18 DEF List, Handler
  <2>2. \A i, l : Creators(i, l)' \subseteq Creators(i, l)
    BY <1>2, <2>1
  <2> QED
    BY <1>18, <2>2 DEF List
<1>19. CASE ListRead(r)
  BY <1>1, <1>2, <1>19 DEF ListRead, Handler
<1>20. CASE ListAnswer(r)
  BY <1>4, <1>20 DEF ListAnswer
<1> QED
  BY <1>5, <1>6, <1>7, <1>8, <1>9, <1>10, <1>11, <1>12, <1>13, <1>14, <1>15, <1>16, <1>17,
     <1>18, <1>19, <1>20 DEF Handle

LEMMA CopiesShrink ==
  ASSUME NEW i, NEW l, rows' \subseteq rows
  PROVE  Copies(i, l)' \subseteq Copies(i, l)
  BY DEF Copies, RowsOf

\* A handler that looks will add a row only where there is none.
LEMMA LookKeeps ==
  ASSUME CopiesInv, TypeInv', NEW r \in Request, LabelsRead(r), NEW i \in Issue, NEW l \in Label
  PROVE  CopiesBounded(i, l)'
<1>1. TypeInv /\ CopiesBounded(i, l) /\ req \in [Request -> Handler]
  BY DEF CopiesInv, TypeInv, TypeOK
<1>2. /\ \A s \in Request \ {r} : req'[s] = req[s]
      /\ req'[r].snap = RowsOf(req[r].ev.issue) /\ req'[r].ev = req[r].ev
      /\ rows' = rows /\ used' = used
  BY <1>1 DEF LabelsRead, Handler, database
<1>3. CASE Copies(i, l) = {}
  <2>1. Copies(i, l)' = {}
    BY <1>2, <1>3 DEF Copies, RowsOf
  <2> QED
    BY <2>1, AnewStep
<1>4. CASE Copies(i, l) # {}
  <2>1. r \notin Creators(i, l)'
    BY <1>2, <1>4 DEF Copies, Creators, ToCreate, RowsOf
  <2>2. Creators(i, l)' \subseteq Creators(i, l)
    BY <1>2, <2>1 DEF Creators, ToCreate
  <2>3. Copies(i, l)' \subseteq Copies(i, l)
    BY <1>2, CopiesShrink
  <2>4. used'.of = used.of /\ used.syncs <= used'.syncs
    BY <1>1, <1>2, CreatorsFinite
  <2> QED
    BY <1>1, <2>2, <2>3, <2>4, ShrinkStep
<1> QED
  BY <1>3, <1>4

\* A handler that adds a row will not add one again.
LEMMA WriteKeeps ==
  ASSUME CopiesInv, TypeInv', NEW r \in Request, LabelsWrite(r), NEW i \in Issue, NEW l \in Label
  PROVE  CopiesBounded(i, l)'
<1> DEFINE new == [issue |-> i, label |-> l, by |-> req[r].id]
<1>1. TypeInv /\ CopiesBounded(i, l) /\ req \in [Request -> Handler]
  BY DEF CopiesInv, TypeInv, TypeOK
<1>2. /\ \A s \in Request \ {r} : req'[s] = req[s]
      /\ req'[r].at \in {"idle", "fetch"} /\ req[r].at = "labelsWrite"
      /\ used' = used
  BY <1>1, IdleSound DEF LabelsWrite, Goto, Done, Handler, At
<1>3. Creators(i, l)' = Creators(i, l) \ {r}
  BY <1>2 DEF Creators, ToCreate
<1>4. CASE i = req[r].ev.issue /\ l \in ToCreate(r)
  <2>1. r \in Creators(i, l)
    BY <1>2, <1>4 DEF Creators
  <2>2. Copies(i, l)' \in SUBSET (Copies(i, l) \cup {new})
    <3>1. ASSUME NEW x \in Copies(i, l)' PROVE x \in Copies(i, l) \cup {new}
      <4>1. x \in rows \/ \E m \in ToCreate(r) : x = [issue |-> i, label |-> m, by |-> req[r].id]
        BY <1>4, <3>1 DEF LabelsWrite, Copies, RowsOf
      <4>2. x.issue = i /\ x.label = l
        BY <3>1 DEF Copies, RowsOf
      <4> QED
        BY <4>1, <4>2 DEF Copies, RowsOf
    <3> QED
      BY <3>1
  <2>3. /\ IsFiniteSet(Copies(i, l) \cup {new})
        /\ Cardinality(Copies(i, l) \cup {new}) <= Cardinality(Copies(i, l)) + 1
        /\ Cardinality(Copies(i, l)) \in Nat
    <3> HIDE DEF new
    <3>1. IsFiniteSet(Copies(i, l))
      BY <1>1 DEF CopiesBounded
    <3>2. Cardinality(Copies(i, l)) \in Nat
      BY <3>1, FS_CardinalityType
    <3>3. /\ IsFiniteSet(Copies(i, l) \cup {new})
          /\ Cardinality(Copies(i, l) \cup {new}) =
               IF new \in Copies(i, l) THEN Cardinality(Copies(i, l))
               ELSE Cardinality(Copies(i, l)) + 1
      BY <3>1, FS_AddElement
    <3> QED
      BY <3>2, <3>3
  <2>4. /\ IsFiniteSet(Copies(i, l)')
        /\ Cardinality(Copies(i, l)') <= Cardinality(Copies(i, l) \cup {new})
        /\ Cardinality(Copies(i, l)') \in Nat
        /\ Cardinality(Copies(i, l) \cup {new}) \in Nat
    BY <2>2, <2>3, FS_Subset, FS_CardinalityType
  <2>5. Cardinality(Creators(i, l)') = Cardinality(Creators(i, l)) - 1
        /\ Cardinality(Creators(i, l)) \in Nat
    BY <1>1, <1>3, <2>1, CreatorsFinite, FS_RemoveElement
  <2>6. Most' = Most /\ Most \in Nat
    BY <1>1, <1>2, CreatorsFinite DEF Most
  <2>7. Cardinality(Copies(i, l)) + Cardinality(Creators(i, l)) <= Most
    BY <1>1 DEF CopiesBounded
  <2> QED
    BY <2>3, <2>4, <2>5, <2>6, <2>7 DEF CopiesBounded
<1>5. CASE ~(i = req[r].ev.issue /\ l \in ToCreate(r))
  <2>1. Copies(i, l)' \subseteq Copies(i, l)
    BY <1>5 DEF Copies, RowsOf, LabelsWrite
  <2>2. used'.of = used.of /\ used.syncs <= used'.syncs
    BY <1>1, <1>2, CreatorsFinite
  <2> QED
    BY <1>1, <1>3, <2>1, <2>2, ShrinkStep
<1> QED
  BY <1>4, <1>5

\* A synchronisation leaves one row, or those that there are.
LEMMA CommitKeeps ==
  ASSUME CopiesInv, TypeInv', SyncCommit, NEW i \in Issue, NEW l \in Label
  PROVE  CopiesBounded(i, l)'
<1> DEFINE new == [issue |-> i, label |-> l, by |-> sync.id]
<1>1. TypeInv /\ CopiesBounded(i, l) /\ used.syncs > 0
  BY DEF CopiesInv, TypeInv, SyncCounted, SyncCommit
<1>2. /\ used' = used /\ req' = req
      /\ SyncWrites \/ UNCHANGED rows
  BY DEF SyncCommit
<1>3. CASE SyncWrites /\ i \in Relabelled
  <2>1. ASSUME NEW x \in Copies(i, l)' PROVE x = new
    <3>1. x.issue = i /\ x.label = l /\ x \in rows'
      BY <2>1 DEF Copies, RowsOf
    <3>2. \E j \in Relabelled : \E m \in sync.linear[j].labels :
             x = [issue |-> j, label |-> m, by |-> sync.id]
      BY <1>3, <3>1 DEF SyncWrites
    <3> QED
      BY <3>1, <3>2
  <2> QED
    BY <1>1, <1>2, <2>1, AnewStep
<1>4. CASE UNCHANGED rows \/ (SyncWrites /\ i \notin Relabelled)
  <2>1. Copies(i, l)' \subseteq Copies(i, l)
    BY <1>4 DEF Copies, RowsOf, SyncWrites
  <2>2. Creators(i, l)' \subseteq Creators(i, l)
    BY <1>2 DEF Creators, ToCreate
  <2>3. used'.of = used.of /\ used.syncs <= used'.syncs
    BY <1>1, <1>2, CreatorsFinite
  <2> QED
    BY <1>1, <2>1, <2>2, <2>3, ShrinkStep
<1> QED
  BY <1>2, <1>3, <1>4

LEMMA CopiesNext == ASSUME CopiesInv, [Next]_vars PROVE CopiesInv'
<1>1. TypeInv /\ TypeInv'
  BY Steps, TypeEdit, TypeDeliver, TypeHandle, TypeFail, TypeRemoveProject, TypeSynchronise,
     TypeExpire, TypeStutters DEF CopiesInv
<1> SUFFICES ASSUME NEW i \in Issue, NEW l \in Label PROVE CopiesBounded(i, l)'
  BY <1>1 DEF CopiesInv
<1>2. CopiesBounded(i, l) /\ req \in [Request -> Handler] /\ used \in Counts
  BY DEF CopiesInv, TypeInv, TypeOK, Counts
<1>3. ASSUME used'.of = used.of, used.syncs <= used'.syncs, rows' \subseteq rows,
             Creators(i, l)' \subseteq Creators(i, l)
      PROVE  CopiesBounded(i, l)'
  BY <1>1, <1>2, <1>3, CopiesShrink, ShrinkStep
<1>4. ASSUME req' = req PROVE Creators(i, l)' \subseteq Creators(i, l)
  BY <1>4 DEF Creators, ToCreate
<1>5. ASSUME NEW r \in Request, \A s \in Request \ {r} : req'[s] = req[s],
             req'[r].at \notin {"labelsDelete", "labelsWrite"}
      PROVE  Creators(i, l)' \subseteq Creators(i, l)
  BY <1>5 DEF Creators, ToCreate
<1>6. ASSUME NEW j \in Issue, NEW action \in {"create", "update", "remove"},
             NEW labels \in (SUBSET Label) \cup {None}, NEW p \in Project \cup {None},
             NEW t \in Team, Edit(j, action, labels, p, t)
      PROVE  CopiesBounded(i, l)'
  <2>1. used'.of = used.of /\ used.syncs <= used'.syncs
    BY <1>2, <1>6 DEF Edit, Counts
  <2> QED
    BY <1>3, <1>4, <1>6, <2>1 DEF Edit, database
<1>7. ASSUME NEW r \in Request, NEW n \in DOMAIN net, NEW again \in BOOLEAN, Deliver(r, n, again)
      PROVE  CopiesBounded(i, l)'
  <2>1. net[n] \in Event /\ net[n].action \in {"create", "update", "remove"}
    <3>1. net \in Seq(Event)
      BY <1>1 DEF TypeInv, TypeOK
    <3>2. net[n] \in Event
      BY <3>1
    <3> QED
      BY <3>2 DEF Event
  <2>2. /\ req'[r].at \notin {"labelsDelete", "labelsWrite"}
        /\ \A s \in Request \ {r} : req'[s] = req[s]
    BY <1>2, <1>7, <2>1 DEF Deliver, Idle
  <2>3. used'.of = used.of /\ used.syncs <= used'.syncs
    BY <1>2, <1>7 DEF Deliver, Counts
  <2> QED
    BY <1>3, <1>5, <1>7, <2>2, <2>3 DEF Deliver, database
<1>8. ASSUME NEW r \in Request, Handle(r) PROVE CopiesBounded(i, l)'
  <2>1. CASE LabelsRead(r)
    BY <1>1, <2>1, LookKeeps
  <2>2. CASE LabelsWrite(r)
    BY <1>1, <2>2, WriteKeeps
  <2>3. CASE ~LabelsRead(r) /\ ~LabelsWrite(r)
    <3>1. used'.of = used.of /\ used.syncs <= used'.syncs
      BY <1>1, <1>2, <1>8, OwnWrites DEF Counts
    <3> QED
      BY <1>1, <1>3, <1>8, <2>3, <3>1, OtherStepsShrink
  <2> QED
    BY <2>1, <2>2, <2>3
<1>9. ASSUME NEW r \in Request, Fail(r) PROVE CopiesBounded(i, l)'
  <2>1. used'.of = used.of /\ used.syncs <= used'.syncs
    BY <1>2, <1>9 DEF Fail, Counts
  <2>2. (\A s \in Request \ {r} : req'[s] = req[s]) /\ req'[r].at = "idle"
    BY <1>2, <1>9, IdleSound DEF Fail, Done
  <2> QED
    BY <1>3, <1>5, <1>9, <2>1, <2>2 DEF Fail, database
<1>10. ASSUME NEW p \in Project, RemoveProject(p) PROVE CopiesBounded(i, l)'
  <2>1. used'.of = used.of /\ used.syncs <= used'.syncs /\ rows' \subseteq rows
    BY <1>2, <1>10 DEF RemoveProject, Counts
  <2> QED
    BY <1>3, <1>4, <1>10, <2>1 DEF RemoveProject
<1>11. CASE Synchronise
  <2>1. CASE SyncCommit
    BY <1>1, <2>1, CommitKeeps
  <2>2. CASE SyncBegin \/ SyncFetch \/ SyncFail
    <3>1. used'.of = used.of /\ used.syncs <= used'.syncs
      <4>1. CASE SyncBegin
        BY <1>2, <4>1 DEF SyncBegin, Counts
      <4>2. CASE SyncFetch \/ SyncFail
        BY <1>2, <4>2 DEF SyncFetch, SyncFail, Counts
      <4> QED
        BY <2>2, <4>1, <4>2
    <3> QED
      BY <1>3, <1>4, <2>2, <3>1 DEF SyncBegin, SyncFetch, SyncFail, database
  <2> QED
    BY <1>11, <2>1, <2>2 DEF Synchronise
<1>12. CASE Expire \/ UNCHANGED vars
  <2>1. used'.of = used.of /\ used.syncs <= used'.syncs
    BY <1>2, <1>12 DEF Expire, vars, Counts
  <2> QED
    BY <1>3, <1>4, <1>12, <2>1 DEF Expire, vars, database
<1> QED
  BY <1>6, <1>7, <1>8, <1>9, <1>10, <1>11, <1>12, Steps

LEMMA CopiesBound == ASSUME CopiesInv PROVE DuplicatesBounded
<1> SUFFICES ASSUME NEW i \in Issue, NEW l \in Label
             PROVE  Cardinality(Copies(i, l)) <= Most
  BY DEF DuplicatesBounded, Copies, Most
<1>1. TypeInv /\ CopiesBounded(i, l)
  BY DEF CopiesInv
<1>2. Cardinality(Creators(i, l)) \in Nat /\ Most \in Nat
  BY <1>1, CreatorsFinite DEF Most
<1>3. Cardinality(Copies(i, l)) \in Nat
  BY <1>1, FS_CardinalityType DEF CopiesBounded
<1> QED
  BY <1>1, <1>2, <1>3 DEF CopiesBounded

\* updateLabelsForIssue may give a label of an issue more than one row, but however
\* many webhooks there are, and however they overlap, never more than handlers can
\* be in flight at once, and one more where a synchronisation writes labels: a
\* handler adds a row only if it saw none, and each of the others that saw none
\* adds one at most.
THEOREM DuplicatesStayBounded == Spec => []DuplicatesBounded
<1>1. Init => CopiesInv
  <2> SUFFICES ASSUME Init, NEW i \in Issue, NEW l \in Label PROVE CopiesBounded(i, l)
    BY TypeInit DEF CopiesInv
  <2>1. Copies(i, l) = {} /\ Creators(i, l) = {}
    BY IdleSound DEF Init, Copies, RowsOf, Creators
  <2>2. Most \in Nat
    BY TypeInit, CreatorsFinite DEF Most
  <2> QED
    BY <2>1, <2>2, FS_EmptySet DEF CopiesBounded
<1>2. CopiesInv => DuplicatesBounded
  BY CopiesBound
<1> QED
  BY <1>1, <1>2, CopiesNext, PTL DEF Spec

(***************************************************************************)
(* One handler: the caches                                                 *)
(***************************************************************************)
\* Webhooks in order, one handler, no failures.
On(r, i) == req[r].at \in WebhookSteps /\ req[r].ev.issue = i

\* At these steps the issue has its row.
RowSteps == {"update", "cacheNew", "labelsRead", "labelsDelete", "labelsWrite", "fetch", "fetched"}

RowThere(r) ==
    /\ req[r].at \in RowSteps => req[r].ev.issue \in Existing
    /\ req[r].at = "fetched" => req[r].found # None
    /\ req[r].at # "fallback"

NoOrphans(i) == i \notin Existing => RowsOf(i) = {}

Forgotten(i) ==
    i \notin Existing => cache[i] = None \/ \E r \in Request : On(r, i) /\ At(r, "removed")

PageTrue ==
    used.syncs = 0 =>
        /\ page \in {None, Existing} \/ \E r \in Request : req[r].at \in {"cacheNew", "removed"}
        /\ \A r \in Request : At(r, "listed") => req[r].ids = Existing

OrderlyInv ==
    Orderly =>
        /\ \A r \in Request : RowThere(r)
        /\ \A i \in Issue : NoOrphans(i) /\ Forgotten(i)
        /\ PageTrue

\* With one handler, whoever acts is alone.
LEMMA HandleMine == ASSUME TypeInv, NEW r \in Request, Handle(r) PROVE r \in used.of.handlers
  BY DEF TypeInv, HandlersSound, Handle, At, Ensure, EnsureUnassigned, Insert, CacheNew, Exists,
     Update, LabelsRead, LabelsDelete, LabelsWrite, Fetch, Fetched, Fallback, RemoveFind,
     RemoveDelete, RemoveAnswer, List, ListRead, ListAnswer

LEMMA OthersIdle ==
  ASSUME TypeInv, Orderly, NEW r \in Request, r \in used.of.handlers,
         NEW s \in Request, s # r
  PROVE  req[s].at = "idle"
<1>1. used.of \in Circumstances
  BY IssueFeedAssumption DEF TypeInv, TypeOK
<1>2. used.of.handlers \in SUBSET Request /\ IsFiniteSet(Request)
  BY <1>1, IssueFeedAssumption DEF Circumstances
<1>3. IsFiniteSet(used.of.handlers) /\ Cardinality(used.of.handlers) = 1
  BY <1>2, FS_Subset DEF Orderly
<1>4. PICK x : used.of.handlers = {x}
  BY <1>3, FS_Singleton
<1>5. s \notin used.of.handlers
  BY <1>4
<1> QED
  BY <1>5 DEF TypeInv, HandlersSound, At

\* Where nothing fails, and no projects go, only these steps are left.
LEMMA NothingFails ==
  ASSUME TypeInv, Orderly
  PROVE  /\ \A r \in Request : ~Fail(r)
         /\ \A p \in Project : ~RemoveProject(p)
         /\ ~SyncFail
<1>1. used.failures \in Nat /\ used.removals \in Nat
      /\ used.of.failures = 0 /\ used.of.removals = 0
  BY DEF TypeInv, TypeOK, Orderly
<1>2. ~Left("failures") /\ ~Left("removals")
  BY <1>1 DEF Left
<1> QED
  BY <1>2 DEF Fail, RemoveProject, SyncFail

\* Two events are the same but for the project, which the handler fills in.
SameAs(e, f) ==
    e.rev = f.rev /\ e.action = f.action /\ e.issue = f.issue /\ e.labels = f.labels

\* What a step says of its own handler, with the others idle.
Mine(r, h) ==
    /\ req'[r] = h
    /\ \A s \in Request \ {r} : req'[s] = req[s] /\ req[s].at = "idle"

\* h goes on to a step as k, with all that it has read.
Onward(h, k, step) ==
    /\ k.at = step /\ k.ev = h.ev /\ k.id = h.id
    /\ k.snap = h.snap /\ k.found = h.found

LEMMA Alone ==
  ASSUME TypeInv, Orderly, NEW r \in Request, r \in used.of.handlers,
         NEW h, req' = [req EXCEPT ![r] = h]
  PROVE  Mine(r, h)
<1>1. req \in [Request -> Handler] /\ \A s \in Request \ {r} : req[s].at = "idle"
  BY OthersIdle DEF TypeInv, TypeOK
<1> QED
  BY <1>1 DEF Mine

LEMMA GoesOn ==
  ASSUME TypeInv, Orderly, NEW r \in Request, r \in used.of.handlers,
         NEW step, Goto(r, step)
  PROVE  \E k : Mine(r, k) /\ Onward(req[r], k, step)
<1> DEFINE k == [req[r] EXCEPT !.at = step]
<1>1. req \in [Request -> Handler]
  BY DEF TypeInv, TypeOK
<1>2. req' = [req EXCEPT ![r] = k]
  BY <1>1 DEF Goto
<1>3. Onward(req[r], k, step)
  BY <1>1 DEF Handler, Onward
<1> HIDE DEF k
<1> QED
  BY <1>2, <1>3, Alone

LEMMA Finishes ==
  ASSUME TypeInv, Orderly, NEW r \in Request, r \in used.of.handlers, Done(r)
  PROVE  Mine(r, Idle)
  BY Alone DEF Done

LEMMA EnsureMoves ==
  ASSUME TypeInv, Orderly, NEW r \in Request, Ensure(r)
  PROVE  \E k : /\ Mine(r, k) /\ k.at \in {"insert", "unassigned"}
                /\ SameAs(req[r].ev, k.ev)
                /\ k.at = "insert" =>
                       k.ev.project \in projects \/ k.ev.project = req[r].ev.project
                /\ k.at = "insert" => k.ev.project # None
                /\ k.at = "unassigned" => k.ev.project = None /\ projects = {}
<1>1. req \in [Request -> Handler] /\ req[r].ev \in Event /\ r \in used.of.handlers
      /\ projects \subseteq Project
  BY HandleMine DEF TypeInv, TypeOK, HandlersSound, Sound, Ensure, At, WebhookSteps, Step, Handle
<1>2. CASE \E step \in {"insert", "unassigned"} :
              /\ Goto(r, step)
              /\ step = "insert" <=> req[r].ev.project # None
              /\ step = "unassigned" => projects = {}
  <2>1. PICK step \in {"insert", "unassigned"} :
              /\ Goto(r, step) /\ (step = "insert" <=> req[r].ev.project # None)
              /\ step = "unassigned" => projects = {}
    BY <1>2
  <2>2. PICK k : Mine(r, k) /\ Onward(req[r], k, step)
    BY <1>1, <2>1, GoesOn
  <2> QED
    BY <2>1, <2>2 DEF Onward, SameAs
<1>3. CASE \E p \in projects : req' = [req EXCEPT ![r].at = "insert", ![r].ev.project = p]
  <2>1. PICK p \in projects : req' = [req EXCEPT ![r].at = "insert", ![r].ev.project = p]
    BY <1>3
  <2> DEFINE k == [req[r] EXCEPT !.at = "insert", !.ev.project = p]
  <2>2. req' = [req EXCEPT ![r] = k]
    BY <1>1, <2>1
  <2>3. k.at = "insert" /\ k.ev = [req[r].ev EXCEPT !.project = p]
    BY <1>1 DEF Handler
  <2>4. SameAs(req[r].ev, k.ev) /\ k.ev.project = p
    BY <1>1, <2>3 DEF SameAs, Event
  <2> HIDE DEF k
  <2>5. p # None
    BY <1>1, IssueFeedAssumption
  <2> QED
    BY <1>1, <2>2, <2>3, <2>4, <2>5, Alone
<1> QED
  BY <1>2, <1>3 DEF Ensure

LEMMA UnassignedMoves ==
  ASSUME TypeInv, Orderly, NEW r \in Request, EnsureUnassigned(r),
         req' = [req EXCEPT ![r].at = "insert", ![r].ev.project = Unassigned]
  PROVE  \E k : /\ Mine(r, k) /\ k.at = "insert" /\ SameAs(req[r].ev, k.ev)
                /\ k.ev.project = Unassigned
<1>1. req \in [Request -> Handler] /\ req[r].ev \in Event /\ r \in used.of.handlers
  BY HandleMine DEF TypeInv, TypeOK, HandlersSound, Sound, EnsureUnassigned, At, WebhookSteps,
     Step, Handle
<1> DEFINE k == [req[r] EXCEPT !.at = "insert", !.ev.project = Unassigned]
<1>2. req' = [req EXCEPT ![r] = k]
  BY <1>1
<1>3. k.at = "insert" /\ k.ev = [req[r].ev EXCEPT !.project = Unassigned]
  BY <1>1 DEF Handler
<1>4. SameAs(req[r].ev, k.ev) /\ k.ev.project = Unassigned
  BY <1>1, <1>3 DEF SameAs, Event
<1> HIDE DEF k
<1> QED
  BY <1>1, <1>2, <1>3, <1>4, Alone

LEMMA ExistsMoves ==
  ASSUME TypeInv, Orderly, NEW r \in Request, Exists(r)
  PROVE  \E k : /\ Mine(r, k)
                /\ Onward(req[r], k, IF issue[req[r].ev.issue] = None THEN "ensure" ELSE "update")
<1>1. req \in [Request -> Handler] /\ r \in used.of.handlers
  BY HandleMine DEF TypeInv, TypeOK, Handle
<1>2. CASE issue[req[r].ev.issue] = None
  BY <1>1, <1>2, GoesOn DEF Exists
<1>3. CASE issue[req[r].ev.issue] # None
  <2> DEFINE k == [req[r] EXCEPT !.at = "update", !.verb = "update"]
  <2>1. req' = [req EXCEPT ![r] = k]
    BY <1>1, <1>3 DEF Exists
  <2>2. Onward(req[r], k, "update")
    BY <1>1 DEF Onward, Handler
  <2> HIDE DEF k
  <2> QED
    BY <1>1, <1>3, <2>1, <2>2, Alone
<1> QED
  BY <1>2, <1>3

LEMMA LookMoves ==
  ASSUME TypeInv, Orderly, NEW r \in Request, LabelsRead(r)
  PROVE  \E k : /\ Mine(r, k) /\ k.ev = req[r].ev /\ k.snap = RowsOf(req[r].ev.issue)
                /\ k.at = IF LabelsOf(req[r].ev.issue) \subseteq req[r].ev.labels
                            THEN "labelsWrite" ELSE "labelsDelete"
<1>1. req \in [Request -> Handler] /\ r \in used.of.handlers
  BY HandleMine DEF TypeInv, TypeOK, Handle
<1> DEFINE step == IF LabelsOf(req[r].ev.issue) \subseteq req[r].ev.labels
                     THEN "labelsWrite" ELSE "labelsDelete"
           k == [req[r] EXCEPT !.snap = RowsOf(req[r].ev.issue), !.at = step]
<1>2. req' = [req EXCEPT ![r] = k]
  BY <1>1 DEF LabelsRead, LabelsOf
<1> HIDE DEF step
<1>3. k.ev = req[r].ev /\ k.snap = RowsOf(req[r].ev.issue) /\ k.at = step
  BY <1>1 DEF Handler
<1> HIDE DEF k
<1> QED
  BY <1>1, <1>2, <1>3, Alone DEF step

LEMMA FetchMoves ==
  ASSUME TypeInv, Orderly, NEW r \in Request, Fetch(r), cache[req[r].ev.issue] = None
  PROVE  \E k : /\ Mine(r, k) /\ k.ev = req[r].ev /\ k.at = "fetched"
                /\ req[r].ev.issue \in Existing => k.found # None
<1>1. req \in [Request -> Handler] /\ r \in used.of.handlers /\ req[r].ev.issue \in Issue
      /\ issue \in [Issue -> Row \cup {None}] /\ rows \subseteq LabelRow
  BY HandleMine DEF TypeInv, TypeOK, HandlersSound, Sound, Fetch, At, WebhookSteps, Step, Handle, Event
<1> DEFINE i == req[r].ev.issue
           full == [rev |-> issue[i].rev, labels |-> LabelsOf(i)]
           found == IF i \in Existing THEN full ELSE None
           k == [req[r] EXCEPT !.at = "fetched", !.found = found]
<1>2. req' = [req EXCEPT ![r] = k]
  BY <1>1 DEF Fetch
<1>3. i \in Existing => full \in Full
  BY <1>1 DEF Existing, Row, Full, LabelsOf, RowsOf, LabelRow
<1>4. i \in Existing => found # None
  BY <1>3, IssueFeedAssumption
<1> HIDE DEF found
<1>5. k.ev = req[r].ev /\ k.at = "fetched" /\ k.found = found
  BY <1>1 DEF Handler
<1> HIDE DEF k
<1> QED
  BY <1>1, <1>2, <1>4, <1>5, Alone

LEMMA ListMoves ==
  ASSUME TypeInv, Orderly, NEW r \in Request, ListRead(r)
  PROVE  \E k : Mine(r, k) /\ k.at = "listed" /\ k.ids = Existing
<1>1. req \in [Request -> Handler] /\ r \in used.of.handlers
  BY HandleMine DEF TypeInv, TypeOK, Handle
<1> DEFINE k == [req[r] EXCEPT !.at = "listed", !.ids = Existing]
<1>2. req' = [req EXCEPT ![r] = k]
  BY <1>1 DEF ListRead
<1>3. k.at = "listed" /\ k.ids = Existing
  BY <1>1 DEF Handler
<1> HIDE DEF k
<1> QED
  BY <1>1, <1>2, <1>3, Alone

\* The invariant, told of the one handler there is.
View(h) ==
    /\ h.at \in RowSteps => h.ev.issue \in Existing
    /\ h.at = "fetched" => h.found # None
    /\ h.at # "fallback"
    /\ \A i \in Issue : NoOrphans(i)
    /\ \A i \in Issue : i \notin Existing =>
           cache[i] = None \/ (h.at = "removed" /\ h.ev.issue = i)
    /\ used.syncs = 0 =>
           /\ page \in {None, Existing} \/ h.at \in {"cacheNew", "removed"}
           /\ h.at = "listed" => h.ids = Existing

LEMMA ViewOf ==
  ASSUME OrderlyInv, Orderly, NEW r \in Request,
         \A s \in Request \ {r} : req[s].at = "idle"
  PROVE  View(req[r])
<1> USE DEF On, At, WebhookSteps, Step
<1>1. \A i \in Issue : i \notin Existing =>
          cache[i] = None \/ (req[r].at = "removed" /\ req[r].ev.issue = i)
  BY DEF OrderlyInv, Forgotten
<1>2. used.syncs = 0 => page \in {None, Existing} \/ req[r].at \in {"cacheNew", "removed"}
  BY DEF OrderlyInv, PageTrue
<1> QED
  BY <1>1, <1>2 DEF OrderlyInv, View, RowThere, PageTrue

LEMMA ViewBack ==
  ASSUME NEW r \in Request, NEW h, Mine(r, h), View(h)'
  PROVE  OrderlyInv'
<1> USE DEF On, At, WebhookSteps, Step, RowSteps
<1>1. /\ req'[r] = h
      /\ \A s \in Request : s # r => req'[s].at = "idle"
  BY DEF Mine
<1>2. \A s \in Request : RowThere(s)'
  BY <1>1 DEF View, RowThere
<1>3. \A i \in Issue : NoOrphans(i)' /\ Forgotten(i)'
  BY <1>1 DEF View, Forgotten
<1>4. PageTrue'
  BY <1>1 DEF View, PageTrue
<1> QED
  BY <1>2, <1>3, <1>4 DEF OrderlyInv

\* The database and the caches as they were.
LEMMA ViewSame ==
  ASSUME NEW h, View(h), NEW k, UNCHANGED <<issue, rows, cache, page>>, used'.syncs = used.syncs,
         h.at \notin {"cacheNew", "removed"},
         k.at \in RowSteps => k.ev.issue \in Existing,
         k.at = "fetched" => k.found # None, k.at # "fallback",
         k.at = "listed" => k.ids = Existing
  PROVE  View(k)'
  BY DEF View, NoOrphans, Existing, RowsOf

LEMMA OrderlyHandle ==
  ASSUME TypeInv, OrderlyInv, Orderly, NEW r \in Request, Handle(r)
  PROVE  OrderlyInv'
<1> DEFINE h == req[r]
           e == h.ev
<1>1. r \in used.of.handlers
  BY HandleMine
<1>2. \A s \in Request \ {r} : req[s].at = "idle"
  BY <1>1, OthersIdle
<1>3. View(h)
  BY <1>2, ViewOf
<1>4. /\ h.at \in WebhookSteps => e \in Event /\ e.issue \in Issue
      /\ issue \in [Issue -> Row \cup {None}] /\ cache \in [Issue -> Full \cup {None}]
      /\ rows \subseteq LabelRow /\ None \notin Row /\ None \notin Full
  BY IssueFeedAssumption DEF TypeInv, TypeOK, HandlersSound, Sound, Event
<1>5. Idle.at = "idle"
  BY DEF Idle
<1>6. used'.syncs = used.syncs
  BY OwnWrites
<1> SUFFICES \E k : Mine(r, k) /\ View(k)'
  BY ViewBack
<1> HIDE DEF h
<1> USE DEF At
<1>7. ASSUME NEW k, Mine(r, k), UNCHANGED <<issue, rows, cache, page>>,
             h.at \notin {"cacheNew", "removed"},
             k.at \in RowSteps => k.ev.issue \in Existing,
             k.at = "fetched" => k.found # None, k.at # "fallback",
             k.at = "listed" => k.ids = Existing
      PROVE  \E x : Mine(r, x) /\ View(x)'
  BY <1>3, <1>6, <1>7, ViewSame
<1>8. ASSUME Done(r), UNCHANGED <<issue, rows, cache, page>>, h.at \notin {"cacheNew", "removed"}
      PROVE  \E x : Mine(r, x) /\ View(x)'
  <2>1. Mine(r, Idle)
    BY <1>1, <1>8, Finishes
  <2> QED
    BY <1>5, <1>7, <1>8, <2>1 DEF RowSteps
<1>9. ASSUME NEW step, Goto(r, step), UNCHANGED <<issue, rows, cache, page>>,
             h.at \notin {"cacheNew", "removed"}, step \notin {"fetched", "fallback", "listed"},
             step \in RowSteps => h.at \in RowSteps
      PROVE  \E x : Mine(r, x) /\ View(x)'
  <2>1. PICK k : Mine(r, k) /\ Onward(h, k, step)
    BY <1>1, <1>9, GoesOn DEF h
  <2>2. step \in RowSteps => e.issue \in Existing
    BY <1>3, <1>9 DEF View
  <2> QED
    BY <1>7, <1>9, <2>1, <2>2 DEF Onward
<1> USE DEF database, cached
<1>10. CASE Ensure(r)
  <2>1. PICK k : Mine(r, k) /\ k.at \in {"insert", "unassigned"}
    BY <1>10, EnsureMoves
  <2> QED
    BY <1>7, <1>10, <2>1 DEF Ensure, RowSteps, h
<1>11. CASE EnsureUnassigned(r)
  <2>1. CASE Done(r)
    BY <1>8, <1>11, <2>1 DEF EnsureUnassigned, h
  <2>2. CASE req' = [req EXCEPT ![r].at = "insert", ![r].ev.project = Unassigned]
    <3>1. PICK k : Mine(r, k) /\ k.at = "insert"
      BY <1>11, <2>2, UnassignedMoves
    <3> QED
      BY <1>7, <1>11, <3>1 DEF EnsureUnassigned, RowSteps, h
  <2> QED
    BY <1>11, <2>1, <2>2 DEF EnsureUnassigned
<1>12. CASE Insert(r)
  <2>1. CASE Done(r) /\ UNCHANGED issue
    BY <1>8, <1>12, <2>1 DEF Insert, h
  <2>2. CASE Goto(r, "cacheNew") /\ issue[e.issue] = None
             /\ issue' = [issue EXCEPT ![e.issue] = [rev |-> e.rev, project |-> e.project]]
             /\ e.project \in projects
    <3>1. PICK k : Mine(r, k) /\ Onward(h, k, "cacheNew")
      BY <1>1, <2>2, GoesOn DEF h
    <3>2. h.at = "insert" /\ e \in Event /\ UNCHANGED <<rows, cache, page>>
      BY <1>4, <1>12 DEF Insert, WebhookSteps, Step, h
    <3>3. issue'[e.issue] # None
      <4>1. [rev |-> e.rev, project |-> e.project] \in Row
        BY <2>2, <3>2 DEF Row, Event, TypeInv, TypeOK
      <4> QED
        BY <1>4, <2>2, <3>2, <4>1 DEF Event
    <3>4. Existing' = Existing \cup {e.issue} /\ e.issue \in Issue
      BY <1>4, <2>2, <3>2, <3>3 DEF Existing, Event
    <3>5. View(k)'
      BY <1>3, <3>1, <3>2, <3>4 DEF View, Onward, NoOrphans, RowsOf
    <3> QED
      BY <3>1, <3>5
  <2> QED
    BY <1>12, <2>1, <2>2 DEF Insert, h
<1>13. CASE CacheNew(r)
  <2>1. h.at = "cacheNew" /\ e.issue \in Issue /\ Goto(r, AfterInsert(e)) /\ page' = None
        /\ cache' = [cache EXCEPT ![e.issue] = [rev |-> e.rev, labels |-> {}]]
        /\ UNCHANGED <<issue, rows>>
    BY <1>4, <1>13 DEF CacheNew, WebhookSteps, Step, h
  <2>2. AfterInsert(e) \in {"fetch", "labelsRead"}
    BY DEF AfterInsert
  <2>3. PICK k : Mine(r, k) /\ Onward(h, k, AfterInsert(e))
    BY <1>1, <2>1, GoesOn DEF h
  <2>4. e.issue \in Existing /\ Existing' = Existing
    BY <1>3, <2>1 DEF View, RowSteps, Existing
  <2>5. View(k)'
    <3>1. \A i \in Issue : i \notin Existing => cache'[i] = None
      BY <1>3, <1>4, <2>1, <2>4 DEF View
    <3> QED
      BY <1>3, <2>1, <2>2, <2>3, <2>4, <3>1 DEF View, Onward, NoOrphans, RowsOf
  <2> QED
    BY <2>3, <2>5
<1>14. CASE Exists(r)
  <2>1. PICK k : /\ Mine(r, k)
                 /\ Onward(h, k, IF issue[e.issue] = None THEN "ensure" ELSE "update")
    BY <1>14, ExistsMoves DEF h
  <2>2. e.issue \in Issue /\ h.at = "exists" /\ UNCHANGED <<issue, rows, cache, page>>
    BY <1>4, <1>14 DEF Exists, WebhookSteps, Step, h
  <2>3. issue[e.issue] # None => e.issue \in Existing
    BY <2>2 DEF Existing
  <2> QED
    BY <1>7, <2>1, <2>2, <2>3 DEF Onward, RowSteps
<1>15. CASE Update(r)
  <2>1. h.at = "update" /\ e \in Event /\ UNCHANGED <<rows, cache, page>>
    BY <1>4, <1>15 DEF Update, WebhookSteps, Step, h
  <2>2. CASE Done(r) /\ UNCHANGED issue
    BY <1>8, <2>1, <2>2
  <2>3. CASE CanUpdate(e) /\ issue' = Updated(e) /\ Goto(r, AfterUpdate(e))
    <3>1. PICK k : Mine(r, k) /\ Onward(h, k, AfterUpdate(e))
      BY <1>1, <2>3, GoesOn DEF h
    <3>2. AfterUpdate(e) \in {"fetch", "labelsRead"}
      BY DEF AfterUpdate
    <3>3. Existing' = Existing /\ e.issue \in Existing
      <4>1. Updated(e) \in [Issue -> Row \cup {None}] /\ e.issue \in Issue
        BY <2>1, <2>3, UpdatedTyped DEF Event
      <4>2. Updated(e)[e.issue] # None /\ issue[e.issue] # None
            /\ \A i \in Issue \ {e.issue} : Updated(e)[i] = issue[i]
        <5>1. [rev |-> e.rev, project |-> IF ProjectId(e) = None THEN issue[e.issue].project
                                          ELSE ProjectId(e)] \in Row
          BY <1>4, <2>1, <2>3 DEF Row, CanUpdate, Event, ProjectId, TypeInv, TypeOK
        <5> QED
          BY <1>4, <2>3, <4>1, <5>1 DEF Updated, CanUpdate
      <4> QED
        BY <2>3, <4>1, <4>2 DEF Existing
    <3>4. View(k)'
      BY <1>3, <1>6, <2>1, <3>1, <3>2, <3>3 DEF View, Onward, NoOrphans, RowsOf
    <3> QED
      BY <3>1, <3>4
  <2> QED
    BY <1>15, <2>2, <2>3 DEF Update, h
<1>16. CASE LabelsRead(r)
  <2>1. PICK k : Mine(r, k) /\ k.ev = e /\ k.at \in {"labelsWrite", "labelsDelete"}
    BY <1>16, LookMoves DEF h
  <2>2. h.at = "labelsRead" /\ UNCHANGED <<issue, rows, cache, page>>
    BY <1>16 DEF LabelsRead, h
  <2>3. e.issue \in Existing
    BY <1>3, <2>2 DEF View, RowSteps
  <2> QED
    BY <1>7, <2>1, <2>2, <2>3
<1>17. CASE LabelsDelete(r)
  <2>1. PICK k : Mine(r, k) /\ Onward(h, k, "labelsWrite")
    BY <1>1, <1>17, GoesOn DEF LabelsDelete, h
  <2>2. h.at = "labelsDelete" /\ UNCHANGED <<issue, cache, page>> /\ rows' \subseteq rows
    BY <1>17 DEF LabelsDelete, h
  <2>3. e.issue \in Existing /\ Existing' = Existing
    BY <1>3, <2>2 DEF View, RowSteps, Existing
  <2>4. \A i \in Issue : NoOrphans(i)'
    BY <1>3, <2>2, <2>3 DEF View, NoOrphans, RowsOf
  <2>5. View(k)'
    BY <1>3, <1>6, <2>1, <2>2, <2>3, <2>4 DEF View, Onward
  <2> QED
    BY <2>1, <2>5
<1>18. CASE LabelsWrite(r)
  <2>1. h.at = "labelsWrite" /\ UNCHANGED <<issue, cache, page>>
    BY <1>18 DEF LabelsWrite, h
  <2>2. e.issue \in Existing /\ Existing' = Existing
    BY <1>3, <2>1 DEF View, RowSteps, Existing
  <2>3. CASE Done(r) /\ UNCHANGED rows
    BY <1>8, <2>1, <2>3
  <2>4. CASE Goto(r, "fetch") /\ rows' = rows \cup {[issue |-> e.issue, label |-> l, by |-> h.id] :
                                                       l \in ToCreate(r)}
    <3>1. PICK k : Mine(r, k) /\ Onward(h, k, "fetch")
      BY <1>1, <2>4, GoesOn DEF h
    <3>2. \A x \in rows' : x \in rows \/ x.issue = e.issue
      BY <2>4
    <3>3. \A i \in Issue : NoOrphans(i)'
      BY <1>3, <2>2, <3>2 DEF View, NoOrphans, RowsOf
    <3>4. View(k)'
      BY <1>3, <1>6, <2>1, <2>2, <3>1, <3>3 DEF View, Onward
    <3> QED
      BY <3>1, <3>4
  <2> QED
    BY <1>18, <2>3, <2>4 DEF LabelsWrite, h
<1>19. CASE Fetch(r)
  <2>1. h.at = "fetch" /\ UNCHANGED <<issue, rows, cache, page>>
    BY <1>19 DEF Fetch, h
  <2>2. e.issue \in Existing
    BY <1>3, <2>1 DEF View, RowSteps
  <2>3. CASE cache[e.issue] # None
    BY <1>8, <1>19, <2>1, <2>3 DEF Fetch, h
  <2>4. CASE cache[e.issue] = None
    <3>1. PICK k : Mine(r, k) /\ k.ev = e /\ k.at = "fetched" /\ k.found # None
      BY <1>19, <2>2, <2>4, FetchMoves DEF h
    <3> QED
      BY <1>7, <2>1, <2>2, <3>1
  <2> QED
    BY <2>3, <2>4
<1>20. CASE Fetched(r)
  <2>1. h.at = "fetched" /\ UNCHANGED <<issue, rows, page>> /\ h.found # None
        /\ e.issue \in Existing
    BY <1>3, <1>20 DEF Fetched, h, View, RowSteps
  <2>2. Done(r) /\ cache' = [cache EXCEPT ![e.issue] = h.found]
    BY <1>20, <2>1 DEF Fetched, h
  <2>3. Mine(r, Idle)
    BY <1>1, <2>2, Finishes
  <2>4. Existing' = Existing /\ \A i \in Issue : i \notin Existing => cache'[i] = None
    BY <1>3, <1>4, <2>1, <2>2 DEF View, Existing
  <2>5. View(Idle)'
    BY <1>3, <1>5, <1>6, <2>1, <2>4 DEF View, RowSteps, NoOrphans, RowsOf
  <2> QED
    BY <2>3, <2>5
<1>21. CASE Fallback(r)
  BY <1>3, <1>21 DEF Fallback, View, h
<1>22. CASE RemoveFind(r)
  <2>1. h.at = "removeFind" /\ UNCHANGED <<issue, rows, cache, page>>
        /\ (Goto(r, "removeDelete") \/ Done(r))
    BY <1>22 DEF RemoveFind, h
  <2> QED
    BY <1>8, <1>9, <2>1 DEF RowSteps
<1>23. CASE RemoveDelete(r)
  <2>1. h.at = "removeDelete" /\ e.issue \in Issue /\ UNCHANGED <<cache, page>>
    BY <1>4, <1>23 DEF RemoveDelete, WebhookSteps, Step, h
  <2>2. CASE Done(r) /\ UNCHANGED <<issue, rows>>
    BY <1>8, <2>1, <2>2
  <2>3. CASE Goto(r, "removed") /\ issue' = [issue EXCEPT ![e.issue] = None]
             /\ rows' = rows \ RowsOf(e.issue)
    <3>1. PICK k : Mine(r, k) /\ Onward(h, k, "removed")
      BY <1>1, <2>3, GoesOn DEF h
    <3>2. Existing' = Existing \ {e.issue}
      BY <1>4, <2>1, <2>3 DEF Existing
    <3>3. \A i \in Issue : NoOrphans(i)'
      BY <1>3, <2>3, <3>2 DEF View, NoOrphans, RowsOf
    <3>4. View(k)'
      BY <1>3, <2>1, <3>1, <3>2, <3>3 DEF View, Onward, RowSteps
    <3> QED
      BY <3>1, <3>4
  <2> QED
    BY <1>23, <2>2, <2>3 DEF RemoveDelete, h
<1>24. CASE RemoveAnswer(r)
  <2>1. h.at = "removed" /\ e.issue \in Issue /\ Done(r) /\ page' = None
        /\ cache' = [cache EXCEPT ![e.issue] = None] /\ UNCHANGED <<issue, rows>>
    BY <1>4, <1>24 DEF RemoveAnswer, WebhookSteps, Step, h
  <2>2. Mine(r, Idle)
    BY <1>1, <2>1, Finishes
  <2>3. Existing' = Existing /\ \A i \in Issue : i \notin Existing => cache'[i] = None
    BY <1>3, <1>4, <2>1 DEF View, Existing
  <2>4. View(Idle)'
    BY <1>3, <1>5, <2>1, <2>3 DEF View, RowSteps, NoOrphans, RowsOf
  <2> QED
    BY <2>2, <2>4
<1>25. CASE List(r)
  <2>1. h.at = "idle" /\ UNCHANGED <<issue, rows, cache, page>> /\ Goto(r, "list")
    BY <1>25 DEF List, h
  <2> QED
    BY <1>9, <2>1 DEF RowSteps
<1>26. CASE ListRead(r)
  <2>1. PICK k : Mine(r, k) /\ k.at = "listed" /\ k.ids = Existing
    BY <1>26, ListMoves
  <2>2. h.at = "list" /\ UNCHANGED <<issue, rows, cache, page>>
    BY <1>26 DEF ListRead, h
  <2> QED
    BY <1>7, <2>1, <2>2 DEF RowSteps
<1>27. CASE ListAnswer(r)
  <2>1. h.at = "listed" /\ page' = h.ids /\ UNCHANGED <<issue, rows, cache>> /\ Done(r)
    BY <1>27 DEF ListAnswer, h
  <2>2. Mine(r, Idle)
    BY <1>1, <2>1, Finishes
  <2>3. Existing' = Existing
    BY <2>1 DEF Existing
  <2>4. View(Idle)'
    BY <1>3, <1>5, <1>6, <2>1, <2>3 DEF View, RowSteps, NoOrphans, RowsOf
  <2> QED
    BY <2>2, <2>4
<1> QED
  BY <1>10, <1>11, <1>12, <1>13, <1>14, <1>15, <1>16, <1>17, <1>18, <1>19, <1>20, <1>21,
     <1>22, <1>23, <1>24, <1>25, <1>26, <1>27 DEF Handle

\* There is a handler, and a step of another process leaves it alone.
LEMMA TheHandler ==
  ASSUME TypeInv, Orderly
  PROVE  \E r \in Request : r \in used.of.handlers
<1>1. used.of.handlers \in SUBSET Request /\ IsFiniteSet(Request)
  BY IssueFeedAssumption DEF TypeInv, TypeOK, Circumstances
<1>2. used.of.handlers # {}
  BY <1>1, FS_EmptySet DEF Orderly
<1> QED
  BY <1>1, <1>2

LEMMA OrderlyOther ==
  ASSUME TypeInv, OrderlyInv, Orderly, UNCHANGED req,
         \/ SyncBegin \/ SyncFetch \/ SyncCommit \/ Expire
         \/ UNCHANGED <<issue, rows, cache, page>> /\ used'.syncs = used.syncs
  PROVE  OrderlyInv'
<1>1. PICK r \in Request : r \in used.of.handlers
  BY TheHandler
<1>2. \A s \in Request \ {r} : req[s].at = "idle"
  BY <1>1, OthersIdle
<1>3. PICK h : h = req[r]
  OBVIOUS
<1>4. View(h) /\ used \in Counts
  <2>1. View(req[r])
    BY <1>2, ViewOf
  <2> QED
    BY <1>3, <2>1 DEF TypeInv, TypeOK, Counts
<1>0. Mine(r, h)
  BY <1>2, <1>3 DEF Mine
<1> SUFFICES View(h)'
  BY <1>0, ViewBack
<1>5. CASE UNCHANGED <<issue, rows, cache, page>> /\ used'.syncs = used.syncs
  BY <1>4, <1>5 DEF View, NoOrphans, Existing, RowsOf
<1>6. CASE SyncBegin
  <2>1. UNCHANGED <<issue, rows, cache, page>> /\ used'.syncs = used.syncs + 1
        /\ used.syncs \in Nat
    BY <1>4, <1>6 DEF SyncBegin, Counts, database, cached
  <2> QED
    BY <1>4, <2>1 DEF View, NoOrphans, Existing, RowsOf
<1>7. CASE SyncFetch
  BY <1>4, <1>7 DEF View, NoOrphans, Existing, RowsOf, SyncFetch, database, cached
<1>8. CASE SyncCommit
  <2>1. UNCHANGED <<cache, page>> /\ used.syncs # 0 /\ used'.syncs = used.syncs
    BY <1>4, <1>8 DEF SyncCommit, cached, Counts, TypeInv, SyncCounted
  <2>2. CASE UNCHANGED <<issue, rows>>
    BY <1>4, <2>1, <2>2 DEF View, NoOrphans, Existing, RowsOf
  <2>3. CASE SyncWrites
    <3>1. \A i \in Wanted : [rev |-> sync.linear[i].rev, project |-> sync.linear[i].project] # None
      <4>1. ASSUME NEW i \in Wanted
            PROVE  [rev |-> sync.linear[i].rev, project |-> sync.linear[i].project] \in Row
        BY <4>1 DEF Wanted, TypeInv, TypeOK, LinearIssue, Row
      <4> QED
        BY <4>1, IssueFeedAssumption
    <3>2. Existing' = Existing \cup Wanted
      BY <2>3, <3>1 DEF SyncWrites, Existing, Wanted
    <3>3. \A x \in rows' : x \in rows \/ x.issue \in Wanted
      BY <2>3 DEF SyncWrites, Relabelled
    <3>4. \A i \in Issue : NoOrphans(i)'
      BY <1>4, <3>2, <3>3 DEF View, NoOrphans, RowsOf
    <3> QED
      BY <1>4, <2>1, <3>2, <3>4 DEF View
  <2> QED
    BY <1>8, <2>2, <2>3 DEF SyncCommit
<1>9. CASE Expire
  <2>1. UNCHANGED <<issue, rows>> /\ used'.syncs = used.syncs /\ page' \in {page, None}
    BY <1>9 DEF Expire, database
  <2>2. \A i \in Issue : cache'[i] \in {cache[i], None}
    BY <1>9 DEF Expire, TypeInv, TypeOK
  <2>3. Existing' = Existing
    BY <2>1 DEF Existing
  <2> QED
    BY <1>4, <2>1, <2>2, <2>3 DEF View, NoOrphans, RowsOf
<1> QED
  BY <1>5, <1>6, <1>7, <1>8, <1>9

LEMMA OrderlyDeliver ==
  ASSUME TypeInv, OrderlyInv, Orderly, NEW r \in Request, NEW n \in DOMAIN net,
         NEW again \in BOOLEAN, Deliver(r, n, again)
  PROVE  OrderlyInv'
<1>1. PICK h : req' = [req EXCEPT ![r] = h] /\ h.at = Entry(net[n])
  BY Arrival
<1>2. h.at \in {"ensure", "exists", "removeFind"}
  <2>1. net \in Seq(Event)
    BY DEF TypeInv, TypeOK
  <2>2. net[n] \in Event
    BY <2>1
  <2> QED
    BY <1>1, <2>2, Entries
<1>3. Mine(r, h) /\ View(req[r]) /\ req[r].at = "idle"
  <2>1. r \in used.of.handlers /\ req[r].at = "idle"
    BY DEF Deliver, At
  <2>2. \A s \in Request \ {r} : req[s].at = "idle"
    BY <2>1, OthersIdle
  <2> QED
    BY <1>1, <2>1, <2>2, Alone, ViewOf
<1>4. UNCHANGED <<issue, rows, cache, page>> /\ used'.syncs = used.syncs
  <2>1. used \in Counts
    BY DEF TypeInv, TypeOK, Counts
  <2> QED
    BY <2>1 DEF Deliver, database, cached, Counts
<1>5. View(h)'
  BY <1>2, <1>3, <1>4, ViewSame DEF RowSteps
<1> QED
  BY <1>3, <1>5, ViewBack

LEMMA TypeNext == ASSUME TypeInv, [Next]_vars PROVE TypeInv' /\ used'.of = used.of
<1>1. TypeInv'
  BY Steps, TypeEdit, TypeDeliver, TypeHandle, TypeFail, TypeRemoveProject, TypeSynchronise,
     TypeExpire, TypeStutters
<1>2. used \in Counts
  BY DEF TypeInv, TypeOK, Counts
<1> SUFFICES used'.of = used.of
  BY <1>1
<1>3. ASSUME NEW r \in Request, Handle(r) PROVE used'.of = used.of
  BY <1>3, OwnWrites
<1>4. CASE Synchronise
  <2>1. CASE SyncBegin
    BY <1>2, <2>1 DEF SyncBegin, Counts
  <2>2. CASE SyncFetch \/ SyncCommit
    BY <2>2 DEF SyncFetch, SyncCommit
  <2>3. CASE SyncFail
    BY <1>2, <2>3 DEF SyncFail, Counts
  <2> QED
    BY <1>4, <2>1, <2>2, <2>3 DEF Synchronise
<1>5. CASE \E i \in Issue, action \in {"create", "update", "remove"},
              labels \in (SUBSET Label) \cup {None}, p \in Project \cup {None}, t \in Team :
              Edit(i, action, labels, p, t)
  BY <1>2, <1>5 DEF Edit, Counts
<1>6. CASE \E r \in Request, n \in DOMAIN net, again \in BOOLEAN : Deliver(r, n, again)
  BY <1>2, <1>6 DEF Deliver, Counts
<1>7. CASE \E r \in Request : Fail(r)
  BY <1>2, <1>7 DEF Fail, Counts
<1>8. CASE \E p \in Project : RemoveProject(p)
  BY <1>2, <1>8 DEF RemoveProject, Counts
<1>9. CASE Expire \/ UNCHANGED vars
  BY <1>9 DEF Expire, vars
<1>10. used'.of = used.of
  BY <1>3, <1>4, <1>5, <1>6, <1>7, <1>8, <1>9, Steps
<1> QED
  BY <1>1, <1>10

LEMMA OrderlyNext ==
  ASSUME TypeInv, OrderlyInv, [Next]_vars
  PROVE  OrderlyInv'
<1>1. Orderly' <=> Orderly
  BY TypeNext DEF Orderly
<1> SUFFICES ASSUME Orderly PROVE OrderlyInv'
  BY <1>1 DEF OrderlyInv
<1> USE DEF database, cached
<1>2. used \in Counts
  BY DEF TypeInv, TypeOK, Counts
<1>3. CASE \E i \in Issue, action \in {"create", "update", "remove"},
              labels \in (SUBSET Label) \cup {None}, p \in Project \cup {None}, t \in Team :
              Edit(i, action, labels, p, t)
  <2>1. UNCHANGED <<issue, rows, cache, page, req>> /\ used'.syncs = used.syncs
    BY <1>2, <1>3 DEF Edit, Counts
  <2> QED
    BY <2>1, OrderlyOther
<1>4. CASE \E r \in Request, n \in DOMAIN net, again \in BOOLEAN : Deliver(r, n, again)
  BY <1>4, OrderlyDeliver
<1>5. CASE \E r \in Request : Handle(r)
  BY <1>5, OrderlyHandle
<1>6. CASE Synchronise
  <2>1. UNCHANGED req
    BY <1>6 DEF Synchronise, SyncBegin, SyncFetch, SyncCommit, SyncFail
  <2> QED
    BY <1>6, <2>1, NothingFails, OrderlyOther DEF Synchronise
<1>7. CASE Expire
  BY <1>7, OrderlyOther DEF Expire
<1>8. CASE UNCHANGED vars
  BY <1>8, OrderlyOther DEF vars
<1> QED
  BY <1>3, <1>4, <1>5, <1>6, <1>7, <1>8, Steps, NothingFails

LEMMA OrderlyInit == ASSUME Init PROVE OrderlyInv
<1>1. \A r \in Request : req[r].at = "idle"
  BY IdleSound DEF Init
<1> QED
  BY <1>1 DEF Init, OrderlyInv, RowThere, RowSteps, NoOrphans, RowsOf, Forgotten, PageTrue, At, Existing

\* issue-cache.service.ts: with webhooks in order and handled one by one, once all
\* is quiet no key issue:<id> is left of an issue that is gone, and the pages list
\* the issues there are: every write that changes what a key stands for is followed
\* by the call that drops the key, and no fill of a cache is older than that call.
THEOREM CachesAreForgotten == Spec => []CachesForget
<1>1. TypeInv /\ OrderlyInv => CachesForget
  <2> SUFFICES ASSUME TypeInv, OrderlyInv, Orderly, Quiet
               PROVE  /\ \A i \in Issue \ Existing : cache[i] = None
                      /\ used.syncs = 0 => page \in {None, Existing}
    BY DEF CachesForget
  <2> QED
    BY DEF Quiet, At, OrderlyInv, Forgotten, PageTrue, On
<1>2. TypeInv /\ OrderlyInv /\ [Next]_vars => TypeInv' /\ OrderlyInv'
  BY TypeNext, OrderlyNext
<1> QED
  BY <1>1, <1>2, TypeInit, OrderlyInit, PTL DEF Spec

(***************************************************************************)
(* One handler: the mirror                                                 *)
(***************************************************************************)
\* W are the webhooks on their way.  What can be said of one among them.
Setter(e) == e.action = "create" \/ e.labels # None
SetTo(e) == IF e.labels = None THEN {} ELSE e.labels

Earliest(W, f) == f \in W /\ \A g \in W : g.issue = f.issue => f.rev <= g.rev
Latest(W, f) == f \in W /\ \A g \in W : g.issue = f.issue => g.rev <= f.rev
LatestSetter(W, f) ==
    f \in W /\ Setter(f) /\ \A g \in W : g.issue = f.issue /\ Setter(g) => g.rev <= f.rev

\* g comes next after f, and how two webhooks follow each other.
Adjacent(W, f, g) ==
    /\ f \in W /\ g \in W /\ f.issue = g.issue /\ f.rev < g.rev
    /\ \A x \in W : x.issue = f.issue => x.rev <= f.rev \/ g.rev <= x.rev
Follows(e, f) == f.action = "create" <=> e.action = "remove"

\* Of a handler's webhook: no other waits for the issue, or none that brings labels.
Final(W, e) == \A f \in W : f.issue = e.issue => SameAs(e, f)
FinalSetter(W, e) == Setter(e) /\ \A f \in W : f.issue = e.issue /\ Setter(f) => SameAs(e, f)

\* What a webhook says of its issue in Linear, lin, that no later one takes back.
LastWord(lin, e) ==
    /\ lin[e.issue] # None <=> e.action # "remove"
    /\ lin[e.issue] # None => lin[e.issue].rev = e.rev
LastLabels(lin, e) == lin[e.issue] # None => lin[e.issue].labels = SetTo(e)

\* After a removal an issue is in Linear only if somebody created it again.
CreatedAgain(W, lin, e) ==
    e.action = "remove" /\ lin[e.issue] # None =>
        \E g \in W : g.issue = e.issue /\ g.action = "create" /\ e.rev < g.rev

WaitingTrue(W, lin, edits) ==
    /\ \A f, g \in W : f.rev = g.rev => f = g
    /\ \A f \in W :
           /\ f.rev <= edits
           /\ f.action = "remove" => f.labels = None
           /\ Latest(W, f) => LastWord(lin, f)
           /\ LatestSetter(W, f) => LastLabels(lin, f)
           /\ CreatedAgain(W, lin, f)
    /\ \A f, g \in W : Adjacent(W, f, g) => Follows(f, g)

\* The same of the webhook that is being handled; it may wait once more itself.
HandledTrue(W, lin, edits, e) ==
    /\ e.rev <= edits
    /\ e.action = "remove" => e.labels = None
    /\ \A f \in W : f.issue = e.issue /\ Earliest(W, f) => SameAs(e, f) \/ Follows(e, f)
    /\ Final(W, e) => LastWord(lin, e)
    /\ FinalSetter(W, e) => LastLabels(lin, e)
    /\ CreatedAgain(W, lin, e)

---------------------------------------------------------------------------
\* The handler h has still to write the row of i, to write its labels, to delete
\* or to insert it.
InsertSteps == {"ensure", "unassigned", "insert"}
BeforeRow == InsertSteps \cup {"exists", "update", "removeFind", "removeDelete"}
BeforeLabels == InsertSteps \cup {"cacheNew", "exists", "update"} \cup LabelSteps

RowDue(h, i) == h.at \in BeforeRow /\ h.ev.issue = i
LabelsDue(h, i) == h.at \in BeforeLabels /\ h.ev.issue = i /\ Setter(h.ev)
RemovalDue(h, i) == h.at \in {"removeFind", "removeDelete"} /\ h.ev.issue = i
InsertDue(h, i) == h.at \in InsertSteps /\ h.ev.issue = i

\* l: the issue in Linear; row, labels: what the database has of it.
Shown(l, labels) == l # None => labels = l.labels

\* What no webhook is going to change any more is as in Linear.  Where the next
\* webhook creates the issue and its row is there, a synchronisation was first.
IssueTrue(W, h, i, l, row, labels) ==
    /\ (\A f \in W : f.issue # i) /\ ~RowDue(h, i) =>
           /\ row # None <=> l # None
           /\ l # None => row.rev = l.rev
    /\ (\A f \in W : f.issue = i => ~Setter(f)) /\ ~LabelsDue(h, i) => Shown(l, labels)
    /\ \A f \in W : f.issue = i /\ Earliest(W, f) =>
           /\ f.action = "create" /\ row # None /\ ~RemovalDue(h, i) =>
                  /\ Latest(W, f) /\ ~RowDue(h, i) => row.rev = f.rev
                  /\ LatestSetter(W, f) /\ ~LabelsDue(h, i) => Shown(l, labels)
           /\ f.action = "update" => row # None \/ InsertDue(h, i)

\* What a handler is about to write is not there yet, or is right already.
\* own: the label rows of its issue; there: the projects.
StepTrue(W, h, l, row, own, there) ==
    LET e == h.ev
        labels == {x.label : x \in own} IN
    /\ h.at \in InsertSteps =>
           /\ e.action = "create" /\ e.project \in there \cup {None}
           /\ row # None /\ Final(W, e) => row.rev = e.rev
           /\ row # None /\ FinalSetter(W, e) => Shown(l, labels)
    /\ h.at = "unassigned" => there = {}
    /\ h.at = "insert" => e.project # None
    /\ h.at = "cacheNew" =>
           /\ e.action = "create"
           /\ FinalSetter(W, e) /\ l # None => labels \subseteq l.labels
    /\ h.at = "exists" => row # None
    /\ h.at \in {"exists", "update"} => e.action = "update" /\ e.project \in there \cup {None}
    /\ h.at = "labelsDelete" /\ FinalSetter(W, e) => own = h.snap \/ Shown(l, labels)
    /\ h.at = "labelsWrite" /\ FinalSetter(W, e) =>
           own = {x \in h.snap : x.label \in e.labels} \/ Shown(l, labels)

Waiting == {net[n] : n \in DOMAIN net}

\* Webhooks are sent in the order of the edits, and name projects that are known.
NetTrue ==
    /\ \A m, n \in DOMAIN net : m < n => net[m].rev < net[n].rev
    /\ \A f \in Waiting : f.project \in (Project \ {Unassigned}) \cup {None}
    /\ Project \ {Unassigned} \subseteq projects

Mirror(h) ==
    /\ NetTrue
    /\ WaitingTrue(Waiting, linear, used.edits)
    /\ h.at \in WebhookSteps =>
           LET i == h.ev.issue IN
           /\ HandledTrue(Waiting, linear, used.edits, h.ev)
           /\ StepTrue(Waiting, h, linear[i], issue[i], RowsOf(i), projects)
    /\ \A i \in Issue : IssueTrue(Waiting, h, i, linear[i], issue[i], LabelsOf(i))

Serving == {req[r] : r \in used.of.handlers}

MirrorInv ==
    Orderly /\ ProjectsKnown /\ TeamsKnown /\ "edit" \notin overran =>
        \A h \in Serving : Mirror(h)

\* The rows of an issue are those that the handler saw, less those it deletes, and
\* no label has two, unless a synchronisation has written labels next to a handler.
SeenRows(h) ==
    /\ h.at = "labelsDelete" => RowsOf(h.ev.issue) = h.snap
    /\ h.at = "labelsWrite" => RowsOf(h.ev.issue) = {x \in h.snap : x.label \in h.ev.labels}

NoTwins == \A x, y \in rows : x.issue = y.issue /\ x.label = y.label => x = y

SingleRows ==
    Orderly /\ "labels" \notin overran => NoTwins /\ \A h \in Serving : SeenRows(h)

---------------------------------------------------------------------------
\* Somebody edits an issue: f is sent, with a number higher than those before.
Edited(lin, lin2, f) ==
    LET i == f.issue
        old == IF lin[i] = None THEN {} ELSE lin[i].labels IN
    /\ f.action = "create" <=> lin[i] = None
    /\ f.action = "remove" => f.labels = None
    /\ \A j \in Issue \ {i} : lin2[j] = lin[j]
    /\ lin2[i] # None <=> f.action # "remove"
    /\ lin2[i] # None => lin2[i].rev = f.rev
    /\ lin2[i] # None => lin2[i].labels = IF f.labels = None THEN old ELSE f.labels

LEMMA EditWaiting ==
  ASSUME NEW W \in SUBSET Event, NEW lin, NEW lin2, NEW edits \in Nat,
         WaitingTrue(W, lin, edits), NEW f \in Event, f.rev = edits + 1, Edited(lin, lin2, f)
  PROVE  WaitingTrue(W \cup {f}, lin2, edits + 1)
<1> DEFINE i == f.issue
           V == W \cup {f}
<1>1. \A g \in V : g.rev \in Nat /\ g.issue \in Issue /\ g.action \in {"create", "update", "remove"}
  BY DEF Event
<1>2. \A g \in W : g.rev <= edits /\ g.rev < f.rev
  BY <1>1 DEF WaitingTrue
<1>3. \A g, x \in V : g.rev = x.rev => g = x
  BY <1>1, <1>2 DEF WaitingTrue
<1>4. ASSUME NEW g \in V, Latest(V, g) PROVE LastWord(lin2, g)
  <2>1. CASE g.issue # i
    BY <1>1, <1>4, <2>1 DEF Latest, LastWord, Edited, WaitingTrue
  <2>2. CASE g.issue = i
    <3>1. g = f
      BY <1>1, <1>2, <1>4, <2>2 DEF Latest
    <3> QED
      BY <3>1 DEF Edited, LastWord
  <2> QED
    BY <2>1, <2>2
<1>5. ASSUME NEW g \in V, LatestSetter(V, g) PROVE LastLabels(lin2, g)
  <2>1. CASE g.issue # i
    BY <1>1, <1>5, <2>1 DEF LatestSetter, LastLabels, Edited, WaitingTrue
  <2>2. CASE g = f
    BY <1>5, <2>2 DEF LatestSetter, Setter, SetTo, LastLabels, Edited
  <2>3. CASE g.issue = i /\ g # f
    <3>1. ~Setter(f)
      BY <1>1, <1>2, <1>5, <2>3 DEF LatestSetter
    <3>2. LatestSetter(W, g) /\ g \in W
      BY <1>5, <2>3 DEF LatestSetter
    <3>3. LastLabels(lin, g)
      BY <3>2 DEF WaitingTrue
    <3> QED
      BY <2>3, <3>1, <3>3 DEF Setter, LastLabels, Edited
  <2> QED
    BY <2>1, <2>2, <2>3
<1>6. ASSUME NEW g \in V PROVE CreatedAgain(V, lin2, g)
  <2>1. SUFFICES ASSUME g.action = "remove", lin2[g.issue] # None
                 PROVE  \E x \in V : x.issue = g.issue /\ x.action = "create" /\ g.rev < x.rev
    BY DEF CreatedAgain
  <2>2. g # f /\ g \in W
    BY <2>1 DEF Edited
  <2>3. CASE lin[g.issue] # None
    BY <2>1, <2>2, <2>3 DEF WaitingTrue, CreatedAgain
  <2>4. CASE lin[g.issue] = None
    <3>1. g.issue = i
      BY <1>1, <2>1, <2>4 DEF Edited
    <3> QED
      BY <1>2, <2>2, <2>4, <3>1 DEF Edited
  <2> QED
    BY <2>3, <2>4
<1>7. ASSUME NEW g \in V, NEW x \in V, Adjacent(V, g, x) PROVE Follows(g, x)
  <2>1. g \in W
    BY <1>1, <1>2, <1>7 DEF Adjacent
  <2>2. CASE x \in W
    BY <1>7, <2>1, <2>2 DEF Adjacent, WaitingTrue
  <2>3. CASE x = f
    <3>1. Latest(W, g) /\ g.issue = i
      <4>1. ASSUME NEW y \in W, y.issue = g.issue PROVE y.rev <= g.rev
        BY <1>1, <1>2, <1>7, <2>3, <4>1 DEF Adjacent
      <4> QED
        BY <1>7, <2>1, <2>3, <4>1 DEF Adjacent, Latest
    <3>2. LastWord(lin, g)
      BY <2>1, <3>1 DEF WaitingTrue
    <3> QED
      BY <2>3, <3>1, <3>2 DEF LastWord, Edited, Follows
  <2> QED
    BY <2>2, <2>3
<1>8. \A g \in V : g.rev <= edits + 1 /\ (g.action = "remove" => g.labels = None)
  BY <1>1, <1>2 DEF WaitingTrue, Edited
<1> QED
  BY <1>3, <1>4, <1>5, <1>6, <1>7, <1>8 DEF WaitingTrue

LEMMA EditHandled ==
  ASSUME NEW W \in SUBSET Event, NEW lin, NEW lin2, NEW edits \in Nat, NEW e \in Event,
         WaitingTrue(W, lin, edits), HandledTrue(W, lin, edits, e), NEW f \in Event, f.rev = edits + 1, Edited(lin, lin2, f)
  PROVE  /\ HandledTrue(W \cup {f}, lin2, edits + 1, e)
         /\ f.issue = e.issue => ~Final(W \cup {f}, e)
         /\ Final(W \cup {f}, e) => Final(W, e)
         /\ FinalSetter(W \cup {f}, e) => FinalSetter(W, e) /\ (f.issue = e.issue => ~Setter(f))
<1> DEFINE V == W \cup {f}
<1>1. /\ e.rev \in Nat /\ e.rev < f.rev /\ e.rev <= edits + 1 /\ e.issue \in Issue
      /\ ~SameAs(e, f)
  BY DEF HandledTrue, Event, SameAs
<1>2. /\ f.issue = e.issue => ~Final(V, e)
      /\ Final(V, e) => Final(W, e)
      /\ FinalSetter(V, e) => FinalSetter(W, e) /\ (f.issue = e.issue => ~Setter(f))
  BY <1>1 DEF Final, FinalSetter
<1>3. ASSUME NEW g \in V, g.issue = e.issue, Earliest(V, g) PROVE SameAs(e, g) \/ Follows(e, g)
  <2>1. CASE g \in W
    BY <1>3, <2>1 DEF Earliest, HandledTrue
  <2>2. CASE g = f
    <3>1. \A x \in W : x.issue # e.issue
      BY <1>3, <2>2 DEF Earliest, WaitingTrue, Event
    <3>2. LastWord(lin, e) /\ f.issue = e.issue
      BY <1>3, <2>2, <3>1 DEF Final, HandledTrue
    <3> QED
      BY <2>2, <3>2 DEF LastWord, Edited, Follows
  <2> QED
    BY <2>1, <2>2
<1>4. ASSUME Final(V, e) PROVE LastWord(lin2, e)
  <2>1. Final(W, e) /\ f.issue # e.issue
    BY <1>2, <1>4
  <2> QED
    BY <1>1, <2>1 DEF HandledTrue, LastWord, Edited
<1>5. ASSUME FinalSetter(V, e) PROVE LastLabels(lin2, e)
  <2>1. FinalSetter(W, e) /\ (f.issue = e.issue => ~Setter(f)) /\ LastLabels(lin, e)
    BY <1>2, <1>5 DEF HandledTrue
  <2> QED
    BY <1>1, <2>1 DEF Setter, LastLabels, Edited
<1>6. CreatedAgain(V, lin2, e)
  <2>1. CASE lin[e.issue] # None
    BY <2>1 DEF HandledTrue, CreatedAgain
  <2>2. CASE lin[e.issue] = None
    BY <1>1, <2>2 DEF CreatedAgain, Edited
  <2> QED
    BY <2>1, <2>2
<1>7. e.action = "remove" => e.labels = None
  BY DEF HandledTrue
<1> HIDE DEF V
<1> QED
  BY <1>1, <1>2, <1>3, <1>4, <1>5, <1>6, <1>7 DEF HandledTrue, V

\* The first webhook of all is delivered, for good or to come again.
LEMMA DeliverWaiting ==
  ASSUME NEW W \in SUBSET Event, NEW lin, NEW edits \in Nat, WaitingTrue(W, lin, edits),
         NEW f \in W, \A g \in W : f.rev <= g.rev, NEW V, V = W \/ V = W \ {f}
  PROVE  /\ WaitingTrue(V, lin, edits)
         /\ HandledTrue(V, lin, edits, f)
         /\ Earliest(W, f)
         /\ Final(V, f) => Latest(W, f)
         /\ FinalSetter(V, f) => LatestSetter(W, f)
         /\ \A g \in V : g.issue = f.issue /\ Earliest(V, g) => g = f \/ Adjacent(W, f, g)
<1>1. /\ V \subseteq W /\ f \in Event /\ Earliest(W, f)
      /\ \A g \in W : g.rev \in Nat /\ (g = f \/ f.rev < g.rev)
  <2>1. \A g \in W : g.rev \in Nat
    BY DEF Event
  <2> QED
    BY <2>1 DEF WaitingTrue, Earliest
<1>2. ASSUME V = W \ {f}, NEW g \in V
      PROVE  /\ Latest(V, g) => Latest(W, g)
             /\ LatestSetter(V, g) => LatestSetter(W, g)
             /\ CreatedAgain(V, lin, g)
             /\ \A x \in V : Adjacent(V, g, x) => Adjacent(W, g, x)
  <2>1. g \in W /\ f.rev < g.rev /\ f.rev \in Nat /\ g.rev \in Nat
    BY <1>1, <1>2
  <2>2. Latest(V, g) => Latest(W, g)
    BY <1>1, <1>2, <2>1 DEF Latest
  <2>3. LatestSetter(V, g) => LatestSetter(W, g)
    BY <1>1, <1>2, <2>1 DEF LatestSetter
  <2>4. CreatedAgain(V, lin, g)
    <3>1. CreatedAgain(W, lin, g)
      BY <2>1 DEF WaitingTrue
    <3>2. ~(g.rev < f.rev)
      BY <2>1
    <3> QED
      BY <1>2, <3>1, <3>2 DEF CreatedAgain
  <2>5. \A x \in V : Adjacent(V, g, x) => Adjacent(W, g, x)
    BY <1>1, <1>2, <2>1 DEF Adjacent
  <2> QED
    BY <2>2, <2>3, <2>4, <2>5
<1>3. WaitingTrue(V, lin, edits)
  <2>1. CASE V = W
    BY <2>1
  <2>2. CASE V = W \ {f}
    BY <1>1, <1>2, <2>2 DEF WaitingTrue
  <2> QED
    BY <2>1, <2>2
<1>4. Final(V, f) => Latest(W, f)
  <2>1. \A g \in V : SameAs(f, g) => g = f
    BY <1>1 DEF SameAs, WaitingTrue
  <2> QED
    BY <1>1, <2>1 DEF Final, Latest
<1>5. FinalSetter(V, f) => LatestSetter(W, f)
  <2>1. \A g \in V : SameAs(f, g) => g = f
    BY <1>1 DEF SameAs, WaitingTrue
  <2> QED
    BY <1>1, <2>1 DEF FinalSetter, LatestSetter
<1>6. ASSUME NEW g \in V, g.issue = f.issue, Earliest(V, g)
      PROVE  g = f \/ Adjacent(W, f, g)
  <2>1. CASE g # f
    <3>1. \A x \in W : x.issue = f.issue => x.rev <= f.rev \/ g.rev <= x.rev
      BY <1>1, <1>6 DEF Earliest
    <3> QED
      BY <1>1, <1>6, <2>1, <3>1 DEF Adjacent
  <2> QED
    BY <2>1
<1>7. HandledTrue(V, lin, edits, f)
  <2>1. f.rev <= edits /\ (f.action = "remove" => f.labels = None)
    BY DEF WaitingTrue
  <2>2. \A g \in V : g.issue = f.issue /\ Earliest(V, g) => SameAs(f, g) \/ Follows(f, g)
    BY <1>1, <1>6 DEF SameAs, WaitingTrue
  <2>3. Final(V, f) => LastWord(lin, f)
    BY <1>4 DEF WaitingTrue
  <2>4. FinalSetter(V, f) => LastLabels(lin, f)
    BY <1>5 DEF WaitingTrue
  <2>5. CreatedAgain(V, lin, f)
    <3>1. CreatedAgain(W, lin, f) /\ ~(f.rev < f.rev)
      BY <1>1 DEF WaitingTrue
    <3> QED
      BY <1>1, <3>1 DEF CreatedAgain
  <2> QED
    BY <2>1, <2>2, <2>3, <2>4, <2>5 DEF HandledTrue
<1> QED
  BY <1>1, <1>3, <1>4, <1>5, <1>6, <1>7

\* The webhook of a handler that creates an issue, waiting once more.
LEMMA WaitsAgain ==
  ASSUME NEW W \in SUBSET Event, NEW lin, NEW edits \in Nat, WaitingTrue(W, lin, edits),
         NEW e \in Event, HandledTrue(W, lin, edits, e), e.action # "remove",
         NEW f \in W, f.issue = e.issue, Earliest(W, f), f.action = "create"
  PROVE  /\ SameAs(e, f)
         /\ Latest(W, f) => Final(W, e)
         /\ LatestSetter(W, f) => FinalSetter(W, e)
<1>1. SameAs(e, f)
  BY DEF HandledTrue, Follows
<1>2. \A g \in W : g.rev \in Nat
  BY DEF Event
<1>3. Latest(W, f) => Final(W, e)
  BY <1>1, <1>2 DEF Latest, Earliest, Final, WaitingTrue
<1>4. LatestSetter(W, f) => FinalSetter(W, e)
  BY <1>1, <1>2 DEF LatestSetter, Earliest, FinalSetter, Setter, SameAs, WaitingTrue
<1> QED
  BY <1>1, <1>3, <1>4

---------------------------------------------------------------------------
\* The handler has as much to do as before.
LEMMA IssueSame ==
  ASSUME NEW W, NEW h, NEW k, NEW i, NEW l, NEW row, NEW labels,
         IssueTrue(W, h, i, l, row, labels),
         RowDue(h, i) => RowDue(k, i), LabelsDue(h, i) => LabelsDue(k, i),
         RemovalDue(h, i) => RemovalDue(k, i), InsertDue(h, i) => InsertDue(k, i)
  PROVE  IssueTrue(W, k, i, l, row, labels)
  BY Zenon DEF IssueTrue

\* The row is written, and perhaps the labels are, too.
LEMMA RowWritten ==
  ASSUME NEW W \in SUBSET Event, NEW lin, NEW edits \in Nat, WaitingTrue(W, lin, edits),
         NEW e \in Event, HandledTrue(W, lin, edits, e), e.action # "remove",
         NEW k, NEW row, NEW labels, row # None, Final(W, e) => row.rev = e.rev,
         \/ LabelsDue(k, e.issue)
         \/ FinalSetter(W, e) => Shown(lin[e.issue], labels),
         ~Setter(e) /\ (\A f \in W : f.issue = e.issue => ~Setter(f)) => Shown(lin[e.issue], labels)
  PROVE  IssueTrue(W, k, e.issue, lin[e.issue], row, labels)
<1> DEFINE i == e.issue
           l == lin[i]
<1>1. ASSUME \A f \in W : f.issue # i PROVE (row # None <=> l # None) /\ (l # None => row.rev = l.rev)
  <2>1. Final(W, e) /\ LastWord(lin, e)
    BY <1>1 DEF Final, HandledTrue
  <2> QED
    BY <2>1 DEF LastWord
<1>2. ASSUME \A f \in W : f.issue = i => ~Setter(f), ~LabelsDue(k, i) PROVE Shown(l, labels)
  <2>1. Setter(e) => FinalSetter(W, e)
    BY <1>2 DEF FinalSetter
  <2> QED
    BY <1>2, <2>1
<1>3. ASSUME NEW f \in W, f.issue = i, Earliest(W, f), f.action = "create"
      PROVE  /\ Latest(W, f) => row.rev = f.rev
             /\ LatestSetter(W, f) /\ ~LabelsDue(k, i) => Shown(l, labels)
  <2>1. SameAs(e, f) /\ (Latest(W, f) => Final(W, e)) /\ (LatestSetter(W, f) => FinalSetter(W, e))
    BY <1>3, WaitsAgain
  <2> QED
    BY <2>1 DEF SameAs
<1> QED
  BY <1>1, <1>2, <1>3 DEF IssueTrue

\* The labels are written, after the row.
LEMMA LabelsWritten ==
  ASSUME NEW W \in SUBSET Event, NEW lin, NEW edits \in Nat, WaitingTrue(W, lin, edits),
         NEW e \in Event, HandledTrue(W, lin, edits, e), e.action # "remove", Setter(e),
         NEW h, ~RowDue(h, e.issue), NEW k, NEW row, NEW before, NEW labels, row # None,
         IssueTrue(W, h, e.issue, lin[e.issue], row, before),
         FinalSetter(W, e) => Shown(lin[e.issue], labels),
         ~RemovalDue(h, e.issue)
  PROVE  IssueTrue(W, k, e.issue, lin[e.issue], row, labels)
<1> DEFINE i == e.issue
           l == lin[i]
<1>1. ASSUME \A f \in W : f.issue # i PROVE (row # None <=> l # None) /\ (l # None => row.rev = l.rev)
  BY <1>1 DEF IssueTrue
<1>2. ASSUME \A f \in W : f.issue = i => ~Setter(f) PROVE Shown(l, labels)
  BY <1>2 DEF FinalSetter
<1>3. ASSUME NEW f \in W, f.issue = i, Earliest(W, f), f.action = "create"
      PROVE  /\ Latest(W, f) => row.rev = f.rev
             /\ LatestSetter(W, f) => Shown(l, labels)
  <2>1. LatestSetter(W, f) => FinalSetter(W, e)
    BY <1>3, WaitsAgain
  <2>2. Latest(W, f) => row.rev = f.rev
    BY <1>3 DEF IssueTrue
  <2> QED
    BY <2>1, <2>2
<1> QED
  BY <1>1, <1>2, <1>3 DEF IssueTrue

\* The row is deleted, or was not there.
LEMMA RowGone ==
  ASSUME NEW W \in SUBSET Event, NEW lin, NEW edits \in Nat,
         NEW e \in Event, HandledTrue(W, lin, edits, e), e.action = "remove",
         NEW k, NEW labels
  PROVE  IssueTrue(W, k, e.issue, lin[e.issue], None, labels)
<1>1. (\A f \in W : f.issue = e.issue => ~Setter(f)) => lin[e.issue] = None
  BY DEF HandledTrue, CreatedAgain, Setter
<1>2. ASSUME NEW f \in W, f.issue = e.issue, Earliest(W, f) PROVE f.action # "update"
  BY <1>2 DEF HandledTrue, SameAs, Follows
<1> QED
  BY <1>1, <1>2 DEF IssueTrue, Shown

\* The handler has filled in a project.
LEMMA HandledSame ==
  ASSUME NEW W, NEW lin, NEW edits, NEW e, NEW f, SameAs(e, f)
  PROVE  /\ HandledTrue(W, lin, edits, e) => HandledTrue(W, lin, edits, f)
         /\ Final(W, e) <=> Final(W, f)
         /\ FinalSetter(W, e) <=> FinalSetter(W, f)
<1>1. /\ e.rev = f.rev /\ e.action = f.action /\ e.issue = f.issue /\ e.labels = f.labels
      /\ \A g : SameAs(e, g) <=> SameAs(f, g)
      /\ \A g : Follows(e, g) <=> Follows(f, g)
  BY DEF SameAs, Follows
<1>2. /\ Final(W, e) <=> Final(W, f)
      /\ FinalSetter(W, e) <=> FinalSetter(W, f)
  BY <1>1 DEF Final, FinalSetter, Setter
<1>3. /\ LastWord(lin, e) => LastWord(lin, f)
      /\ LastLabels(lin, e) => LastLabels(lin, f)
      /\ CreatedAgain(W, lin, e) => CreatedAgain(W, lin, f)
  BY <1>1 DEF LastWord, LastLabels, SetTo, CreatedAgain
<1>4. HandledTrue(W, lin, edits, e) => HandledTrue(W, lin, edits, f)
  BY <1>1, <1>2, <1>3 DEF HandledTrue
<1> QED
  BY <1>2, <1>4

---------------------------------------------------------------------------
\* A step of the handler h, that makes k of it, and that writes its own issue.
Elsewhere(i) == \A j \in Issue \ {i} : issue'[j] = issue[j] /\ RowsOf(j)' = RowsOf(j)

LEMMA MirrorStep ==
  ASSUME NEW h, Mirror(h), h.at \in WebhookSteps, h.ev.issue \in Issue, NEW k,
         UNCHANGED <<net, linear, used>>, projects \subseteq projects', Elsewhere(h.ev.issue),
         \/ k.at = "idle"
         \/ /\ k.at \in WebhookSteps /\ SameAs(h.ev, k.ev)
            /\ StepTrue(Waiting, k, linear[h.ev.issue], issue'[h.ev.issue],
                        RowsOf(h.ev.issue)', projects'),
         IssueTrue(Waiting, k, h.ev.issue, linear[h.ev.issue], issue'[h.ev.issue],
                   LabelsOf(h.ev.issue)')
  PROVE  Mirror(k)'
<1> DEFINE i == h.ev.issue
<1>1. Waiting' = Waiting /\ NetTrue'
  BY DEF Waiting, Mirror, NetTrue
<1>2. ASSUME NEW j \in Issue, j # i
      PROVE  IssueTrue(Waiting, k, j, linear[j], issue'[j], LabelsOf(j)')
  <2>1. IssueTrue(Waiting, h, j, linear[j], issue[j], LabelsOf(j))
    BY DEF Mirror
  <2>2. ~RowDue(h, j) /\ ~LabelsDue(h, j) /\ ~RemovalDue(h, j) /\ ~InsertDue(h, j)
    BY <1>2 DEF RowDue, LabelsDue, RemovalDue, InsertDue
  <2>3. IssueTrue(Waiting, k, j, linear[j], issue[j], LabelsOf(j))
    BY <2>1, <2>2, IssueSame
  <2>4. issue'[j] = issue[j] /\ LabelsOf(j)' = LabelsOf(j)
    BY <1>2 DEF Elsewhere, LabelsOf
  <2> QED
    BY <2>3, <2>4
<1>3. ASSUME NEW j \in Issue PROVE IssueTrue(Waiting, k, j, linear[j], issue'[j], LabelsOf(j)')
  <2>1. CASE j = i
    BY <2>1
  <2>2. CASE j # i
    BY <1>2, <2>2
  <2> QED
    BY <2>1, <2>2
<1>4. ASSUME k.at \in WebhookSteps
      PROVE  /\ HandledTrue(Waiting, linear, used.edits, k.ev)
             /\ StepTrue(Waiting, k, linear[k.ev.issue], issue'[k.ev.issue], RowsOf(k.ev.issue)', projects')
  <2>1. SameAs(h.ev, k.ev) /\ k.ev.issue = i
    BY <1>4 DEF SameAs, WebhookSteps, Step
  <2>2. HandledTrue(Waiting, linear, used.edits, h.ev)
    BY DEF Mirror
  <2>3. HandledTrue(Waiting, linear, used.edits, k.ev)
    BY <2>1, <2>2, HandledSame
  <2> QED
    BY <1>4, <2>1, <2>3 DEF WebhookSteps, Step
<1>5. WaitingTrue(Waiting, linear, used.edits)
  BY DEF Mirror
<1> QED
  BY <1>1, <1>3, <1>4, <1>5 DEF Mirror

\* What a handler's step may rely on.
Ready(h) ==
    LET e == h.ev
        i == e.issue IN
    /\ h.at \in WebhookSteps /\ e \in Event /\ i \in Issue
    /\ h.at \in LabelSteps => e.labels \in SUBSET Label
    /\ h.at \in RemovalSteps <=> e.action = "remove"
    /\ h.at \in RowSteps => issue[i] # None
    /\ issue[i] = None => RowsOf(i) = {}
    /\ Waiting \in SUBSET Event /\ used.edits \in Nat
    /\ WaitingTrue(Waiting, linear, used.edits)
    /\ HandledTrue(Waiting, linear, used.edits, e)
    /\ StepTrue(Waiting, h, linear[i], issue[i], RowsOf(i), projects)
    /\ IssueTrue(Waiting, h, i, linear[i], issue[i], LabelsOf(i))

LEMMA Here ==
  ASSUME TypeInv, OrderlyInv, Orderly, NEW r \in Request, Handle(r),
         NEW h, h = req[r], h.at \in WebhookSteps, Mirror(h)
  PROVE  Ready(h) /\ r \in used.of.handlers /\ UNCHANGED <<net, linear, used>>
<1>1. Sound(h) /\ r \in used.of.handlers /\ UNCHANGED <<net, linear, used>>
  BY HandleMine, OwnWrites DEF TypeInv, HandlersSound, environment
<1>2. h.ev \in Event /\ h.ev.issue \in Issue
  BY <1>1 DEF Sound, Event
<1>3. Waiting \in SUBSET Event
  <2>1. net \in Seq(Event)
    BY DEF TypeInv, TypeOK
  <2>2. \A n \in DOMAIN net : net[n] \in Event
    BY <2>1
  <2> QED
    BY <2>2 DEF Waiting
<1>4. used.edits \in Nat
  BY DEF TypeInv, TypeOK
<1>5. (h.at \in RowSteps => issue[h.ev.issue] # None) /\ NoOrphans(h.ev.issue)
  BY <1>2 DEF OrderlyInv, RowThere, Existing
<1> QED
  BY <1>1, <1>2, <1>3, <1>4, <1>5 DEF Ready, Sound, Mirror, NoOrphans, Existing

\* The database stays as it is.
LEMMA MirrorStays ==
  ASSUME NEW h, Mirror(h), Ready(h), NEW k, UNCHANGED <<net, linear, used, issue, rows>>,
         projects \subseteq projects',
         \/ k.at = "idle"
         \/ /\ k.at \in WebhookSteps /\ SameAs(h.ev, k.ev)
            /\ StepTrue(Waiting, k, linear[h.ev.issue], issue[h.ev.issue],
                        RowsOf(h.ev.issue), projects'),
         IssueTrue(Waiting, k, h.ev.issue, linear[h.ev.issue], issue[h.ev.issue],
                   LabelsOf(h.ev.issue))
  PROVE  Mirror(k)'
<1>1. \A j : RowsOf(j)' = RowsOf(j) /\ LabelsOf(j)' = LabelsOf(j) /\ issue'[j] = issue[j]
  BY DEF RowsOf, LabelsOf
<1>2. Elsewhere(h.ev.issue) /\ h.at \in WebhookSteps /\ h.ev.issue \in Issue
  BY <1>1 DEF Elsewhere, Ready
<1> QED
  BY <1>1, <1>2, MirrorStep

LEMMA MirrorInserts ==
  ASSUME TypeInv, OrderlyInv, Orderly, TeamsKnown, NEW r \in Request, Handle(r),
         NEW h, h = req[r], h.at \in WebhookSteps, Mirror(h),
         Ensure(r) \/ EnsureUnassigned(r) \/ Insert(r) \/ CacheNew(r)
  PROVE  \E k : Mine(r, k) /\ Mirror(k)'
<1> DEFINE e == h.ev
           i == e.issue
           own == RowsOf(i)
<1>1. Ready(h) /\ r \in used.of.handlers /\ UNCHANGED <<net, linear, used>>
  BY Here
<1>2. /\ StepTrue(Waiting, h, linear[i], issue[i], own, projects)
      /\ IssueTrue(Waiting, h, i, linear[i], issue[i], LabelsOf(i))
      /\ e \in Event /\ i \in Issue
  BY <1>1 DEF Ready
<1> USE DEF At, database, cached
<1>3. CASE Ensure(r)
  <2>1. h.at = "ensure" /\ UNCHANGED <<projects, issue, rows>>
    BY <1>3 DEF Ensure
  <2>2. PICK k : /\ Mine(r, k) /\ k.at \in {"insert", "unassigned"}
                 /\ SameAs(e, k.ev)
                 /\ k.at = "insert" => k.ev.project \in projects \/ k.ev.project = e.project
                 /\ k.at = "insert" => k.ev.project # None
                 /\ k.at = "unassigned" => k.ev.project = None /\ projects = {}
    BY <1>3, EnsureMoves
  <2>3. StepTrue(Waiting, k, linear[i], issue[i], own, projects)
    BY <1>2, <2>1, <2>2, HandledSame DEF StepTrue, InsertSteps, SameAs
  <2>4. IssueTrue(Waiting, k, i, linear[i], issue[i], LabelsOf(i))
    BY <1>2, <2>1, <2>2, IssueSame DEF RowDue, LabelsDue, RemovalDue, InsertDue, InsertSteps,
       BeforeRow, BeforeLabels, SameAs, Setter
  <2> QED
    BY <1>1, <2>1, <2>2, <2>3, <2>4, MirrorStays DEF WebhookSteps, Step
<1>4. CASE EnsureUnassigned(r)
  <2>1. h.at = "unassigned" /\ projects = {} /\ UNCHANGED <<issue, rows>>
    BY <1>2, <1>4 DEF EnsureUnassigned, StepTrue
  <2>2. /\ req' = [req EXCEPT ![r].at = "insert", ![r].ev.project = Unassigned]
        /\ projects' = {Unassigned}
    BY <1>2, <1>4, <2>1 DEF EnsureUnassigned, TeamsKnown, Event
  <2>3. PICK k : Mine(r, k) /\ k.at = "insert" /\ SameAs(e, k.ev) /\ k.ev.project = Unassigned
    BY <1>4, <2>2, UnassignedMoves
  <2>4. StepTrue(Waiting, k, linear[i], issue[i], own, projects')
    <3>1. Unassigned # None
      BY IssueFeedAssumption
    <3> QED
      BY <1>2, <2>1, <2>2, <2>3, <3>1, HandledSame DEF StepTrue, InsertSteps, SameAs
  <2>5. IssueTrue(Waiting, k, i, linear[i], issue[i], LabelsOf(i))
    BY <1>2, <2>1, <2>3, IssueSame DEF RowDue, LabelsDue, RemovalDue, InsertDue, InsertSteps,
       BeforeRow, BeforeLabels, SameAs, Setter
  <2> QED
    BY <1>1, <2>1, <2>2, <2>3, <2>4, <2>5, MirrorStays DEF WebhookSteps, Step
<1>5. CASE Insert(r) /\ issue[i] # None
  <2>1. h.at = "insert" /\ Done(r) /\ UNCHANGED <<projects, issue, rows>>
    BY <1>5 DEF Insert
  <2>2. /\ e.action = "create" /\ (Final(Waiting, e) => issue[i].rev = e.rev)
        /\ FinalSetter(Waiting, e) => Shown(linear[i], LabelsOf(i))
    BY <1>2, <1>5, <2>1 DEF StepTrue, InsertSteps, LabelsOf
  <2>3. IssueTrue(Waiting, Idle, i, linear[i], issue[i], LabelsOf(i))
    BY <1>1, <1>5, <2>2, RowWritten DEF Ready, Setter
  <2>4. Mine(r, Idle) /\ Idle.at = "idle"
    BY <1>1, <2>1, Finishes, IdleSound
  <2> QED
    BY <1>1, <2>1, <2>3, <2>4, MirrorStays
<1>6. CASE Insert(r) /\ issue[i] = None
  <2>1. /\ h.at = "insert" /\ e.action = "create" /\ e.project \in projects
        /\ own = {}
    BY <1>1, <1>2, <1>6 DEF Insert, StepTrue, InsertSteps, Ready
  <2> DEFINE row == [rev |-> e.rev, project |-> e.project]
  <2>2. /\ issue' = [issue EXCEPT ![i] = row] /\ Goto(r, "cacheNew")
        /\ UNCHANGED <<projects, rows>>
    BY <1>2, <1>6, <2>1 DEF Insert, TeamsKnown, Event
  <2>3. row \in Row /\ row # None /\ row.rev = e.rev
    BY <1>2, <2>1, IssueFeedAssumption DEF Row, Event, TypeInv, TypeOK
  <2> HIDE DEF row
  <2>4. PICK k : Mine(r, k) /\ Onward(h, k, "cacheNew")
    BY <1>1, <2>2, GoesOn
  <2>5. issue'[i] = row /\ RowsOf(i)' = {} /\ LabelsOf(i)' = {} /\ Elsewhere(i)
    BY <1>2, <2>1, <2>2 DEF TypeInv, TypeOK, RowsOf, LabelsOf, Elsewhere
  <2>6. StepTrue(Waiting, k, linear[i], row, {}, projects')
    BY <2>1, <2>4 DEF StepTrue, Onward, InsertSteps
  <2>7. IssueTrue(Waiting, k, i, linear[i], row, {})
    <3>1. LabelsDue(k, i)
      BY <2>1, <2>4 DEF LabelsDue, Onward, BeforeLabels, Setter
    <3> QED
      BY <1>1, <2>1, <2>3, <3>1, RowWritten DEF Ready, Setter
  <2>8. k.at \in WebhookSteps /\ SameAs(e, k.ev)
    BY <2>4 DEF Onward, WebhookSteps, Step, SameAs
  <2> QED
    BY <1>1, <2>2, <2>4, <2>5, <2>6, <2>7, <2>8, MirrorStep DEF Ready
<1>7. CASE CacheNew(r)
  <2>1. /\ h.at = "cacheNew" /\ e.action = "create" /\ Goto(r, AfterInsert(e))
        /\ UNCHANGED <<projects, issue, rows>>
        /\ issue[i] # None
    BY <1>1, <1>2, <1>7 DEF CacheNew, StepTrue, Ready, RowSteps
  <2>2. PICK k : Mine(r, k) /\ Onward(h, k, AfterInsert(e))
    BY <1>1, <2>1, GoesOn
  <2>3. k.at \in WebhookSteps /\ SameAs(e, k.ev) /\ k.at \in {"fetch", "labelsRead"}
    BY <2>2 DEF Onward, WebhookSteps, Step, SameAs, AfterInsert
  <2>4. StepTrue(Waiting, k, linear[i], issue[i], own, projects)
    BY <2>3 DEF StepTrue, InsertSteps
  <2>5. CASE k.at = "labelsRead"
    <3>1. IssueTrue(Waiting, k, i, linear[i], issue[i], LabelsOf(i))
      BY <1>2, <2>1, <2>2, <2>5, IssueSame DEF RowDue, LabelsDue, RemovalDue, InsertDue,
         InsertSteps, BeforeRow, BeforeLabels, LabelSteps, Onward
    <3> QED
      BY <1>1, <2>1, <2>2, <2>3, <2>4, <3>1, MirrorStays
  <2>6. CASE k.at = "fetch"
    <3>1. SetTo(e) = {}
      BY <2>2, <2>6 DEF Onward, AfterInsert, SetTo
    <3>2. FinalSetter(Waiting, e) => Shown(linear[i], LabelsOf(i))
      <4>1. SUFFICES ASSUME FinalSetter(Waiting, e), linear[i] # None
                     PROVE  LabelsOf(i) = linear[i].labels
        BY DEF Shown
      <4>2. linear[i].labels = {}
        BY <1>1, <3>1, <4>1 DEF Ready, HandledTrue, LastLabels
      <4>3. LabelsOf(i) \subseteq linear[i].labels
        BY <1>2, <2>1, <4>1 DEF StepTrue, LabelsOf
      <4> QED
        BY <4>2, <4>3
    <3>3. ~RowDue(h, i) /\ ~RemovalDue(h, i)
      BY <2>1 DEF RowDue, RemovalDue, BeforeRow, InsertSteps
    <3>4. IssueTrue(Waiting, k, i, linear[i], issue[i], LabelsOf(i))
      BY <1>1, <2>1, <3>2, <3>3, LabelsWritten DEF Ready, Setter
    <3> QED
      BY <1>1, <2>1, <2>2, <2>3, <2>4, <3>4, MirrorStays
  <2> QED
    BY <2>3, <2>5, <2>6
<1> QED
  BY <1>3, <1>4, <1>5, <1>6, <1>7

LEMMA MirrorUpdates ==
  ASSUME TypeInv, OrderlyInv, Orderly, TeamsKnown, NEW r \in Request, Handle(r),
         NEW h, h = req[r], h.at \in WebhookSteps, Mirror(h),
         Exists(r) \/ Update(r)
  PROVE  \E k : Mine(r, k) /\ Mirror(k)'
<1> DEFINE e == h.ev
           i == e.issue
           own == RowsOf(i)
<1>1. Ready(h) /\ r \in used.of.handlers /\ UNCHANGED <<net, linear, used>>
  BY Here
<1>2. /\ StepTrue(Waiting, h, linear[i], issue[i], own, projects)
      /\ IssueTrue(Waiting, h, i, linear[i], issue[i], LabelsOf(i))
      /\ e \in Event /\ i \in Issue
  BY <1>1 DEF Ready
<1> USE DEF At, database, cached
<1>3. CASE Exists(r)
  <2>1. /\ h.at = "exists" /\ UNCHANGED <<projects, issue, rows>>
        /\ issue[i] # None /\ e.action = "update" /\ e.project \in projects \cup {None}
    BY <1>2, <1>3 DEF Exists, StepTrue
  <2>2. PICK k : Mine(r, k) /\ Onward(h, k, "update")
    BY <1>3, <2>1, ExistsMoves
  <2>3. k.at \in WebhookSteps /\ SameAs(e, k.ev)
    BY <2>2 DEF Onward, WebhookSteps, Step, SameAs
  <2>4. StepTrue(Waiting, k, linear[i], issue[i], own, projects)
    BY <2>1, <2>2 DEF StepTrue, Onward, InsertSteps
  <2>5. IssueTrue(Waiting, k, i, linear[i], issue[i], LabelsOf(i))
    BY <1>2, <2>1, <2>2, IssueSame DEF RowDue, LabelsDue, RemovalDue, InsertDue, InsertSteps,
       BeforeRow, BeforeLabels, Onward
  <2> QED
    BY <1>1, <2>1, <2>2, <2>3, <2>4, <2>5, MirrorStays
<1>4. CASE Update(r)
  <2>1. h.at = "update" /\ e.action = "update" /\ CanUpdate(e)
    BY <1>1, <1>2, <1>4 DEF Update, StepTrue, Ready, RowSteps, CanUpdate, ProjectId, TeamsKnown,
       Event
  <2>2. issue' = Updated(e) /\ Goto(r, AfterUpdate(e)) /\ UNCHANGED <<projects, rows>>
    BY <1>4, <2>1 DEF Update
  <2>3. PICK k : Mine(r, k) /\ Onward(h, k, AfterUpdate(e))
    BY <1>1, <2>2, GoesOn
  <2>4. /\ issue'[i] # None /\ issue'[i].rev = e.rev
        /\ RowsOf(i)' = own /\ LabelsOf(i)' = LabelsOf(i) /\ Elsewhere(i)
    <3>1. issue' \in [Issue -> Row \cup {None}] /\ issue \in [Issue -> Row \cup {None}]
      BY OwnWrites DEF TypeInv, TypeOK
    <3>2. PICK p : issue' = [issue EXCEPT ![i] = [rev |-> e.rev, project |-> p]]
      BY <2>2 DEF Updated
    <3>3. issue'[i] = [rev |-> e.rev, project |-> p]
      BY <1>2, <3>1, <3>2
    <3>4. issue'[i] # None
      <4>1. issue[i] \in Row
        BY <1>2, <2>1, <3>1 DEF CanUpdate
      <4>2. issue'[i] = [rev |-> e.rev,
                         project |-> IF ProjectId(e) = None THEN issue[i].project
                                     ELSE ProjectId(e)]
        BY <1>2, <2>2, <3>1 DEF Updated
      <4>3. e.rev \in Nat
        BY <1>2 DEF Event
      <4>4. (IF ProjectId(e) = None THEN issue[i].project ELSE ProjectId(e)) \in Project
        BY <1>2, <2>1, <4>1 DEF CanUpdate, ProjectId, Row, Event
      <4>5. issue'[i] \in Row
        BY <4>2, <4>3, <4>4 DEF Row
      <4> QED
        BY <4>5, IssueFeedAssumption
    <3>5. RowsOf(i)' = own /\ LabelsOf(i)' = LabelsOf(i) /\ Elsewhere(i)
      BY <1>2, <2>2, <3>1, <3>2 DEF RowsOf, LabelsOf, Elsewhere
    <3> QED
      BY <3>3, <3>4, <3>5
  <2>5. k.at \in WebhookSteps /\ SameAs(e, k.ev) /\ k.ev = e
        /\ k.at = IF e.labels = None THEN "fetch" ELSE "labelsRead"
    BY <2>3 DEF Onward, WebhookSteps, Step, SameAs, AfterUpdate
  <2>6. StepTrue(Waiting, k, linear[i], issue'[i], own, projects')
    BY <2>5 DEF StepTrue, InsertSteps
  <2>7. IssueTrue(Waiting, k, i, linear[i], issue'[i], LabelsOf(i))
    <3>1. LabelsDue(k, i) \/ ~Setter(e)
      BY <2>1, <2>5 DEF LabelsDue, BeforeLabels, LabelSteps, Setter
    <3>2. ~Setter(e) /\ (\A f \in Waiting : f.issue = i => ~Setter(f))
             => Shown(linear[i], LabelsOf(i))
      BY <1>2 DEF IssueTrue, LabelsDue
    <3>3. LabelsDue(k, i) \/ (FinalSetter(Waiting, e) => Shown(linear[i], LabelsOf(i)))
      BY <3>1 DEF FinalSetter
    <3> QED
      BY <1>1, <2>1, <2>4, <3>2, <3>3, RowWritten DEF Ready
  <2> QED
    BY <1>1, <2>2, <2>3, <2>4, <2>5, <2>6, <2>7, MirrorStep DEF Ready
<1> QED
  BY <1>3, <1>4

LEMMA MirrorRemovals ==
  ASSUME TypeInv, OrderlyInv, Orderly, NEW r \in Request, Handle(r),
         NEW h, h = req[r], h.at \in WebhookSteps, Mirror(h),
         RemoveFind(r) \/ RemoveDelete(r) \/ RemoveAnswer(r)
  PROVE  \E k : Mine(r, k) /\ Mirror(k)'
<1> DEFINE e == h.ev
           i == e.issue
           own == RowsOf(i)
<1>1. Ready(h) /\ r \in used.of.handlers /\ UNCHANGED <<net, linear, used>>
  BY Here
<1>2. /\ IssueTrue(Waiting, h, i, linear[i], issue[i], LabelsOf(i))
      /\ e \in Event /\ i \in Issue /\ h.at \in RemovalSteps /\ e.action = "remove"
  BY <1>1 DEF Ready, RemoveFind, RemoveDelete, RemoveAnswer, RemovalSteps, At
<1> USE DEF At, database, cached
<1>3. \A k, labels : IssueTrue(Waiting, k, i, linear[i], None, labels)
  BY <1>1, <1>2, RowGone DEF Ready
<1>4. ASSUME Done(r), issue[i] = None, UNCHANGED <<projects, issue, rows>>
      PROVE  \E k : Mine(r, k) /\ Mirror(k)'
  <2>1. Mine(r, Idle) /\ Idle.at = "idle"
    BY <1>1, <1>4, Finishes, IdleSound
  <2> QED
    BY <1>1, <1>3, <1>4, <2>1, MirrorStays
<1>5. CASE RemoveFind(r) /\ issue[i] # None
  <2>1. h.at = "removeFind" /\ Goto(r, "removeDelete") /\ UNCHANGED <<projects, issue, rows>>
    BY <1>2, <1>5 DEF RemoveFind, Existing
  <2>2. PICK k : Mine(r, k) /\ Onward(h, k, "removeDelete")
    BY <1>1, <2>1, GoesOn
  <2>3. StepTrue(Waiting, k, linear[i], issue[i], own, projects)
    BY <2>2 DEF StepTrue, Onward, InsertSteps
  <2>4. IssueTrue(Waiting, k, i, linear[i], issue[i], LabelsOf(i))
    BY <1>2, <2>1, <2>2, IssueSame DEF RowDue, LabelsDue, RemovalDue, InsertDue, InsertSteps,
       BeforeRow, BeforeLabels, LabelSteps, Onward
  <2>5. k.at \in WebhookSteps /\ SameAs(e, k.ev)
    BY <2>2 DEF Onward, WebhookSteps, Step, SameAs
  <2> QED
    BY <1>1, <2>1, <2>2, <2>3, <2>4, <2>5, MirrorStays
<1>6. CASE RemoveDelete(r) /\ issue[i] # None
  <2>1. /\ issue' = [issue EXCEPT ![i] = None] /\ rows' = rows \ own
        /\ Goto(r, "removed") /\ UNCHANGED projects
    BY <1>2, <1>6 DEF RemoveDelete, Existing
  <2>2. PICK k : Mine(r, k) /\ Onward(h, k, "removed")
    BY <1>1, <2>1, GoesOn
  <2>3. issue'[i] = None /\ Elsewhere(i)
    BY <1>2, <2>1 DEF TypeInv, TypeOK, Elsewhere, RowsOf
  <2>4. \A x, y : StepTrue(Waiting, k, linear[i], x, y, projects')
    BY <2>2 DEF StepTrue, Onward, InsertSteps
  <2>5. k.at \in WebhookSteps /\ SameAs(e, k.ev)
    BY <2>2 DEF Onward, WebhookSteps, Step, SameAs
  <2> QED
    BY <1>1, <1>3, <2>1, <2>2, <2>3, <2>4, <2>5, MirrorStep DEF Ready
<1>7. CASE RemoveAnswer(r)
  <2>1. h.at = "removed" /\ Done(r) /\ UNCHANGED <<projects, issue, rows>>
    BY <1>7 DEF RemoveAnswer
  <2>2. Mine(r, Idle) /\ Idle.at = "idle"
    BY <1>1, <2>1, Finishes, IdleSound
  <2>3. IssueTrue(Waiting, Idle, i, linear[i], issue[i], LabelsOf(i))
    BY <1>2, <2>1, IssueSame DEF RowDue, LabelsDue, RemovalDue, InsertDue, InsertSteps,
       BeforeRow, BeforeLabels, LabelSteps
  <2> QED
    BY <1>1, <2>1, <2>2, <2>3, MirrorStays
<1>8. CASE (RemoveFind(r) \/ RemoveDelete(r)) /\ issue[i] = None
  BY <1>4, <1>8 DEF RemoveFind, RemoveDelete, Existing
<1> QED
  BY <1>5, <1>6, <1>7, <1>8

LEMMA MirrorLabels ==
  ASSUME TypeInv, OrderlyInv, Orderly, NEW r \in Request, Handle(r),
         NEW h, h = req[r], h.at \in WebhookSteps, Mirror(h),
         LabelsRead(r) \/ LabelsDelete(r) \/ LabelsWrite(r)
  PROVE  \E k : Mine(r, k) /\ Mirror(k)'
<1> DEFINE e == h.ev
           i == e.issue
           own == RowsOf(i)
<1>1. Ready(h) /\ r \in used.of.handlers /\ UNCHANGED <<net, linear, used>>
  BY Here
<1>2. /\ StepTrue(Waiting, h, linear[i], issue[i], own, projects)
      /\ IssueTrue(Waiting, h, i, linear[i], issue[i], LabelsOf(i))
      /\ e \in Event /\ i \in Issue /\ h.at \in LabelSteps
      /\ e.labels \in SUBSET Label /\ e.action # "remove" /\ issue[i] # None
  BY <1>1 DEF Ready, LabelsRead, LabelsDelete, LabelsWrite, LabelSteps, RemovalSteps, RowSteps, At
<1>3. e.labels # None /\ Setter(e) /\ SetTo(e) = e.labels
  BY <1>2, IssueFeedAssumption DEF Setter, SetTo
<1>4. ASSUME FinalSetter(Waiting, e), linear[i] # None PROVE linear[i].labels = e.labels
  BY <1>1, <1>3, <1>4 DEF Ready, HandledTrue, LastLabels
<1> USE DEF At, database, cached
<1>5. CASE LabelsRead(r)
  <2>1. h.at = "labelsRead" /\ UNCHANGED <<projects, issue, rows>>
    BY <1>5 DEF LabelsRead
  <2>2. PICK k : /\ Mine(r, k) /\ k.ev = e /\ k.snap = own
                 /\ k.at = IF LabelsOf(i) \subseteq e.labels THEN "labelsWrite" ELSE "labelsDelete"
    BY <1>5, LookMoves
  <2>3. StepTrue(Waiting, k, linear[i], issue[i], own, projects)
    <3>1. k.at = "labelsWrite" => own = {x \in k.snap : x.label \in k.ev.labels}
      BY <2>2 DEF LabelsOf
    <3> QED
      BY <2>2, <3>1 DEF StepTrue, InsertSteps
  <2>4. IssueTrue(Waiting, k, i, linear[i], issue[i], LabelsOf(i))
    BY <1>2, <2>1, <2>2, IssueSame DEF RowDue, LabelsDue, RemovalDue, InsertDue, InsertSteps,
       BeforeRow, BeforeLabels, LabelSteps
  <2>5. k.at \in WebhookSteps /\ SameAs(e, k.ev)
    BY <2>2 DEF WebhookSteps, Step, SameAs
  <2> QED
    BY <1>1, <2>1, <2>2, <2>3, <2>4, <2>5, MirrorStays
<1>6. CASE LabelsDelete(r)
  <2>1. /\ h.at = "labelsDelete" /\ Goto(r, "labelsWrite") /\ UNCHANGED <<projects, issue>>
        /\ rows' = {x \in rows : ~(x.issue = i /\ x.label \in Removed(r))}
        /\ Removed(r) = {x.label : x \in h.snap} \ e.labels
    BY <1>6 DEF LabelsDelete, Removed
  <2>2. PICK k : Mine(r, k) /\ Onward(h, k, "labelsWrite")
    BY <1>1, <2>1, GoesOn
  <2>3. RowsOf(i)' = {x \in own : x.label \notin Removed(r)} /\ Elsewhere(i)
    BY <2>1 DEF RowsOf, Elsewhere
  <2>4. StepTrue(Waiting, k, linear[i], issue'[i], RowsOf(i)', projects')
    <3>1. SUFFICES ASSUME FinalSetter(Waiting, e)
                   PROVE  \/ RowsOf(i)' = {x \in h.snap : x.label \in e.labels}
                          \/ Shown(linear[i], {x.label : x \in RowsOf(i)'})
      BY <2>2 DEF StepTrue, Onward, InsertSteps
    <3>2. CASE own = h.snap
      BY <2>1, <2>3, <3>2
    <3>3. CASE Shown(linear[i], {x.label : x \in own}) /\ linear[i] # None
      <4>1. {x.label : x \in own} = e.labels
        BY <1>4, <3>1, <3>3 DEF Shown
      <4>2. RowsOf(i)' = own
        BY <2>1, <2>3, <4>1
      <4> QED
        BY <3>3, <4>2
    <3>4. own = h.snap \/ Shown(linear[i], {x.label : x \in own})
      BY <1>2, <2>1, <3>1 DEF StepTrue
    <3> QED
      BY <3>2, <3>3, <3>4 DEF Shown
  <2>5. IssueTrue(Waiting, k, i, linear[i], issue'[i], LabelsOf(i)')
    <3>1. LabelsDue(h, i) /\ LabelsDue(k, i) /\ ~RowDue(k, i) /\ ~RowDue(h, i) /\ ~RemovalDue(h, i)
      BY <1>3, <2>1, <2>2 DEF LabelsDue, Onward, BeforeLabels, LabelSteps, RowDue, RemovalDue,
         BeforeRow, InsertSteps
    <3> QED
      BY <1>2, <2>1, <3>1 DEF IssueTrue
  <2>6. k.at \in WebhookSteps /\ SameAs(e, k.ev)
    BY <2>2 DEF Onward, WebhookSteps, Step, SameAs
  <2> QED
    BY <1>1, <2>1, <2>2, <2>3, <2>4, <2>5, <2>6, MirrorStep DEF Ready
<1>7. CASE LabelsWrite(r)
  <2>1. /\ h.at = "labelsWrite" /\ UNCHANGED <<projects, issue>>
        /\ ToCreate(r) = e.labels \ {x.label : x \in h.snap}
        /\ \A x \in ToUpdate(r) : x \in h.snap /\ x.label \in e.labels
    BY <1>7 DEF LabelsWrite, ToCreate, ToUpdate
  <2>2. ~RowDue(h, i) /\ ~RemovalDue(h, i)
    BY <2>1 DEF RowDue, RemovalDue, BeforeRow, InsertSteps
  <2>3. ASSUME FinalSetter(Waiting, e), linear[i] # None
        PROVE  /\ linear[i].labels = e.labels
               /\ \/ own = {x \in h.snap : x.label \in e.labels}
                  \/ LabelsOf(i) = e.labels
    BY <1>2, <1>4, <2>1, <2>3 DEF StepTrue, Shown, LabelsOf
  <2>4. CASE /\ rows' = rows \cup {[issue |-> i, label |-> l, by |-> h.id] : l \in ToCreate(r)}
             /\ Goto(r, "fetch")
    <3>1. PICK k : Mine(r, k) /\ Onward(h, k, "fetch")
      BY <1>1, <2>4, GoesOn
    <3>2. RowsOf(i)' = own \cup {[issue |-> i, label |-> l, by |-> h.id] : l \in ToCreate(r)}
          /\ Elsewhere(i)
      BY <2>1, <2>4 DEF RowsOf, Elsewhere
    <3>3. LabelsOf(i)' = LabelsOf(i) \cup ToCreate(r)
      <4> DEFINE new == {[issue |-> i, label |-> l, by |-> h.id] : l \in ToCreate(r)}
      <4>1. {x.label : x \in new} = ToCreate(r)
        <5>1. \A l \in ToCreate(r) : \E x \in new : x.label = l
          <6>1. ASSUME NEW l \in ToCreate(r) PROVE [issue |-> i, label |-> l, by |-> h.id] \in new
            BY <6>1
          <6>2. \A l : [issue |-> i, label |-> l, by |-> h.id].label = l
            OBVIOUS
          <6> HIDE DEF new
          <6> QED
            BY <6>1, <6>2
        <5>2. \A x \in new : x.label \in ToCreate(r)
          OBVIOUS
        <5> HIDE DEF new
        <5> QED
          BY <5>1, <5>2
      <4> HIDE DEF new
      <4> QED
        BY <3>2, <4>1 DEF LabelsOf, new
    <3>4. FinalSetter(Waiting, e) => Shown(linear[i], LabelsOf(i)')
      <4>1. SUFFICES ASSUME FinalSetter(Waiting, e), linear[i] # None
                     PROVE  LabelsOf(i)' = e.labels
        BY <2>3 DEF Shown
      <4>2. CASE own = {x \in h.snap : x.label \in e.labels}
        BY <2>1, <3>3, <4>2 DEF LabelsOf
      <4>3. CASE LabelsOf(i) = e.labels
        BY <2>1, <3>3, <4>3
      <4> QED
        BY <2>3, <4>1, <4>2, <4>3
    <3>5. IssueTrue(Waiting, k, i, linear[i], issue[i], LabelsOf(i)')
      BY <1>1, <1>2, <1>3, <2>2, <3>4, LabelsWritten DEF Ready
    <3>6. \A x : StepTrue(Waiting, k, linear[i], issue[i], x, projects')
      BY <3>1 DEF StepTrue, Onward, InsertSteps
    <3>7. k.at \in WebhookSteps /\ SameAs(e, k.ev)
      BY <3>1 DEF Onward, WebhookSteps, Step, SameAs
    <3> QED
      BY <1>1, <2>1, <3>1, <3>2, <3>5, <3>6, <3>7, MirrorStep DEF Ready
  <2>5. CASE ~(ToUpdate(r) \subseteq rows) /\ Done(r) /\ UNCHANGED rows
    <3>1. FinalSetter(Waiting, e) => Shown(linear[i], LabelsOf(i))
      <4>1. own # {x \in h.snap : x.label \in e.labels}
        BY <2>1, <2>5 DEF RowsOf
      <4> QED
        BY <2>3, <4>1 DEF Shown
    <3>2. IssueTrue(Waiting, Idle, i, linear[i], issue[i], LabelsOf(i))
      BY <1>1, <1>2, <1>3, <2>2, <3>1, LabelsWritten DEF Ready
    <3>3. Mine(r, Idle) /\ Idle.at = "idle"
      BY <1>1, <2>5, Finishes, IdleSound
    <3> QED
      BY <1>1, <2>1, <2>5, <3>2, <3>3, MirrorStays
  <2> QED
    BY <1>2, <1>7, <2>4, <2>5 DEF LabelsWrite, Existing
<1> QED
  BY <1>5, <1>6, <1>7

\* The answers to the clients leave the database alone.
LEMMA MirrorAnswers ==
  ASSUME TypeInv, OrderlyInv, Orderly, NEW r \in Request, Handle(r),
         NEW h, h = req[r], h.at \in WebhookSteps, Mirror(h),
         Fetch(r) \/ Fetched(r) \/ Fallback(r)
  PROVE  \E k : Mine(r, k) /\ Mirror(k)'
<1> DEFINE e == h.ev
           i == e.issue
<1>1. Ready(h) /\ r \in used.of.handlers /\ UNCHANGED <<net, linear, used>>
  BY Here
<1> USE DEF At, database, cached
<1>2. /\ h.at \in {"fetch", "fetched"} /\ UNCHANGED <<projects, issue, rows>>
      /\ h.at = "fetched" => h.found # None
  BY DEF Fetch, Fetched, Fallback, OrderlyInv, RowThere
<1>3. \A k : IssueTrue(Waiting, k, i, linear[i], issue[i], LabelsOf(i))
  BY <1>1, <1>2, IssueSame DEF Ready, RowDue, LabelsDue, RemovalDue, InsertDue, InsertSteps,
     BeforeRow, BeforeLabels, LabelSteps
<1>4. CASE Done(r)
  <2>1. Mine(r, Idle) /\ Idle.at = "idle"
    BY <1>1, <1>4, Finishes, IdleSound
  <2> QED
    BY <1>1, <1>2, <1>3, <2>1, MirrorStays
<1>5. CASE Fetch(r) /\ cache[i] = None
  <2>1. PICK k : Mine(r, k) /\ k.ev = e /\ k.at = "fetched"
    BY <1>5, FetchMoves
  <2>2. k.at \in WebhookSteps /\ SameAs(e, k.ev)
        /\ StepTrue(Waiting, k, linear[i], issue[i], RowsOf(i), projects)
    BY <2>1 DEF WebhookSteps, Step, SameAs, StepTrue, InsertSteps
  <2> QED
    BY <1>1, <1>2, <1>3, <2>1, <2>2, MirrorStays
<1>6. Done(r) \/ (Fetch(r) /\ cache[i] = None)
  BY <1>2 DEF Fetch, Fetched, Fallback
<1> QED
  BY <1>4, <1>5, <1>6

\* A handler that has no webhook, before and after.
LEMMA MirrorIdles ==
  ASSUME NEW h, Mirror(h), h.at \notin WebhookSteps, NEW k, k.at \notin WebhookSteps,
         UNCHANGED <<net, linear, projects, issue, rows>>, used'.edits = used.edits
  PROVE  Mirror(k)'
<1>1. \A j : RowsOf(j)' = RowsOf(j) /\ LabelsOf(j)' = LabelsOf(j)
  BY DEF RowsOf, LabelsOf
<1>2. \A j : /\ ~RowDue(h, j) /\ ~LabelsDue(h, j) /\ ~RemovalDue(h, j) /\ ~InsertDue(h, j)
             /\ ~RowDue(k, j) /\ ~LabelsDue(k, j) /\ ~RemovalDue(k, j) /\ ~InsertDue(k, j)
  BY DEF RowDue, LabelsDue, RemovalDue, InsertDue, InsertSteps, BeforeRow, BeforeLabels,
     LabelSteps, WebhookSteps, Step
<1>3. \A j \in Issue : IssueTrue(Waiting, k, j, linear[j], issue[j], LabelsOf(j))
  BY <1>2, IssueSame DEF Mirror
<1>4. Waiting' = Waiting /\ NetTrue'
  BY DEF Waiting, Mirror, NetTrue
<1>5. WaitingTrue(Waiting, linear, used.edits)
  BY DEF Mirror
<1> QED
  BY <1>1, <1>3, <1>4, <1>5 DEF Mirror

LEMMA MirrorOther ==
  ASSUME NEW h, Mirror(h),
         UNCHANGED <<net, linear, projects, issue, rows>>, used'.edits = used.edits
  PROVE  Mirror(h)'
<1>1. \A j : RowsOf(j)' = RowsOf(j) /\ LabelsOf(j)' = LabelsOf(j)
  BY DEF RowsOf, LabelsOf
<1>2. Waiting' = Waiting /\ NetTrue'
  BY DEF Waiting, Mirror, NetTrue
<1> QED
  BY <1>1, <1>2 DEF Mirror

LEMMA MirrorHandle ==
  ASSUME TypeInv, OrderlyInv, Orderly, TeamsKnown, NEW r \in Request, Handle(r),
         NEW h, h = req[r], Mirror(h)
  PROVE  \E k : Mine(r, k) /\ Mirror(k)'
<1>1. CASE List(r) \/ ListRead(r) \/ ListAnswer(r)
  <2>1. /\ h.at \in {"idle", "list", "listed"} /\ UNCHANGED <<projects, issue, rows>>
        /\ r \in used.of.handlers /\ UNCHANGED <<net, linear, used>>
    BY <1>1, HandleMine, OwnWrites DEF List, ListRead, ListAnswer, At, database, environment
  <2>2. \E k : Mine(r, k) /\ k.at \in {"idle", "list", "listed"}
    <3>1. CASE List(r)
      <4>1. PICK k : Mine(r, k) /\ Onward(h, k, "list")
        BY <2>1, <3>1, GoesOn DEF List
      <4> QED
        BY <4>1 DEF Onward
    <3>2. CASE ListRead(r)
      BY <3>2, ListMoves
    <3>3. CASE ListAnswer(r)
      BY <2>1, <3>3, Finishes, IdleSound DEF ListAnswer
    <3> QED
      BY <1>1, <3>1, <3>2, <3>3
  <2>3. PICK k : Mine(r, k) /\ k.at \in {"idle", "list", "listed"}
    BY <2>2
  <2>4. h.at \notin WebhookSteps /\ k.at \notin WebhookSteps /\ used'.edits = used.edits
    BY <2>1, <2>3 DEF WebhookSteps, Step
  <2> QED
    BY <2>1, <2>3, <2>4, MirrorIdles
<1>2. CASE ~(List(r) \/ ListRead(r) \/ ListAnswer(r))
  <2>1. h.at \in WebhookSteps
    BY <1>2 DEF WebhookSteps, Step, Handle, At, Ensure, EnsureUnassigned, Insert, CacheNew, Exists,
       Update, LabelsRead, LabelsDelete, LabelsWrite, Fetch, Fetched, Fallback, RemoveFind,
       RemoveDelete, RemoveAnswer
  <2> QED
    BY <1>2, <2>1, MirrorInserts, MirrorUpdates, MirrorLabels, MirrorAnswers, MirrorRemovals
       DEF Handle
<1> QED
  BY <1>1, <1>2

---------------------------------------------------------------------------
\* The net after an edit, and after its first webhook has left.
LEMMA NetGrows ==
  ASSUME net \in Seq(Event), NEW f \in Event, net' = Append(net, f)
  PROVE  /\ Waiting' = Waiting \cup {f}
         /\ (\A g \in Waiting : g.rev < f.rev) /\ NetTrue /\ projects' = projects
            /\ f.project \in (Project \ {Unassigned}) \cup {None} => NetTrue'
<1>1. /\ Len(net') = Len(net) + 1 /\ Len(net) \in Nat /\ net' \in Seq(Event)
      /\ \A n \in 1..Len(net) : net'[n] = net[n]
      /\ net'[Len(net) + 1] = f
  OBVIOUS
<1>2. DOMAIN net = 1..Len(net) /\ DOMAIN net' = 1..Len(net) \cup {Len(net) + 1}
  <2>1. DOMAIN net = 1..Len(net) /\ DOMAIN net' = 1..Len(net')
    BY <1>1
  <2> QED
    BY <1>1, <2>1
<1>3. Waiting' = Waiting \cup {f}
  BY <1>1, <1>2 DEF Waiting
<1>4. ASSUME \A g \in Waiting : g.rev < f.rev, NetTrue, projects' = projects,
             f.project \in (Project \ {Unassigned}) \cup {None}
      PROVE  NetTrue'
  <2>1. ASSUME NEW m \in DOMAIN net', NEW n \in DOMAIN net', m < n
        PROVE  net'[m].rev < net'[n].rev
    <3>1. m \in 1..Len(net)
      BY <1>1, <1>2, <2>1
    <3>2. net[m] \in Waiting
      BY <1>2, <3>1 DEF Waiting
    <3>3. CASE n \in 1..Len(net)
      BY <1>1, <1>2, <1>4, <2>1, <3>1, <3>3 DEF NetTrue
    <3>4. CASE n = Len(net) + 1
      BY <1>1, <1>4, <3>1, <3>2, <3>4
    <3> QED
      BY <1>2, <3>3, <3>4
  <2> QED
    BY <1>3, <1>4, <2>1 DEF NetTrue
<1> QED
  BY <1>3, <1>4

LEMMA FirstLeaves ==
  ASSUME NEW s \in Seq(Event), 1 <= Len(s), NEW t, t = RemoveAt(s, 1)
  PROVE  DOMAIN t = 1..(Len(s) - 1) /\ \A n \in 1..(Len(s) - 1) : t[n] = s[n + 1]
<1> DEFINE none == SubSeq(s, 1, 0)
           rest == SubSeq(s, 2, Len(s))
<1>1. /\ none \in Seq(Event) /\ Len(none) = 0 /\ Len(s) \in Nat
      /\ rest \in Seq(Event) /\ Len(rest) = Len(s) - 1
      /\ \A n \in 1..(Len(s) - 1) : rest[n] = s[n + 1]
  <2>1. Len(s) \in Nat
    OBVIOUS
  <2>2. none \in Seq(Event) /\ Len(none) = 0
    BY <2>1
  <2>3. rest \in Seq(Event) /\ Len(rest) = Len(s) - 1
    <3>1. rest \in Seq(Event)
      BY <2>1
    <3>2. Len(rest) = IF 2 <= Len(s) THEN Len(s) - 2 + 1 ELSE 0
      BY <2>1
    <3>3. ASSUME NEW n \in Nat, 1 <= n PROVE (IF 2 <= n THEN n - 2 + 1 ELSE 0) = n - 1
      BY <3>3
    <3>4. (IF 2 <= Len(s) THEN Len(s) - 2 + 1 ELSE 0) = Len(s) - 1
      BY <2>1, <3>3
    <3> HIDE DEF rest
    <3> QED
      BY <3>1, <3>2, <3>4
  <2>4. \A n \in 1..(Len(s) - 1) : rest[n] = s[n + 1]
    BY <2>1
  <2> QED
    BY <2>1, <2>2, <2>3, <2>4
<1>2. t = none \o rest
  <2>1. RemoveAt(s, 1) = SubSeq(s, 1, 1 - 1) \o SubSeq(s, 1 + 1, Len(s))
    BY Zenon DEF RemoveAt
  <2>2. 1 - 1 = 0 /\ 1 + 1 = 2
    OBVIOUS
  <2> QED
    BY <2>1, <2>2, Zenon
<1> HIDE DEF none, rest
<1>3. t \in Seq(Event) /\ Len(t) = Len(rest) /\ \A n \in 1..Len(t) : t[n] = rest[n]
  <2>1. none \o rest = rest
    <3>1. none = << >>
      BY <1>1
    <3> QED
      BY <1>1, <3>1
  <2> QED
    BY <1>1, <1>2, <2>1
<1>4. DOMAIN t = 1..Len(t) /\ Len(t) = Len(s) - 1
  BY <1>1, <1>3
<1> QED
  BY <1>1, <1>3, <1>4

LEMMA NetShrinks ==
  ASSUME net \in Seq(Event), 1 \in DOMAIN net, NetTrue, projects' = projects,
         net' = net \/ net' = RemoveAt(net, 1)
  PROVE  /\ net[1] \in Waiting /\ \A g \in Waiting : net[1].rev <= g.rev
         /\ Waiting' = Waiting \/ Waiting' = Waiting \ {net[1]}
         /\ NetTrue'
<1>1. /\ Len(net) \in Nat /\ DOMAIN net = 1..Len(net) /\ 1 <= Len(net)
      /\ \A n \in DOMAIN net : net[n] \in Event
  OBVIOUS
<1>2. /\ \A n \in DOMAIN net : net[n].rev \in Nat
      /\ \A n \in DOMAIN net : 1 < n => net[1].rev < net[n].rev
  BY <1>1 DEF Event, NetTrue
<1>3. net[1] \in Waiting /\ \A g \in Waiting : net[1].rev <= g.rev
  BY <1>1, <1>2 DEF Waiting
<1>4. CASE net' = net
  BY <1>3, <1>4 DEF Waiting, NetTrue
<1>5. CASE net' = RemoveAt(net, 1)
  <2>3. /\ DOMAIN net' = 1..(Len(net) - 1)
        /\ \A n \in 1..(Len(net) - 1) : net'[n] = net[n + 1]
    BY <1>1, <1>5, FirstLeaves
  <2>4. Waiting' = Waiting \ {net[1]}
    <3>1. ASSUME NEW n \in DOMAIN net' PROVE net'[n] \in Waiting \ {net[1]}
      <4>1. n + 1 \in DOMAIN net /\ 1 < n + 1 /\ net'[n] = net[n + 1]
        BY <1>1, <2>3, <3>1
      <4> QED
        BY <1>2, <4>1 DEF Waiting
    <3>2. ASSUME NEW n \in DOMAIN net, net[n] # net[1] PROVE net[n] \in Waiting'
      <4>1. n - 1 \in 1..(Len(net) - 1) /\ (n - 1) + 1 = n
        BY <1>1, <3>2
      <4> QED
        BY <2>3, <4>1 DEF Waiting
    <3> QED
      BY <3>1, <3>2 DEF Waiting
  <2>5. NetTrue'
    <3>1. ASSUME NEW m \in DOMAIN net', NEW n \in DOMAIN net', m < n
          PROVE  net'[m].rev < net'[n].rev
      <4>1. m + 1 \in DOMAIN net /\ n + 1 \in DOMAIN net /\ m + 1 < n + 1
        BY <1>1, <2>3, <3>1
      <4> QED
        BY <2>3, <4>1 DEF NetTrue
    <3> QED
      BY <2>4, <3>1 DEF NetTrue
  <2> QED
    BY <1>3, <2>4, <2>5
<1> QED
  BY <1>4, <1>5

LEMMA NetTyped ==
  ASSUME TypeInv
  PROVE  net \in Seq(Event) /\ Waiting \in SUBSET Event /\ used.edits \in Nat /\ used \in Counts
<1>1. net \in Seq(Event) /\ used \in Counts
  BY DEF TypeInv, TypeOK, Counts
<1>2. \A n \in DOMAIN net : net[n] \in Event
  BY <1>1
<1> QED
  BY <1>1, <1>2 DEF Waiting, Counts

\* An edit of an issue whose webhooks have all been handled, or of one that waits:
\* what the database shows of it is out of date, and a webhook is under way.
LEMMA EditIssue ==
  ASSUME NEW W \in SUBSET Event, NEW lin, NEW lin2, NEW edits \in Nat,
         WaitingTrue(W, lin, edits), NEW f \in Event, f.rev = edits + 1, Edited(lin, lin2, f),
         NEW h, NEW row, NEW labels, IssueTrue(W, h, f.issue, lin[f.issue], row, labels),
         RowDue(h, f.issue) =>
             /\ HandledTrue(W, lin, edits, h.ev)
             /\ h.at \in InsertSteps => h.ev.action = "create"
             /\ h.at \in {"exists", "update"} => h.ev.action = "update" /\ row # None
             /\ h.at \in {"removeFind", "removeDelete"} => h.ev.action = "remove"
  PROVE  IssueTrue(W \cup {f}, h, f.issue, lin2[f.issue], row, labels)
<1> DEFINE i == f.issue
           V == W \cup {f}
<1>1. \A g \in W : g.rev \in Nat /\ g.rev < f.rev /\ f.rev \in Nat
  BY DEF WaitingTrue, Event
<1>2. ~Setter(f) /\ Shown(lin[i], labels) => Shown(lin2[i], labels)
  BY DEF Setter, Shown, Edited
<1>3. ASSUME \A g \in W : g.issue # i, RowDue(h, i)
      PROVE  /\ h.at \in InsertSteps => lin[i] # None
             /\ h.at \in {"exists", "update"} => lin[i] # None
             /\ h.at \in {"removeFind", "removeDelete"} => lin[i] = None
  <2>1. Final(W, h.ev) /\ h.ev.issue = i
    BY <1>3 DEF Final, RowDue
  <2>2. LastWord(lin, h.ev)
    BY <1>3, <2>1 DEF HandledTrue
  <2> QED
    BY <1>3, <2>1, <2>2 DEF LastWord
<1>4. ASSUME \A g \in V : g.issue = i => ~Setter(g), ~LabelsDue(h, i) PROVE Shown(lin2[i], labels)
  <2>1. Shown(lin[i], labels)
    BY <1>4 DEF IssueTrue
  <2> QED
    BY <1>2, <1>4, <2>1
<1>5. ASSUME NEW g \in V, g.issue = i, Earliest(V, g), g.action = "create", row # None,
             ~RemovalDue(h, i)
      PROVE  /\ Latest(V, g) /\ ~RowDue(h, i) => row.rev = g.rev
             /\ LatestSetter(V, g) /\ ~LabelsDue(h, i) => Shown(lin2[i], labels)
  <2>1. CASE g = f
    <3>1. \A x \in W : x.issue # i
      BY <1>1, <1>5, <2>1 DEF Earliest
    <3>2. lin[i] = None
      BY <1>5, <2>1 DEF Edited
    <3>3. ~RowDue(h, i)
      BY <1>3, <1>5, <3>1, <3>2 DEF RowDue, BeforeRow, RemovalDue
    <3> QED
      BY <1>5, <3>1, <3>2, <3>3 DEF IssueTrue
  <2>2. CASE g # f
    <3>1. g \in W /\ Earliest(W, g) /\ ~Latest(V, g)
      BY <1>1, <1>5, <2>2 DEF Earliest, Latest
    <3>2. ASSUME LatestSetter(V, g), ~LabelsDue(h, i) PROVE Shown(lin2[i], labels)
      <4>1. ~Setter(f) /\ LatestSetter(W, g)
        BY <1>1, <1>5, <2>2, <3>2 DEF LatestSetter
      <4>2. Shown(lin[i], labels)
        BY <1>5, <3>1, <3>2, <4>1 DEF IssueTrue
      <4> QED
        BY <1>2, <4>1, <4>2
    <3> QED
      BY <3>1, <3>2
  <2> QED
    BY <2>1, <2>2
<1>6. ASSUME NEW g \in V, g.issue = i, Earliest(V, g), g.action = "update"
      PROVE  row # None \/ InsertDue(h, i)
  <2>1. CASE g = f
    <3>1. \A x \in W : x.issue # i
      BY <1>1, <1>6, <2>1 DEF Earliest
    <3>2. lin[i] # None
      BY <1>6, <2>1 DEF Edited
    <3>3. CASE ~RowDue(h, i)
      BY <3>1, <3>2, <3>3 DEF IssueTrue
    <3>4. CASE RowDue(h, i)
      BY <1>3, <3>1, <3>2, <3>4 DEF RowDue, BeforeRow, InsertDue
    <3> QED
      BY <3>3, <3>4
  <2>2. CASE g # f
    <3>1. g \in W /\ Earliest(W, g)
      BY <1>1, <1>6, <2>2 DEF Earliest
    <3> QED
      BY <1>6, <3>1 DEF IssueTrue
  <2> QED
    BY <2>1, <2>2
<1>7. \E g \in V : g.issue = i
  OBVIOUS
<1> QED
  BY <1>4, <1>5, <1>6, <1>7 DEF IssueTrue

\* Another issue is edited, or another webhook arrives.
LEMMA OtherIssue ==
  ASSUME NEW W, NEW V, NEW h, NEW k, NEW i, NEW l, NEW row, NEW labels,
         IssueTrue(W, h, i, l, row, labels), {f \in V : f.issue = i} = {f \in W : f.issue = i},
         RowDue(h, i) => RowDue(k, i), LabelsDue(h, i) => LabelsDue(k, i),
         RemovalDue(h, i) => RemovalDue(k, i), InsertDue(h, i) => InsertDue(k, i)
  PROVE  IssueTrue(V, k, i, l, row, labels)
<1>1. \A f : f \in V /\ f.issue = i <=> f \in W /\ f.issue = i
  OBVIOUS
<1>2. IssueTrue(W, k, i, l, row, labels)
  BY IssueSame
<1>3. \A f : f.issue = i => /\ Earliest(V, f) <=> Earliest(W, f)
                            /\ Latest(V, f) <=> Latest(W, f)
                            /\ LatestSetter(V, f) <=> LatestSetter(W, f)
  BY <1>1 DEF Earliest, Latest, LatestSetter
<1> QED
  BY <1>1, <1>2, <1>3 DEF IssueTrue

LEMMA EditStep ==
  ASSUME NEW W \in SUBSET Event, NEW lin, NEW lin2, NEW edits \in Nat, NEW h, h.ev \in Event,
         WaitingTrue(W, lin, edits), HandledTrue(W, lin, edits, h.ev),
         NEW f \in Event, f.rev = edits + 1, Edited(lin, lin2, f), NEW row, NEW own, NEW there,
         StepTrue(W, h, lin[h.ev.issue], row, own, there)
  PROVE  StepTrue(W \cup {f}, h, lin2[h.ev.issue], row, own, there)
<1> DEFINE i == h.ev.issue
           V == W \cup {f}
<1>1. /\ Final(V, h.ev) => Final(W, h.ev)
      /\ FinalSetter(V, h.ev) => FinalSetter(W, h.ev) /\ (f.issue = i => ~Setter(f))
  BY EditHandled
<1>2. i \in Issue
  BY DEF Event
<1>3. ASSUME FinalSetter(V, h.ev)
      PROVE  /\ \A labels : Shown(lin[i], labels) => Shown(lin2[i], labels)
             /\ lin2[i] # None => lin[i] # None /\ lin2[i].labels = lin[i].labels
  <2>1. CASE f.issue = i
    BY <1>1, <1>3, <2>1 DEF Setter, Edited, Shown
  <2>2. CASE f.issue # i
    BY <1>2, <2>2 DEF Edited
  <2> QED
    BY <2>1, <2>2
<1>4. FinalSetter(V, h.ev) => FinalSetter(W, h.ev)
  BY <1>1
<1> HIDE DEF V
<1> QED
  BY <1>1, <1>3, <1>4 DEF StepTrue, V

LEMMA MirrorEdit ==
  ASSUME TypeInv, OrderlyInv, Orderly, NEW r \in Request, r \in used.of.handlers,
         NEW h, h = req[r], Mirror(h),
         NEW j \in Issue, NEW action \in {"create", "update", "remove"},
         NEW labels \in (SUBSET Label) \cup {None},
         NEW p \in (Project \ {Unassigned}) \cup {None}, NEW t \in Team,
         Edit(j, action, labels, p, t)
  PROVE  Mirror(h)'
<1> DEFINE f == [action |-> action, issue |-> j, rev |-> used.edits + 1, labels |-> labels,
                 project |-> p, team |-> t]
           V == Waiting \cup {f}
<1>1. /\ net \in Seq(Event) /\ Waiting \in SUBSET Event /\ used.edits \in Nat
      /\ linear \in [Issue -> LinearIssue \cup {None}]
      /\ None \notin LinearIssue
  BY NetTyped, IssueFeedAssumption DEF TypeInv, TypeOK
<1>2. f \in Event /\ f.rev = used.edits + 1 /\ f.issue = j /\ f.project = p
  BY <1>1 DEF Event
<1>3. net' = Append(net, f) /\ used'.edits = used.edits + 1
      /\ UNCHANGED <<projects, issue, rows, req>>
  BY NetTyped DEF Edit, database, Counts
<1>4. Edited(linear, linear', f)
  <2> DEFINE old == IF linear[j] = None THEN {} ELSE linear[j].labels
             now == [rev |-> used.edits + 1, labels |-> IF labels = None THEN old ELSE labels,
                     project |-> p, team |-> t]
  <2>1. linear' = [linear EXCEPT ![j] = IF action = "remove" THEN None ELSE now]
    BY DEF Edit
  <2>2. old \in SUBSET Label
    BY <1>1 DEF LinearIssue
  <2> HIDE DEF old
  <2>3. now \in LinearIssue /\ now.rev = used.edits + 1
        /\ now.labels = IF labels = None THEN old ELSE labels
    BY <1>1, <2>2 DEF LinearIssue
  <2> HIDE DEF now
  <2>4. /\ linear'[j] = IF action = "remove" THEN None ELSE now
        /\ \A i \in Issue \ {j} : linear'[i] = linear[i]
    BY <1>1, <2>1
  <2>5. /\ action = "create" <=> linear[j] = None
        /\ action = "remove" => labels = None
    BY DEF Edit
  <2>6. now # None
    BY <1>1, <2>3
  <2> QED
    BY <2>3, <2>4, <2>5, <2>6 DEF Edited, old
<1> HIDE DEF f
<1>5. WaitingTrue(Waiting, linear, used.edits) /\ NetTrue
  BY DEF Mirror
<1>6. WaitingTrue(V, linear', used'.edits)
  BY <1>1, <1>2, <1>3, <1>4, <1>5, EditWaiting
<1>7. Waiting' = V /\ NetTrue'
  <2>1. \A g \in Waiting : g.rev < f.rev
    BY <1>1, <1>2, <1>5 DEF WaitingTrue, Event
  <2> QED
    BY <1>1, <1>2, <1>3, <1>5, <2>1, NetGrows
<1>8. h.at \in WebhookSteps => h.ev \in Event /\ h.ev.issue \in Issue /\ Sound(h)
  BY DEF TypeInv, HandlersSound, Sound, Event
<1>9. ASSUME h.at \in WebhookSteps
      PROVE  /\ HandledTrue(V, linear', used'.edits, h.ev)
             /\ StepTrue(V, h, linear'[h.ev.issue], issue'[h.ev.issue], RowsOf(h.ev.issue)', projects')
  <2>1. /\ HandledTrue(Waiting, linear, used.edits, h.ev)
        /\ StepTrue(Waiting, h, linear[h.ev.issue], issue[h.ev.issue], RowsOf(h.ev.issue), projects)
    BY <1>9 DEF Mirror
  <2>2. HandledTrue(V, linear', used'.edits, h.ev)
    BY <1>1, <1>2, <1>3, <1>4, <1>5, <1>8, <1>9, <2>1, EditHandled
  <2>3. StepTrue(V, h, linear'[h.ev.issue], issue[h.ev.issue], RowsOf(h.ev.issue), projects)
    BY <1>1, <1>2, <1>4, <1>5, <1>8, <1>9, <2>1, EditStep
  <2>4. RowsOf(h.ev.issue)' = RowsOf(h.ev.issue)
    BY <1>3 DEF RowsOf
  <2> QED
    BY <1>3, <2>2, <2>3, <2>4
<1>10. ASSUME NEW i \in Issue PROVE IssueTrue(V, h, i, linear'[i], issue'[i], LabelsOf(i)')
  <2>1. IssueTrue(Waiting, h, i, linear[i], issue[i], LabelsOf(i))
    BY DEF Mirror
  <2>2. issue'[i] = issue[i] /\ LabelsOf(i)' = LabelsOf(i)
    BY <1>3 DEF LabelsOf, RowsOf
  <2>3. CASE i # j
    <3>1. linear'[i] = linear[i] /\ {g \in V : g.issue = i} = {g \in Waiting : g.issue = i}
      BY <1>2, <1>4, <2>3 DEF Edited
    <3> QED
      BY <2>1, <2>2, <3>1, OtherIssue
  <2>4. CASE i = j
    <3>1. ASSUME RowDue(h, j)
          PROVE  /\ HandledTrue(Waiting, linear, used.edits, h.ev)
                 /\ h.at \in InsertSteps => h.ev.action = "create"
                 /\ h.at \in {"exists", "update"} => h.ev.action = "update" /\ issue[j] # None
                 /\ h.at \in {"removeFind", "removeDelete"} => h.ev.action = "remove"
      <4>1. h.at \in WebhookSteps /\ h.ev.issue = j
        BY <3>1 DEF RowDue, BeforeRow, InsertSteps, WebhookSteps, Step
      <4>2. /\ HandledTrue(Waiting, linear, used.edits, h.ev)
            /\ StepTrue(Waiting, h, linear[j], issue[j], RowsOf(j), projects)
        BY <4>1 DEF Mirror
      <4>3. h.at = "update" => issue[j] # None
        BY <4>1 DEF OrderlyInv, RowThere, RowSteps, Existing
      <4>4. h.at \in {"removeFind", "removeDelete"} => h.ev.action = "remove"
        BY <1>8, <4>1 DEF Sound, RemovalSteps
      <4> QED
        BY <4>2, <4>3, <4>4 DEF StepTrue
    <3>2. IssueTrue(V, h, j, linear'[j], issue[j], LabelsOf(j))
      BY <1>1, <1>2, <1>4, <1>5, <2>1, <2>4, <3>1, EditIssue
    <3> QED
      BY <2>2, <2>4, <3>2
  <2> QED
    BY <2>3, <2>4
<1> QED
  BY <1>6, <1>7, <1>9, <1>10 DEF Mirror

---------------------------------------------------------------------------
\* The first webhook of all is handed to an idle handler.
LEMMA DeliverIssue ==
  ASSUME NEW W \in SUBSET Event, NEW lin, NEW edits \in Nat, WaitingTrue(W, lin, edits),
         NEW f \in W, \A g \in W : f.rev <= g.rev, NEW V, V = W \/ V = W \ {f},
         NEW h, h.at = "idle", NEW k, k.ev = f, k.at = Entry(f),
         NEW row, NEW labels, IssueTrue(W, h, f.issue, lin[f.issue], row, labels)
  PROVE  IssueTrue(V, k, f.issue, lin[f.issue], row, labels)
<1> DEFINE i == f.issue
<1>1. /\ Earliest(W, f)
      /\ \A g \in V : g.issue = i /\ Earliest(V, g) => g = f \/ Adjacent(W, f, g)
  BY DeliverWaiting
<1>2. /\ f.action = "create" => k.at = "ensure"
      /\ f.action = "update" => k.at = "exists"
      /\ f.action = "remove" => k.at = "removeFind" /\ f.labels = None
      /\ f.action \in {"create", "update", "remove"}
  BY Entries DEF WaitingTrue
<1>3. ~LabelsDue(h, i) /\ ~RemovalDue(h, i) /\ ~InsertDue(h, i) /\ ~RowDue(h, i)
  BY DEF LabelsDue, RemovalDue, InsertDue, RowDue, BeforeLabels, BeforeRow, InsertSteps, LabelSteps
<1>4. RowDue(k, i) /\ (f.action = "create" => InsertDue(k, i))
      /\ (f.action = "remove" => RemovalDue(k, i)) /\ (Setter(f) => LabelsDue(k, i))
  BY <1>2 DEF RowDue, InsertDue, RemovalDue, LabelsDue, BeforeLabels, BeforeRow, InsertSteps, Setter
<1>5. ASSUME \A g \in V : g.issue = i => ~Setter(g), ~LabelsDue(k, i)
      PROVE  Shown(lin[i], labels)
  <2>1. \A g \in W : g.issue = i => ~Setter(g)
    BY <1>4, <1>5
  <2> QED
    BY <1>3, <2>1 DEF IssueTrue
<1>6. ASSUME NEW g \in V, g.issue = i, Earliest(V, g), g.action = "create",
             ~RemovalDue(k, i)
      PROVE  LabelsDue(k, i)
  <2>1. CASE g = f
    BY <1>4, <1>6, <2>1 DEF Setter
  <2>2. CASE Adjacent(W, f, g)
    BY <1>4, <1>6, <2>2 DEF WaitingTrue, Adjacent, Follows
  <2> QED
    BY <1>1, <1>6, <2>1, <2>2
<1>7. ASSUME NEW g \in V, g.issue = i, Earliest(V, g), g.action = "update"
      PROVE  row # None \/ InsertDue(k, i)
  <2>1. f.action = "update" => row # None
    BY <1>1, <1>3 DEF IssueTrue
  <2>2. f.action # "remove"
    <3>1. CASE g = f
      BY <1>7, <3>1
    <3>2. CASE Adjacent(W, f, g)
      BY <1>7, <3>2 DEF WaitingTrue, Adjacent, Follows
    <3> QED
      BY <1>1, <1>7, <3>1, <3>2
  <2> QED
    BY <1>2, <1>4, <2>1, <2>2
<1> QED
  BY <1>4, <1>5, <1>6, <1>7 DEF IssueTrue

LEMMA DeliverStep ==
  ASSUME NEW W \in SUBSET Event, NEW lin, NEW edits \in Nat, WaitingTrue(W, lin, edits),
         NEW f \in W, \A g \in W : f.rev <= g.rev, NEW V, V = W \/ V = W \ {f},
         NEW h, h.at = "idle", NEW k, k.ev = f, k.at = Entry(f), NEW there,
         f.project \in there \cup {None}, NEW row, NEW own,
         IssueTrue(W, h, f.issue, lin[f.issue], row, {x.label : x \in own})
  PROVE  StepTrue(V, k, lin[f.issue], row, own, there)
<1> DEFINE i == f.issue
           labels == {x.label : x \in own}
<1>1. /\ Earliest(W, f)
      /\ Final(V, f) => Latest(W, f)
      /\ FinalSetter(V, f) => LatestSetter(W, f)
  BY DeliverWaiting
<1>2. /\ f.action = "create" => k.at = "ensure"
      /\ f.action = "update" => k.at = "exists"
      /\ f.action = "remove" => k.at = "removeFind" /\ f.labels = None
      /\ f.action \in {"create", "update", "remove"}
  BY Entries DEF WaitingTrue
<1>3. ~LabelsDue(h, i) /\ ~RemovalDue(h, i) /\ ~InsertDue(h, i) /\ ~RowDue(h, i)
  BY DEF LabelsDue, RemovalDue, InsertDue, RowDue, BeforeLabels, BeforeRow, InsertSteps, LabelSteps
<1> HIDE DEF labels
<1>4. ASSUME f.action = "create", row # None
      PROVE  /\ Final(V, f) => row.rev = f.rev
             /\ FinalSetter(V, f) => Shown(lin[i], labels)
  BY <1>1, <1>3, <1>4 DEF IssueTrue, labels
<1>5. f.action = "update" => row # None
  BY <1>1, <1>3 DEF IssueTrue
<1> QED
  BY <1>2, <1>4, <1>5 DEF StepTrue, InsertSteps, labels

LEMMA MirrorDeliver ==
  ASSUME TypeInv, Orderly, NEW r \in Request, NEW n \in DOMAIN net, NEW again \in BOOLEAN,
         Deliver(r, n, again), NEW h, h = req[r], Mirror(h)
  PROVE  \E k : Mine(r, k) /\ Mirror(k)'
<1> DEFINE f == net[n]
           i == f.issue
<1>1. /\ n = 1 /\ h.at = "idle" /\ r \in used.of.handlers
      /\ net' = net \/ net' = RemoveAt(net, 1)
      /\ UNCHANGED <<linear, projects, issue, rows>>
  BY DEF Deliver, Orderly, At, database
<1>2. /\ net \in Seq(Event) /\ Waiting \in SUBSET Event /\ used.edits \in Nat
      /\ used'.edits = used.edits
  BY NetTyped DEF Deliver, Counts
<1>3. PICK k : req' = [req EXCEPT ![r] = k] /\ k.ev = f /\ k.at = Entry(f)
  BY Arrival
<1>4. Mine(r, k)
  BY <1>1, <1>3, Alone
<1>5. WaitingTrue(Waiting, linear, used.edits) /\ NetTrue
  BY DEF Mirror
<1>6. /\ f \in Waiting /\ \A g \in Waiting : f.rev <= g.rev
      /\ Waiting' = Waiting \/ Waiting' = Waiting \ {f}
      /\ NetTrue'
  BY <1>1, <1>2, <1>5, NetShrinks
<1> HIDE DEF f
<1>7. PICK V : V = Waiting'
  OBVIOUS
<1>8. WaitingTrue(V, linear, used.edits) /\ HandledTrue(V, linear, used.edits, f)
  BY <1>2, <1>5, <1>6, <1>7, DeliverWaiting
<1>9. f.issue \in Issue /\ f.project \in projects \cup {None}
  BY <1>2, <1>5, <1>6 DEF Event, NetTrue
<1>10. LabelsOf(i) = {x.label : x \in RowsOf(i)} /\ \A j : RowsOf(j)' = RowsOf(j) /\ LabelsOf(j)' = LabelsOf(j)
  BY <1>1 DEF LabelsOf, RowsOf
<1>11. IssueTrue(Waiting, h, i, linear[i], issue[i], {x.label : x \in RowsOf(i)})
  BY <1>9, <1>10 DEF Mirror
<1>12. StepTrue(V, k, linear[i], issue[i], RowsOf(i), projects)
  BY <1>1, <1>2, <1>3, <1>5, <1>6, <1>7, <1>9, <1>11, DeliverStep
<1>13. ASSUME NEW j \in Issue PROVE IssueTrue(V, k, j, linear[j], issue[j], LabelsOf(j))
  <2>1. IssueTrue(Waiting, h, j, linear[j], issue[j], LabelsOf(j))
    BY DEF Mirror
  <2>2. CASE j = i
    BY <1>1, <1>2, <1>3, <1>5, <1>6, <1>7, <2>1, <2>2, DeliverIssue
  <2>3. CASE j # i
    <3>1. {g \in V : g.issue = j} = {g \in Waiting : g.issue = j}
      BY <1>6, <1>7, <2>3
    <3>2. ~LabelsDue(h, j) /\ ~RemovalDue(h, j) /\ ~InsertDue(h, j) /\ ~RowDue(h, j)
      BY <1>1 DEF LabelsDue, RemovalDue, InsertDue, RowDue, BeforeLabels, BeforeRow, InsertSteps,
         LabelSteps
    <3> QED
      BY <2>1, <3>1, <3>2, OtherIssue
  <2> QED
    BY <2>2, <2>3
<1>14. Mirror(k)'
  BY <1>1, <1>2, <1>3, <1>6, <1>7, <1>8, <1>10, <1>12, <1>13 DEF Mirror
<1> QED
  BY <1>4, <1>14

---------------------------------------------------------------------------
\* A synchronisation writes an issue as it is in Linear, but for labels, where the
\* issue has none there.
Written(l, row, own, row2, own2) ==
    /\ l # None /\ row2 # None /\ row2.rev = l.rev
    /\ \/ {x.label : x \in own2} = l.labels
       \/ l.labels = {} /\ own2 = own /\ (row = None => own = {})

LEMMA CommitIssue ==
  ASSUME NEW W \in SUBSET Event, NEW lin, NEW edits \in Nat, WaitingTrue(W, lin, edits),
         NEW h, NEW i, NEW row, NEW own, NEW row2, NEW own2,
         IssueTrue(W, h, i, lin[i], row, {x.label : x \in own}),
         Written(lin[i], row, own, row2, own2)
  PROVE  IssueTrue(W, h, i, lin[i], row2, {x.label : x \in own2})
<1> DEFINE l == lin[i]
           labels == {x.label : x \in own}
           labels2 == {x.label : x \in own2}
<1>1. \/ labels2 = l.labels
      \/ l.labels = {} /\ labels2 = labels /\ (row = None => labels = {})
  BY DEF Written
<1>2. l # None /\ row2 # None /\ row2.rev = l.rev
  BY DEF Written
<1>3. IssueTrue(W, h, i, l, row, labels)
  OBVIOUS
<1> HIDE DEF labels, labels2
<1>4. ASSUME NEW f \in W, f.issue = i, Latest(W, f) PROVE row2.rev = f.rev
  BY <1>2, <1>4 DEF WaitingTrue, LastWord
<1>5. Shown(l, labels) => Shown(l, labels2)
  BY <1>1 DEF Shown
<1>6. row = None => Shown(l, labels2)
  BY <1>1 DEF Shown
<1>7. IssueTrue(W, h, i, l, row2, labels2)
  BY <1>2, <1>3, <1>4, <1>5, <1>6 DEF IssueTrue
<1> QED
  BY <1>7 DEF labels2

LEMMA CommitStep ==
  ASSUME NEW W \in SUBSET Event, NEW lin, NEW edits \in Nat, NEW h,
         HandledTrue(W, lin, edits, h.ev),
         NEW row, NEW own, NEW row2, NEW own2, NEW there,
         StepTrue(W, h, lin[h.ev.issue], row, own, there),
         Written(lin[h.ev.issue], row, own, row2, own2)
  PROVE  StepTrue(W, h, lin[h.ev.issue], row2, own2, there)
<1> DEFINE l == lin[h.ev.issue]
<1>1. Final(W, h.ev) => row2.rev = h.ev.rev
  BY DEF Written, HandledTrue, LastWord
<1>2. CASE {x.label : x \in own2} = l.labels
  <2>1. Shown(l, {x.label : x \in own2})
    BY <1>2 DEF Shown
  <2>2. row2 # None
    BY DEF Written
  <2> QED
    BY <1>1, <1>2, <2>1, <2>2 DEF StepTrue
<1>3. CASE l.labels = {} /\ own2 = own /\ (row = None => own = {})
  <2>1. row = None => Shown(l, {x.label : x \in own})
    BY <1>3 DEF Shown
  <2>2. row2 # None
    BY DEF Written
  <2> QED
    BY <1>1, <1>3, <2>1, <2>2 DEF StepTrue
<1> QED
  BY <1>2, <1>3 DEF Written

LEMMA CommitWrites ==
  ASSUME TypeInv, \A i \in Issue : NoOrphans(i), SyncWrites,
         \A i \in Wanted : linear[i] = sync.linear[i], NEW i \in Issue
  PROVE  \/ issue'[i] = issue[i] /\ RowsOf(i)' = RowsOf(i)
         \/ Written(linear[i], issue[i], RowsOf(i), issue'[i], RowsOf(i)')
<1>1. CASE i \notin Wanted
  BY <1>1 DEF SyncWrites, Relabelled, RowsOf
<1>2. CASE i \in Wanted
  <2> DEFINE l == linear[i]
             row == [rev |-> l.rev, project |-> l.project]
  <2>1. l # None /\ l \in LinearIssue /\ l = sync.linear[i] /\ l.project \in sync.projects
    BY <1>2 DEF Wanted, TypeInv, TypeOK
  <2>2. issue'[i] = row
    BY <1>2, <2>1 DEF SyncWrites
  <2>3. row # None /\ row.rev = l.rev
    <3>1. sync.projects \in SUBSET Project
      BY DEF TypeInv, TypeOK
    <3>2. row \in Row
      BY <2>1, <3>1 DEF Row, LinearIssue
    <3> QED
      BY <3>2, IssueFeedAssumption
  <2>4. CASE i \notin Relabelled
    <3>1. l.labels = {}
      BY <1>2, <2>1, <2>4 DEF Relabelled
    <3>2. RowsOf(i)' = RowsOf(i)
      BY <2>4 DEF SyncWrites, RowsOf
    <3>3. issue[i] = None => RowsOf(i) = {}
      BY DEF NoOrphans, Existing
    <3> QED
      BY <2>1, <2>2, <2>3, <3>1, <3>2, <3>3 DEF Written
  <2>5. CASE i \in Relabelled
    <3> DEFINE new == {[issue |-> i, label |-> x, by |-> sync.id] : x \in l.labels}
    <3>1. RowsOf(i)' = new
      BY <2>1, <2>5 DEF SyncWrites, RowsOf, Relabelled
    <3>2. {x.label : x \in new} = l.labels
      <4>1. \A m \in l.labels : \E x \in new : x.label = m
        <5>1. ASSUME NEW m \in l.labels PROVE [issue |-> i, label |-> m, by |-> sync.id] \in new
          BY <5>1
        <5>2. \A m : [issue |-> i, label |-> m, by |-> sync.id].label = m
          OBVIOUS
        <5> HIDE DEF new
        <5> QED
          BY <5>1, <5>2
      <4>2. \A x \in new : x.label \in l.labels
        OBVIOUS
      <4> HIDE DEF new
      <4> QED
        BY <4>1, <4>2
    <3> HIDE DEF new
    <3> QED
      BY <2>1, <2>2, <2>3, <3>1, <3>2 DEF Written
  <2> QED
    BY <2>4, <2>5
<1> QED
  BY <1>1, <1>2

LEMMA MirrorCommit ==
  ASSUME TypeInv, OrderlyInv, Orderly, SyncCommit, "edit" \notin overran', NEW h \in Serving, Mirror(h)
  PROVE  Mirror(h)'
<1>1. UNCHANGED <<net, linear, used, projects>>
  BY DEF SyncCommit, environment
<1>2. CASE UNCHANGED <<issue, rows>>
  BY <1>1, <1>2, MirrorOther
<1>3. CASE SyncWrites /\ \A i \in Wanted : linear[i] = sync.linear[i]
  <2>1. \A i \in Issue : NoOrphans(i)
    BY DEF OrderlyInv
  <2>2. Waiting \in SUBSET Event /\ used.edits \in Nat
    BY NetTyped
  <2>3. Waiting' = Waiting /\ NetTrue' /\ WaitingTrue(Waiting, linear, used.edits)
    BY <1>1 DEF Waiting, Mirror, NetTrue
  <2>4. ASSUME NEW i \in Issue
        PROVE  IssueTrue(Waiting, h, i, linear[i], issue'[i], LabelsOf(i)')
    <3>1. IssueTrue(Waiting, h, i, linear[i], issue[i], {x.label : x \in RowsOf(i)})
      BY DEF Mirror, LabelsOf
    <3>2. CASE issue'[i] = issue[i] /\ RowsOf(i)' = RowsOf(i)
      BY <3>1, <3>2 DEF LabelsOf
    <3>3. CASE Written(linear[i], issue[i], RowsOf(i), issue'[i], RowsOf(i)')
      <4>1. IssueTrue(Waiting, h, i, linear[i], issue'[i], {x.label : x \in RowsOf(i)'})
        BY <2>2, <2>3, <3>1, <3>3, CommitIssue
      <4> QED
        BY <4>1 DEF LabelsOf
    <3> QED
      BY <1>3, <2>1, <3>2, <3>3, CommitWrites
  <2>5. ASSUME h.at \in WebhookSteps
        PROVE  /\ HandledTrue(Waiting, linear, used.edits, h.ev)
               /\ StepTrue(Waiting, h, linear[h.ev.issue], issue'[h.ev.issue],
                           RowsOf(h.ev.issue)', projects')
    <3> DEFINE i == h.ev.issue
    <3>1. /\ HandledTrue(Waiting, linear, used.edits, h.ev)
          /\ StepTrue(Waiting, h, linear[i], issue[i], RowsOf(i), projects)
      BY <2>5 DEF Mirror
    <3>2. i \in Issue
      <4>1. PICK r \in used.of.handlers : h = req[r]
        BY DEF Serving
      <4>2. r \in Request
        BY IssueFeedAssumption DEF TypeInv, TypeOK, Circumstances
      <4> QED
        BY <2>5, <4>1, <4>2 DEF TypeInv, HandlersSound, Sound, Event
    <3>3. CASE issue'[i] = issue[i] /\ RowsOf(i)' = RowsOf(i)
      BY <1>1, <3>1, <3>3
    <3>4. CASE Written(linear[i], issue[i], RowsOf(i), issue'[i], RowsOf(i)')
      <4>1. StepTrue(Waiting, h, linear[i], issue'[i], RowsOf(i)', projects)
        BY <2>2, <3>1, <3>4, CommitStep
      <4> QED
        BY <1>1, <3>1, <4>1
    <3> QED
      BY <1>3, <2>1, <3>2, <3>3, <3>4, CommitWrites
  <2> QED
    BY <1>1, <2>3, <2>4, <2>5 DEF Mirror
<1>4. UNCHANGED <<issue, rows>> \/ (SyncWrites /\ \A i \in Wanted : linear[i] = sync.linear[i])
  <2>1. CASE SyncWrites /\ overran' = overran
                    \cup {x \in {"edit"} : \E i \in Wanted : linear[i] # sync.linear[i]}
                    \cup {x \in {"labels"} : \E r \in Request :
                             req[r].at \in {"labelsDelete", "labelsWrite"}}
    BY <2>1
  <2> QED
    BY <2>1 DEF SyncCommit
<1> QED
  BY <1>2, <1>3, <1>4

---------------------------------------------------------------------------
LEMMA OneServes ==
  ASSUME TypeInv, Orderly
  PROVE  \E r \in Request : used.of.handlers = {r}
<1>1. used.of.handlers \in SUBSET Request /\ IsFiniteSet(Request)
  BY IssueFeedAssumption DEF TypeInv, TypeOK, Circumstances
<1>2. IsFiniteSet(used.of.handlers) /\ Cardinality(used.of.handlers) = 1
  BY <1>1, FS_Subset DEF Orderly
<1>3. PICK r : used.of.handlers = {r}
  BY <1>2, FS_Singleton
<1> QED
  BY <1>1, <1>3

\* The steps under orderly circumstances, and what they leave alone.
LEMMA OrderlySteps ==
  ASSUME TypeInv, Orderly, [Next]_vars
  PROVE  \/ \E i \in Issue, action \in {"create", "update", "remove"},
               labels \in (SUBSET Label) \cup {None},
               p \in (Project \ {Unassigned}) \cup {None}, t \in Team :
               Edit(i, action, labels, p, t)
         \/ \E r \in Request, n \in DOMAIN net, again \in BOOLEAN : Deliver(r, n, again)
         \/ \E r \in Request : Handle(r)
         \/ SyncCommit
         \/ /\ UNCHANGED <<net, linear, projects, issue, rows, req, overran>>
            /\ used'.edits = used.edits
<1>1. used \in Counts
  BY NetTyped
<1>2. CASE SyncBegin
  BY <1>1, <1>2 DEF SyncBegin, Counts, database, environment, history
<1>3. CASE SyncFetch
  BY <1>3 DEF SyncFetch, database, environment, history
<1>4. CASE Expire
  BY <1>4 DEF Expire, database, environment, history
<1>5. CASE UNCHANGED vars
  BY <1>5 DEF vars, database, environment, history
<1>6. CASE Next
  BY <1>2, <1>3, <1>4, <1>6, NothingFails DEF Next, Synchronise
<1> QED
  BY <1>5, <1>6

LEMMA OverranGrows ==
  ASSUME TypeInv, Orderly, [Next]_vars
  PROVE  overran \subseteq overran'
<1>1. ASSUME NEW r \in Request, Handle(r) PROVE overran' = overran
  BY <1>1, OwnWrites
<1>2. CASE SyncCommit
  BY <1>2 DEF SyncCommit
<1>3. ASSUME NEW j, NEW action, NEW labels, NEW p, NEW t, Edit(j, action, labels, p, t)
      PROVE  overran' = overran
  BY <1>3 DEF Edit, history
<1>4. ASSUME NEW r, NEW n, NEW again, Deliver(r, n, again) PROVE overran' = overran
  BY <1>4 DEF Deliver, history
<1> QED
  BY <1>1, <1>2, <1>3, <1>4, OrderlySteps

LEMMA MirrorNext ==
  ASSUME TypeInv, OrderlyInv, MirrorInv, [Next]_vars
  PROVE  MirrorInv'
<1>1. /\ used'.of = used.of
      /\ (Orderly' <=> Orderly) /\ (ProjectsKnown' <=> ProjectsKnown)
      /\ (TeamsKnown' <=> TeamsKnown)
  BY TypeNext DEF Orderly, ProjectsKnown, TeamsKnown
<1> SUFFICES ASSUME Orderly, ProjectsKnown, TeamsKnown, "edit" \notin overran'
             PROVE  \A h \in Serving' : Mirror(h)'
  BY <1>1 DEF MirrorInv
<1>2. "edit" \notin overran
  BY OverranGrows
<1>3. PICK r \in Request : used.of.handlers = {r}
  BY OneServes
<1>4. PICK h : h = req[r]
  OBVIOUS
<1>5. Serving = {h} /\ Serving' = {req'[r]}
  BY <1>1, <1>3, <1>4 DEF Serving
<1>6. Mirror(h) /\ r \in used.of.handlers
  BY <1>2, <1>3, <1>5 DEF MirrorInv
<1>7. ASSUME \E k : Mine(r, k) /\ Mirror(k)' PROVE \A k \in Serving' : Mirror(k)'
  BY <1>5, <1>7 DEF Mine
<1>8. ASSUME UNCHANGED req, Mirror(h)' PROVE \A k \in Serving' : Mirror(k)'
  BY <1>4, <1>5, <1>8
<1>9. ASSUME NEW j \in Issue, NEW action \in {"create", "update", "remove"},
             NEW labels \in (SUBSET Label) \cup {None},
             NEW p \in (Project \ {Unassigned}) \cup {None}, NEW t \in Team,
             Edit(j, action, labels, p, t)
      PROVE  \A k \in Serving' : Mirror(k)'
  <2>1. Mirror(h)'
    BY <1>4, <1>6, <1>9, MirrorEdit
  <2> QED
    BY <1>8, <1>9, <2>1 DEF Edit
<1>10. ASSUME NEW s \in Request, NEW n \in DOMAIN net, NEW again \in BOOLEAN, Deliver(s, n, again)
       PROVE  \A k \in Serving' : Mirror(k)'
  <2>1. s = r
    BY <1>3, <1>10 DEF Deliver
  <2> QED
    BY <1>4, <1>6, <1>7, <1>10, <2>1, MirrorDeliver
<1>11. ASSUME NEW s \in Request, Handle(s) PROVE \A k \in Serving' : Mirror(k)'
  <2>1. s = r
    BY <1>3, <1>11, HandleMine
  <2> QED
    BY <1>4, <1>6, <1>7, <1>11, <2>1, MirrorHandle
<1>12. CASE SyncCommit
  <2>1. Mirror(h)'
    BY <1>5, <1>6, <1>12, MirrorCommit
  <2> QED
    BY <1>8, <1>12, <2>1 DEF SyncCommit
<1>13. CASE /\ UNCHANGED <<net, linear, projects, issue, rows, req, overran>>
            /\ used'.edits = used.edits
  BY <1>6, <1>8, <1>13, MirrorOther
<1> QED
  BY <1>9, <1>10, <1>11, <1>12, <1>13, OrderlySteps

LEMMA MirrorInit == ASSUME Init PROVE MirrorInv
<1> SUFFICES ASSUME Orderly, ProjectsKnown, TeamsKnown, NEW h \in Serving PROVE Mirror(h)
  BY DEF MirrorInv
<1>1. h = Idle /\ h.at = "idle"
  <2>1. used.of.handlers \subseteq Request
    BY TypeInit, IssueFeedAssumption DEF TypeInv, TypeOK, Circumstances
  <2> QED
    BY <2>1, IdleSound DEF Init, Serving
<1>2. Waiting = {} /\ NetTrue
  BY DEF Init, Waiting, NetTrue, ProjectsKnown
<1>3. ASSUME NEW i \in Issue PROVE IssueTrue({}, h, i, linear[i], issue[i], LabelsOf(i))
  BY <1>3 DEF Init, IssueTrue, Shown
<1>4. WaitingTrue({}, linear, used.edits)
  BY DEF WaitingTrue
<1> QED
  BY <1>1, <1>2, <1>3, <1>4 DEF Mirror, WebhookSteps, Step

---------------------------------------------------------------------------
\* One row for each label: the steps at which a handler does without labels.
LEMMA Elsewhen ==
  ASSUME TypeInv, Orderly, NEW r \in Request, Handle(r),
         ~LabelsRead(r), ~LabelsDelete(r), ~LabelsWrite(r)
  PROVE  \E k : Mine(r, k) /\ k.at \notin {"labelsDelete", "labelsWrite"}
<1>1. r \in used.of.handlers /\ Idle.at = "idle"
  BY HandleMine, IdleSound
<1>2. ASSUME NEW step, step \notin {"labelsDelete", "labelsWrite"}, Goto(r, step)
      PROVE  \E k : Mine(r, k) /\ k.at \notin {"labelsDelete", "labelsWrite"}
  BY <1>1, <1>2, GoesOn DEF Onward
<1>3. ASSUME Done(r) PROVE \E k : Mine(r, k) /\ k.at \notin {"labelsDelete", "labelsWrite"}
  BY <1>1, <1>3, Finishes
<1>4. CASE Ensure(r)
  BY <1>4, EnsureMoves
<1>5. CASE EnsureUnassigned(r)
  <2>1. CASE req' = [req EXCEPT ![r].at = "insert", ![r].ev.project = Unassigned]
    BY <1>5, <2>1, UnassignedMoves
  <2> QED
    BY <1>3, <1>5, <2>1 DEF EnsureUnassigned
<1>6. CASE Exists(r)
  BY <1>6, ExistsMoves DEF Onward
<1>7. CASE Fetch(r)
  BY <1>3, <1>7, FetchMoves DEF Fetch
<1>8. CASE ListRead(r)
  BY <1>8, ListMoves
<1>9. CASE CacheNew(r) \/ Update(r)
  BY <1>2, <1>3, <1>9 DEF CacheNew, Update, AfterInsert, AfterUpdate
<1>10. CASE Insert(r) \/ Fetched(r) \/ Fallback(r)
  BY <1>2, <1>3, <1>10 DEF Insert, Fetched, Fallback
<1>11. CASE RemoveFind(r) \/ RemoveDelete(r) \/ RemoveAnswer(r)
  BY <1>2, <1>3, <1>11 DEF RemoveFind, RemoveDelete, RemoveAnswer
<1>12. CASE List(r) \/ ListAnswer(r)
  BY <1>2, <1>3, <1>12 DEF List, ListAnswer
<1> QED
  BY <1>4, <1>5, <1>6, <1>7, <1>8, <1>9, <1>10, <1>11, <1>12 DEF Handle

\* A handler that saw all rows adds one only for a label that has none.
LEMMA SinglesHandle ==
  ASSUME TypeInv, Orderly, NEW r \in Request, Handle(r), NoTwins,
         NEW h, h = req[r], SeenRows(h)
  PROVE  NoTwins' /\ \E k : Mine(r, k) /\ SeenRows(k)'
<1>1. r \in used.of.handlers
  BY HandleMine
<1>2. ASSUME rows' \subseteq rows PROVE NoTwins'
  BY <1>2 DEF NoTwins
<1>3. ASSUME \E k : Mine(r, k) /\ k.at \notin {"labelsDelete", "labelsWrite"}
      PROVE  \E k : Mine(r, k) /\ SeenRows(k)'
  BY <1>3 DEF SeenRows
<1> USE DEF At, database
<1>4. CASE LabelsRead(r)
  <2>1. PICK k : /\ Mine(r, k) /\ k.ev = h.ev /\ k.snap = RowsOf(h.ev.issue)
                 /\ k.at = IF LabelsOf(h.ev.issue) \subseteq h.ev.labels
                             THEN "labelsWrite" ELSE "labelsDelete"
    BY <1>4, LookMoves
  <2>2. rows' = rows
    BY <1>4 DEF LabelsRead
  <2>3. k.at = "labelsWrite" => k.snap = {x \in k.snap : x.label \in k.ev.labels}
    BY <2>1 DEF LabelsOf
  <2>4. SeenRows(k)'
    BY <2>1, <2>2, <2>3 DEF SeenRows, RowsOf
  <2> QED
    BY <1>2, <2>1, <2>2, <2>4
<1>5. CASE LabelsDelete(r)
  <2>1. /\ h.at = "labelsDelete" /\ Goto(r, "labelsWrite")
        /\ rows' = {x \in rows : ~(x.issue = h.ev.issue /\ x.label \in Removed(r))}
        /\ Removed(r) = {x.label : x \in h.snap} \ h.ev.labels
    BY <1>5 DEF LabelsDelete, Removed
  <2>2. PICK k : Mine(r, k) /\ Onward(h, k, "labelsWrite")
    BY <1>1, <2>1, GoesOn
  <2>3. RowsOf(h.ev.issue)' = {x \in h.snap : x.label \in h.ev.labels}
    BY <2>1 DEF SeenRows, RowsOf
  <2>4. SeenRows(k)'
    BY <2>2, <2>3 DEF SeenRows, Onward
  <2> QED
    BY <1>2, <2>1, <2>2, <2>4
<1>6. CASE LabelsWrite(r)
  <2> DEFINE i == h.ev.issue
             new == {[issue |-> i, label |-> l, by |-> h.id] : l \in ToCreate(r)}
  <2>1. h.at = "labelsWrite" /\ ToCreate(r) = h.ev.labels \ {x.label : x \in h.snap}
    BY <1>6 DEF LabelsWrite, ToCreate
  <2>2. \E k : Mine(r, k) /\ k.at \notin {"labelsDelete", "labelsWrite"}
    BY <1>1, <1>6, GoesOn, Finishes, IdleSound DEF LabelsWrite, Onward
  <2>3. CASE rows' = rows
    BY <1>2, <1>3, <2>2, <2>3
  <2>4. CASE rows' = rows \cup new
    <3>1. \A x \in rows : x.issue = i => x.label \notin ToCreate(r)
      BY <2>1 DEF SeenRows, RowsOf
    <3>2. \A x \in new : /\ x.issue = i /\ x.label \in ToCreate(r)
                         /\ \A y \in new : x.label = y.label => x = y
      OBVIOUS
    <3> HIDE DEF new
    <3>3. NoTwins'
      BY <2>4, <3>1, <3>2 DEF NoTwins
    <3> QED
      BY <1>3, <2>2, <3>3
  <2> QED
    BY <1>6, <2>3, <2>4 DEF LabelsWrite
<1>7. CASE ~LabelsRead(r) /\ ~LabelsDelete(r) /\ ~LabelsWrite(r)
  BY <1>2, <1>3, <1>7, OtherStepsShrink, Elsewhen
<1> QED
  BY <1>4, <1>5, <1>6, <1>7

\* A synchronisation replaces the labels of an issue by one row each.
LEMMA SinglesCommit ==
  ASSUME TypeInv, SyncWrites, NoTwins
  PROVE  NoTwins'
<1>1. SUFFICES ASSUME NEW x \in rows', NEW y \in rows', x.issue = y.issue, x.label = y.label
               PROVE  x = y
  BY DEF NoTwins
<1>2. ASSUME NEW z \in rows'
      PROVE  \/ z \in rows /\ z.issue \notin Relabelled
             \/ z.issue \in Relabelled
                /\ z = [issue |-> z.issue, label |-> z.label, by |-> sync.id]
  BY <1>2 DEF SyncWrites
<1> QED
  BY <1>1, <1>2 DEF NoTwins

LEMMA SingleNext ==
  ASSUME TypeInv, SingleRows, [Next]_vars
  PROVE  SingleRows'
<1>1. used'.of = used.of /\ (Orderly' <=> Orderly)
  BY TypeNext DEF Orderly
<1> SUFFICES ASSUME Orderly, "labels" \notin overran'
             PROVE  NoTwins' /\ \A h \in Serving' : SeenRows(h)'
  BY <1>1 DEF SingleRows
<1>2. "labels" \notin overran
  BY OverranGrows
<1>3. PICK r \in Request : used.of.handlers = {r}
  BY OneServes
<1>4. PICK h : h = req[r]
  OBVIOUS
<1>5. Serving = {h} /\ Serving' = {req'[r]}
  BY <1>1, <1>3, <1>4 DEF Serving
<1>6. NoTwins /\ SeenRows(h) /\ r \in used.of.handlers
  BY <1>2, <1>3, <1>5 DEF SingleRows
<1>7. ASSUME NoTwins', \E k : Mine(r, k) /\ SeenRows(k)'
      PROVE  NoTwins' /\ \A k \in Serving' : SeenRows(k)'
  BY <1>5, <1>7 DEF Mine
<1>8. ASSUME UNCHANGED <<rows, req>> PROVE NoTwins' /\ \A k \in Serving' : SeenRows(k)'
  <2>1. NoTwins' /\ SeenRows(h)'
    BY <1>6, <1>8 DEF NoTwins, SeenRows, RowsOf
  <2> QED
    BY <1>4, <1>5, <1>8, <2>1
<1>9. ASSUME NEW s \in Request, NEW n \in DOMAIN net, NEW again \in BOOLEAN, Deliver(s, n, again)
      PROVE  NoTwins' /\ \A k \in Serving' : SeenRows(k)'
  <2>1. s = r /\ rows' = rows
    BY <1>3, <1>9 DEF Deliver, database
  <2>2. NoTwins'
    BY <1>6, <2>1 DEF NoTwins
  <2>3. \E k : Mine(r, k) /\ SeenRows(k)'
    <3>1. PICK k : req' = [req EXCEPT ![r] = k] /\ k.at = Entry(net[n])
      BY <1>9, <2>1, Arrival
    <3>2. k.at \notin {"labelsDelete", "labelsWrite"}
      <4>1. net \in Seq(Event)
        BY NetTyped
      <4>2. net[n] \in Event
        BY <4>1
      <4> QED
        BY <3>1, <4>2, Entries
    <3> QED
      BY <1>6, <3>1, <3>2, Alone DEF SeenRows
  <2> QED
    BY <1>7, <2>2, <2>3
<1>10. ASSUME NEW s \in Request, Handle(s)
       PROVE  NoTwins' /\ \A k \in Serving' : SeenRows(k)'
  <2>1. s = r
    BY <1>3, <1>10, HandleMine
  <2> QED
    BY <1>4, <1>6, <1>7, <1>10, <2>1, SinglesHandle
<1>11. ASSUME SyncCommit PROVE NoTwins' /\ \A k \in Serving' : SeenRows(k)'
  <2>1. CASE UNCHANGED rows
    BY <1>8, <1>11, <2>1 DEF SyncCommit
  <2>2. CASE SyncWrites /\ overran' = overran
                    \cup {x \in {"edit"} : \E i \in Wanted : linear[i] # sync.linear[i]}
                    \cup {x \in {"labels"} : \E s \in Request :
                             req[s].at \in {"labelsDelete", "labelsWrite"}}
    <3>1. h.at \notin {"labelsDelete", "labelsWrite"} /\ req' = req
      BY <1>4, <1>11, <2>2 DEF SyncCommit
    <3>2. NoTwins'
      BY <1>6, <2>2, SinglesCommit
    <3>3. SeenRows(h)'
      BY <3>1 DEF SeenRows
    <3> QED
      BY <1>4, <1>5, <3>1, <3>2, <3>3
  <2> QED
    BY <1>11, <2>1, <2>2 DEF SyncCommit
<1>12. ASSUME NEW j \in Issue, NEW action \in {"create", "update", "remove"},
              NEW labels \in (SUBSET Label) \cup {None},
              NEW p \in (Project \ {Unassigned}) \cup {None}, NEW t \in Team,
             Edit(j, action, labels, p, t)
       PROVE  NoTwins' /\ \A k \in Serving' : SeenRows(k)'
  BY <1>8, <1>12 DEF Edit, database
<1> QED
  BY <1>8, <1>9, <1>10, <1>11, <1>12, OrderlySteps

LEMMA SingleInit == ASSUME Init PROVE SingleRows
<1>1. used.of.handlers \subseteq Request
  BY TypeInit, IssueFeedAssumption DEF TypeInv, TypeOK, Circumstances
<1>2. \A h \in Serving : h = Idle /\ h.at = "idle"
  BY <1>1, IdleSound DEF Init, Serving
<1> QED
  BY <1>2 DEF Init, SingleRows, NoTwins, SeenRows

---------------------------------------------------------------------------
\* As many rows as labels: each row is known by its label.
LEMMA OneRowEach ==
  ASSUME TypeInv, NoTwins, NEW i \in Issue
  PROVE  Cardinality(RowsOf(i)) = Cardinality(LabelsOf(i))
<1> DEFINE R == RowsOf(i)
           L == LabelsOf(i)
           f == [x \in R |-> x.label]
<1>1. IsFiniteSet(L)
  <2>1. L \in SUBSET Label
    BY DEF TypeInv, TypeOK, LabelsOf, RowsOf, LabelRow
  <2> QED
    BY <2>1, IssueFeedAssumption, FS_Subset
<1>2. \A x \in R : x.label \in L
  BY DEF LabelsOf
<1>3. \A l \in L : \E x \in R : x.label = l
  BY DEF LabelsOf
<1>4. \A x, y \in R : x.label = y.label => x = y
  BY DEF RowsOf, NoTwins
<1> HIDE DEF R, L
<1>5. f \in [R -> L]
  BY <1>2
<1>6. f \in Injection(R, L) /\ f \in Surjection(R, L)
  BY <1>3, <1>4, <1>5 DEF Injection, IsInjective, Surjection
<1> HIDE DEF f
<1>7. Cardinality(R) = Cardinality(L)
  BY <1>1, <1>6, FS_Injection
<1> QED
  BY <1>7 DEF R, L

\* When all is quiet nothing waits and nothing is due.
LEMMA QuietMirrors ==
  ASSUME TypeInv, MirrorInv, SingleRows
  PROVE  MirrorsLinear
<1> SUFFICES ASSUME Orderly, ProjectsKnown, TeamsKnown, Quiet, "edit" \notin overran,
                    NEW i \in Issue
             PROVE  /\ i \in Existing <=> linear[i] # None
                    /\ i \in Existing =>
                          /\ issue[i].rev = linear[i].rev
                          /\ LabelsOf(i) = linear[i].labels
                          /\ "labels" \notin overran =>
                                Cardinality(RowsOf(i)) = Cardinality(LabelsOf(i))
  BY DEF MirrorsLinear
<1>1. PICK r \in Request : used.of.handlers = {r}
  BY OneServes
<1>2. PICK h : h = req[r]
  OBVIOUS
<1>3. h \in Serving /\ h.at = "idle"
  BY <1>1, <1>2 DEF Serving, Quiet, At
<1>4. Waiting = {}
  BY DEF Quiet, Waiting
<1>5. IssueTrue({}, h, i, linear[i], issue[i], LabelsOf(i))
  BY <1>3, <1>4 DEF MirrorInv, Mirror
<1>6. ~RowDue(h, i) /\ ~LabelsDue(h, i)
  BY <1>3 DEF RowDue, LabelsDue, BeforeRow, BeforeLabels, InsertSteps, LabelSteps
<1>7. /\ issue[i] # None <=> linear[i] # None
      /\ linear[i] # None => issue[i].rev = linear[i].rev /\ LabelsOf(i) = linear[i].labels
  BY <1>5, <1>6 DEF IssueTrue, Shown
<1>8. "labels" \notin overran => Cardinality(RowsOf(i)) = Cardinality(LabelsOf(i))
  BY OneRowEach DEF SingleRows
<1> QED
  BY <1>7, <1>8 DEF Existing

\* Whatever is done in Linear, as long as its projects and teams are here, once its
\* webhooks have been handled one after the other the database has each issue at its
\* last edit, its labels with exactly one row each; also when webhooks are sent twice
\* and synchronisations write between.
THEOREM IssuesMirrored == Spec => []MirrorsLinear
<1> DEFINE Inv == TypeInv /\ OrderlyInv /\ MirrorInv /\ SingleRows
<1>1. Init => Inv
  BY TypeInit, OrderlyInit, MirrorInit, SingleInit
<1>2. Inv /\ [Next]_vars => Inv'
  BY TypeNext, OrderlyNext, MirrorNext, SingleNext
<1>3. Inv => MirrorsLinear
  BY QuietMirrors
<1> QED
  BY <1>1, <1>2, <1>3, PTL DEF Spec
=============================================================================
