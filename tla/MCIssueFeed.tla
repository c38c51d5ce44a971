----------------------------- MODULE MCIssueFeed -----------------------------
(* IssueFeed under the circumstances that its runs look at.                   *)
EXTENDS IssueFeed

CONSTANTS r1, r2, l1, l2, p1, t1, t2

Calm == [inOrder |-> TRUE, handlers |-> {r1}, known |-> {p1},
         teams |-> {t1, t2}, linearTeams |-> {t1}, ids |-> TRUE, labels |-> {l1, l2},
         edits |-> 3, retries |-> 1, failures |-> 0, removals |-> 0, syncs |-> 0]
Synced == [Calm EXCEPT !.edits = 2, !.syncs = 1]
SyncedFailing == [Synced EXCEPT !.edits = 1, !.failures = 1]
Rough == [Calm EXCEPT !.inOrder = FALSE, !.handlers = {r1, r2}, !.known = {},
                      !.labels = {l1}, !.edits = 2, !.failures = 1]
RoughRemoving == [Rough EXCEPT !.retries = 0, !.failures = 0, !.removals = 1]
RoughSynced == [Rough EXCEPT !.known = {p1}, !.retries = 0, !.failures = 0, !.syncs = 1]

\* Issues of a second team, which the database has or lacks; no team at all; and
\* webhooks that name projects by project.id.
TwoTeams == [Calm EXCEPT !.linearTeams = {t1, t2}, !.labels = {l1},
                      !.edits = 2, !.syncs = 1]
OneTeam == [TwoTeams EXCEPT !.teams = {t1}]
NoTeam == [Calm EXCEPT !.teams = {}, !.known = {}, !.labels = {l1}, !.edits = 2]
ById == [Calm EXCEPT !.ids = FALSE, !.known = {p1, Unassigned}, !.labels = {l1},
                  !.edits = 2]

\* For the runs that look for one short behaviour.
Short == [Calm EXCEPT !.edits = 2, !.retries = 0]
ShortSynced == [Short EXCEPT !.syncs = 1]

AllRegimes == {Calm, Synced, SyncedFailing, Rough, RoughRemoving, RoughSynced,
               TwoTeams, OneTeam, NoTeam, ById}
ShortRegime == {Short}
SyncedRegime == {ShortSynced}
TeamRegime == {[Short EXCEPT !.linearTeams = {t1, t2}, !.teams = {t1}]}
ProjectRegime == {[ById EXCEPT !.edits = 2, !.retries = 0]}
=============================================================================
