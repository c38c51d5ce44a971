--------------------------- MODULE RevocationList ---------------------------
(* What TokenBlacklistService promises its callers: a token that was revoked *)
(* is reported as revoked up to and including its deadline, and never        *)
(* after it.  Deadlines lapse by themselves the moment the clock passes      *)
(* them: there are no stale entries and there is no cleanup.                 *)
EXTENDS Naturals

CONSTANT TokenId

VARIABLES
    deadline,       \* deadline[j]: last instant at which j is revoked, 0 if never
    now

vars == <<deadline, now>>

Revoked(j) == deadline[j] # 0

Init ==
    /\ deadline = [j \in TokenId |-> 0]
    /\ now = 0

\* Tokens may be revoked again, with a later or an earlier deadline; a
\* deadline is never in the past.
Revoke ==
    /\ deadline' \in [TokenId -> Nat]
    /\ \A j \in TokenId :
           deadline'[j] # deadline[j] => deadline'[j] # 0 /\ now <= deadline'[j]
    /\ UNCHANGED now

\* One unit of time: exactly the deadlines that are over lapse.
Tick ==
    /\ now' = now + 1
    /\ deadline' = [j \in TokenId |-> IF deadline[j] < now' THEN 0 ELSE deadline[j]]

\* The list lives in memory: a shutdown forgets everything.
Forget ==
    /\ deadline' = [j \in TokenId |-> 0]
    /\ UNCHANGED now

Next == Revoke \/ Tick \/ Forget

Spec == Init /\ [][Next]_vars
=============================================================================
