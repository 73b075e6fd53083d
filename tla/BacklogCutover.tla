---------------------------- MODULE BacklogCutover ----------------------------
(***************************************************************************)
(* The readiness check of an authority flip (backlog_outbox_service.py,    *)
(* cutover_readiness) beside the queue it reads.  It counts the pending    *)
(* rows, the conflicts nobody ruled on and the blocked rows, each in a     *)
(* transaction of its own, and answers `ready` when it found none.         *)
(***************************************************************************)
EXTENDS BacklogOutbox

VARIABLES
    check,      \* what the check reads next
    found,      \* it has found a blocker
    stuck       \* history: intents undecided ever since the check began

checkVars == <<check, found, stuck>>

CheckTypeOK ==
    /\ check \in {"pending", "unclassified", "blocked", "answered"}
    /\ found \in BOOLEAN
    /\ stuck \subseteq Intent

CheckInit == Init /\ check = "pending" /\ found = FALSE /\ stuck = {}

\* pending_strict; no row is missed unless it moves.
ReadPendingStrict ==
    /\ check = "pending"
    /\ check' = "unclassified"
    /\ found' = \E i \in Intent : state[i] = "pending"
    /\ stuck' = {i \in Intent : Undecided(i)}
    /\ UNCHANGED vars

\* unclassified_conflicts_strict
ReadUnclassified ==
    /\ check = "unclassified"
    /\ check' = "blocked"
    /\ found' = (found \/ \E i \in Intent : Unclassified(i))
    /\ UNCHANGED <<stuck, vars>>

\* blocked
ReadBlocked ==
    /\ check = "blocked"
    /\ check' = "answered"
    /\ found' = (found \/ \E i \in Intent : state[i] = "blocked")
    /\ UNCHANGED <<stuck, vars>>

Answer ==
    /\ check = "answered"
    /\ check' = "pending" /\ found' = FALSE /\ stuck' = {}
    /\ UNCHANGED vars

\* The queue moves on while the check is under way.
Meanwhile ==
    /\ Next
    /\ stuck' = {i \in stuck : Undecided(i)'}
    /\ UNCHANGED <<check, found>>

CheckNext ==
    ReadPendingStrict \/ ReadUnclassified \/ ReadBlocked \/ Answer \/ Meanwhile

CheckSpec == CheckInit /\ [][CheckNext]_<<vars, checkVars>>

\* backlog_outbox_service.py:287-291: a write that was undecided all through the
\* check is not read as an empty outbox.
ReadyIsTrue == check = "answered" /\ ~found => stuck = {}
==============================================================================
