------------------------------ MODULE Effects -------------------------------
(***************************************************************************)
(* What a journal promises the code that reads it, with no journal states: *)
(* the steps of one operation take effect one at a time and in order, an   *)
(* effect nobody has established stops everything behind it, an operation  *)
(* is complete only when every planned step is confirmed, and it is closed *)
(* as failed only when no step can have taken effect.                      *)
(***************************************************************************)
EXTENDS Naturals

VARIABLES
    outcome,    \* none, active, complete, failed or undone
    planned,    \* the steps recorded for the operation: 1..n for some n
    doubtful,   \* steps that were sent and may or may not have taken effect
    seen,       \* steps reported done, not confirmed against the collection
    cleared,    \* steps that were sent and proved to have had no effect
    confirmed   \* steps whose effect was confirmed

vars == <<outcome, planned, doubtful, seen, cleared, confirmed>>

Init ==
    /\ outcome = "none"
    /\ planned = {} /\ doubtful = {} /\ seen = {}
    /\ cleared = {} /\ confirmed = {}

Sent == doubtful \cup seen \cup cleared \cup confirmed

\* The operation is recorded before any of its steps is sent.
Open ==
    /\ outcome = "none"
    /\ outcome' = "active"
    /\ planned' \in SUBSET Nat
    /\ UNCHANGED <<doubtful, seen, cleared, confirmed>>

\* The next step, and no other, may be sent.
Send(k) ==
    /\ k \in planned \ Sent
    /\ \A i \in planned : i < k => i \in confirmed
    /\ Sent = confirmed
    /\ doubtful' = {k}
    /\ UNCHANGED <<seen, cleared, confirmed>>

\* What is known of the step in flight improves: it is never sent again.
Learn ==
    /\ doubtful' \subseteq doubtful
    /\ confirmed \subseteq confirmed'
    /\ confirmed' \subseteq confirmed \cup doubtful \cup seen
    /\ cleared \subseteq cleared' /\ cleared' \subseteq cleared \cup doubtful
    /\ doubtful' \cup seen' \cup cleared' \cup confirmed' = Sent

\* One durable update while the operation is active.  Further steps may be
\* planned; at most one step is sent; the operation may end.
Work ==
    /\ outcome = "active"
    /\ planned \subseteq planned' /\ planned' \subseteq Nat
    /\ Learn \/ \E k \in planned : Send(k)
    /\ \/ outcome' = "active"
       \/ outcome' = "complete" /\ planned' # {} /\ confirmed' = planned'
       \/ outcome' = "failed" /\ doubtful' = {} /\ seen' = {} /\ confirmed' = {}

\* A verified restore of the whole collection ends the operation.
Undo ==
    /\ outcome \in {"active", "complete"}
    /\ doubtful = {}
    /\ outcome' = "undone"
    /\ UNCHANGED <<planned, doubtful, seen, cleared, confirmed>>

Next == Open \/ Work \/ Undo

Spec == Init /\ [][Next]_vars

=============================================================================
