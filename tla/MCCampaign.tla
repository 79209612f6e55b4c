----------------------------- MODULE MCCampaign -----------------------------
(* Bounded instance of Campaign for TLC; the workers are interchangeable. *)
EXTENDS Campaign, TLC

CONSTANTS write, p1, p2

Two == {p1, p2}
One == {p1}
Alike == Permutations(Workers)

\* Bound of the states in which the limit is raised, or more is under way than it
\* allows once it is lowered: no step has failed, nothing is being written, and the
\* tick is not winding down (killed then, it leaves the same rows).
Tuned == limit > PrepareAhead \/ Cardinality(Ahead) > limit

WhileTuned ==
    Tuned => /\ stop \in {"off", "none"}
             /\ \A b \in Batches : /\ batches[b].failures = 0
                                   /\ batches[b].phase \notin {"applying", "verifying"}

=============================================================================
