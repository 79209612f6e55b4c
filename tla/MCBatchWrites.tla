--------------------------- MODULE MCBatchWrites -----------------------------
(* Bounded instance of BatchWrites for TLC: a batch of two notes before a     *)
(* survivor with its duplicate, or a split group alone before two notes.      *)
EXTENDS BatchWrites

CONSTANTS n1, n2

Approved(items, grouped, merging) == [items |-> items, grouped |-> grouped, merging |-> merging]

TwoPlans == {<<Approved({n1, n2}, FALSE, FALSE), Approved({n1}, FALSE, TRUE)>>,
             <<Approved({}, TRUE, FALSE), Approved({n1, n2}, FALSE, FALSE)>>}

=============================================================================
