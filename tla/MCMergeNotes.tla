---------------------------- MODULE MCMergeNotes -----------------------------
(* Bounded instance of MergeNotes for TLC. *)
EXTENDS MergeNotes, TLC

CONSTANTS tick, user

Both == {tick, user}
Alike == Permutations(Procs)

=============================================================================
