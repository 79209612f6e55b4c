----------------------------- MODULE MCJournal ------------------------------
(* Bounded instance of Journal for TLC. *)
EXTENDS Journal, TLC

CONSTANTS w1, w2

MCWriters == {w1, w2}
MCSymmetry == Permutations(MCWriters)

=============================================================================
