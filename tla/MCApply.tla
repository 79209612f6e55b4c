------------------------------ MODULE MCApply -------------------------------
(* Bounded instances of Apply for TLC; the configurations differ in the item. *)
EXTENDS Apply

=============================================================================
