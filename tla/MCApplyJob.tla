----------------------------- MODULE MCApplyJob -----------------------------
(* Bounded instance of ApplyJob for TLC; the cfg files give the numbers. *)
EXTENDS ApplyJob

=============================================================================
