---------------------------- MODULE MCCompanion -----------------------------
(* Bounded instance of Companion for TLC: two mutations and one export. *)
EXTENDS Companion

CONSTANTS o1, o2, x

MCOps == {o1, o2, x}
MCExports == {x}
AllFaults == {"abandon", "ledger"}
OnlyAbandon == {"abandon"}

=============================================================================
