--------------------------- MODULE MCSplitRestore ----------------------------
(* Bounded instance of SplitRestore for TLC. *)
EXTENDS SplitRestore

OneChild == <<"child">>

=============================================================================
