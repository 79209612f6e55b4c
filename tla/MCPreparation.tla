---------------------------- MODULE MCPreparation ----------------------------
EXTENDS Preparation, TLC

\* Two notes with the same audio: one asset.
Shared == [i \in Items |-> "audio"]

Alike == Permutations(Procs)
=============================================================================
