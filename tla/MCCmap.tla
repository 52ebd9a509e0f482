------------------------------- MODULE MCCmap --------------------------------
(* An instance of Cmap for TLC. *)
EXTENDS Cmap, TLC

Symmetry == Permutations(Key) \cup Permutations(Readers)
=============================================================================
