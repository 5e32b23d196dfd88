----------------------------- MODULE MCMemtraq ------------------------------
(* Values for the constants of Memtraq when TLC checks it.                 *)
EXTENDS Memtraq

Symmetry == Permutations(Heap) \cup Permutations(Pool)
=============================================================================
