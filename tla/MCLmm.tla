------------------------------- MODULE MCLmm --------------------------------
(* Values for the constants of Lmm when TLC checks it.                     *)
EXTENDS Lmm, Bitwise, TLC

MCBitAnd(x, m) == x & m

Symmetry == Permutations(Threads)
=============================================================================
