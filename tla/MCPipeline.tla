----------------------------- MODULE MCPipeline -----------------------------
(* Values for the constants of Pipeline when TLC checks it.                *)
EXTENDS Pipeline

Symmetry == Permutations(Addresses) \cup Permutations(Backtraces)
=============================================================================
