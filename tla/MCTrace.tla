------------------------------ MODULE MCTrace -------------------------------
(* Values for the constants of Trace when TLC checks it.                   *)
EXTENDS Trace

\* Calls whose backtrace takes or releases a block of the pool.
MCCalls == {malloc(malloc(lmm_alloc)), realloc(free(lmm_free))}
Levels(h, l, m) == [c \in Classes |-> CASE c = "HOOKS" -> h [] c = "LMM" -> l
                                        [] c = "MEMTRAQ" -> m [] OTHER -> Unset]
MCEnvironments == {Levels(2, -1, 3), Levels(Unset, 3, 0)}
=============================================================================
