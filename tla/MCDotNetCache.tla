---------------------------- MODULE MCDotNetCache ----------------------------
(* Symmetry for the run of DotNetCache.                                    *)
EXTENDS DotNetCache, TLC
Symmetry == Permutations(Thread)
=============================================================================
