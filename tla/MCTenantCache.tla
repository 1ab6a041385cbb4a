---------------------------- MODULE MCTenantCache ----------------------------
(* Symmetry for the run of TenantCache.                                    *)
EXTENDS TenantCache, TLC

\* Threads, and tenants whose settings stay the same, are told apart by nothing
\* but their state.
Symmetry == Permutations(Thread) \cup Permutations(Tenant \ Changing)
=============================================================================
