-------------------------- MODULE MCTenancyPatterns --------------------------
(* Two tenants, two names and two snapshots for the run of TenancyPatterns. *)
EXTENDS TenancyPatterns, TLC
CONSTANTS ta, tb, x, y, va, vb, vs, v1, v2, s1, s2

MCNameOrder == <<x, y>>
MCValues == ta :> {va} @@ tb :> {vb} @@ Shared :> {vs}

Of(n, name) == [prefix |-> n, name |-> name]

\* A snapshot of all that ta has, and one with a key of somebody else.
MCContents ==
  s1 :> [k \in Key |-> IF k \in {Of(ta, x), Of(ta, y)} THEN v1 ELSE None] @@
  s2 :> [k \in Key |-> IF k \in {Of(ta, y), Of(tb, x)} THEN v2 ELSE None]
MCRetentions == {None, 1}
=============================================================================
