---------------------------- MODULE MCGrantStore ----------------------------
(* A small instance of GrantStore: two grants that compete for one approval *)
(* identity, one of them dropped by the stricter policy and short-lived.    *)
EXTENDS GrantStore, TLC

CONSTANTS a1, g1, g2, lax, strict, p1, p2, e1, e2

MCIds == {a1}
MCGrants == {g1, g2}
MCPolicies == {lax, strict}
MCApprovalId == (g1 :> a1) @@ (g2 :> a1)
MCExpires == (g1 :> 2) @@ (g2 :> 1)
MCPermitted == (lax :> {g1, g2}) @@ (strict :> {g1})
\* Processes of a kind are interchangeable: nothing orders them.
MCSymmetry == Permutations({p1, p2}) \cup Permutations({e1, e2})
=============================================================================
