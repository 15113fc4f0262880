---------------------------- MODULE MCTenantChain ----------------------------
(***************************************************************************)
(* Two processes with two threads each, and two tenants, for TLC.          *)
(***************************************************************************)
EXTENDS TenantChain, TLC

CONSTANTS t1, t2, t3, t4, p1, p2

MCBody == 1..MaxAppends
MCHome == t1 :> p1 @@ t2 :> p1 @@ t3 :> p2 @@ t4 :> p2
\* The threads of a process are alike, and the tenants.
Symmetry == Permutations({t1, t2}) \cup Permutations({t3, t4}) \cup Permutations(Tenants)
=============================================================================
