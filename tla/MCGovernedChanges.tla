-------------------------- MODULE MCGovernedChanges --------------------------
(***************************************************************************)
(* Small instances of GovernedChanges for TLC.  The threads differ by name *)
(* only, and so do the validators and, with the demo-safe floor off        *)
(* (RealConfigs empty), the configurations: permuting them maps behaviours *)
(* to behaviours, and safety may be checked up to symmetry.                *)
(***************************************************************************)
EXTENDS GovernedChanges, TLC

Symmetry ==
  Permutations(Threads) \cup Permutations(Validators) \cup Permutations(Configs)
=============================================================================
