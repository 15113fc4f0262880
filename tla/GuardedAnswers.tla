--------------------------- MODULE GuardedAnswers ---------------------------
(***************************************************************************)
(* The answering side of the library: processes that answer through their  *)
(* guards and record in one ledger, and cascades of tiers.                 *)
(*                                                                         *)
(* A cascade shares no state with the guards or the ledger, so nothing is  *)
(* lost by walking cascades before the first guarded call only.            *)
(***************************************************************************)
EXTENDS UncertaintyGuard, Cascade

vars == <<gvars, cvars>>

Init == GuardInit /\ CascadeInit

Cascades == asks = 0 /\ (\A p \in Procs : calls[p] = 0) /\ CascadeNext /\ UNCHANGED gvars
Guards   == routed = NotRouted /\ walk = NoWalk /\ (\E p \in Procs : GuardStep(p)) /\ UNCHANGED cvars

Next == Cascades \/ Guards

Spec == Init /\ [][Next]_vars
=============================================================================
