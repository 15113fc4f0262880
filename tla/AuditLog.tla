------------------------------ MODULE AuditLog ------------------------------
(***************************************************************************)
(* What the audit trail promises of its persisted chain: it starts empty   *)
(* and only ever grows at its end, by entries that chain on to the last    *)
(* one.  Nothing is rewritten, removed or left out, across any number of   *)
(* restarts ("a restarted backend continues the chain from the last        *)
(* persisted seq", bridge-ui/backend/state/audit.py).                      *)
(***************************************************************************)
EXTENDS HashChain

VARIABLE log

Init == log = {}

\* One commit may carry several entries.
Extend ==
  /\ log \subseteq log'
  /\ \A e \in log' \ log : \A f \in log : f.seq < e.seq
  /\ Intact(log') /\ Dense(log')

Spec == Init /\ [][Extend]_log
=============================================================================
