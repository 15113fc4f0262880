------------------------------ MODULE FourEyes ------------------------------
(***************************************************************************)
(* What the governance loop promises of its committed state: a ledger of   *)
(* change requests whose rows only move forward, each move made by a       *)
(* person the earlier moves leave free to make it, and a live              *)
(* configuration that changes only by applying the bytes that were         *)
(* submitted (bridge-ui/backend/routers/governance_changes.py).            *)
(***************************************************************************)
EXTENDS Naturals, Sequences

CONSTANTS
  People,    \* identities that submit, decide and apply
  Nobody,    \* no reviewer or applier yet
  Slots,     \* (domain, name) keys of active_configs
  Configs,   \* masked configurations
  NoConfig   \* no row in active_configs

VARIABLES
  ledger,    \* change_requests, the id is the position
  live       \* active_configs

Statuses == {"pending", "approved", "rejected", "applied"}

Row == [status : Statuses, slot : Slots, op : {"upsert", "remove"},
        body : Configs, hash : Configs, submitter : People,
        reviewer : People \cup {Nobody}, applier : People \cup {Nobody},
        at : Nat, prev : Configs \cup {NoConfig}]

\* What a change leaves in its slot: the bytes its config_hash was taken of.
Left(row) == IF row.op = "remove" THEN NoConfig ELSE row.hash

\* No two of the hands a row has passed through are the same person's.
SeparateHands(row) ==
  /\ row.status = "pending" <=> row.reviewer = Nobody
  /\ row.status = "applied" <=> row.applier # Nobody
  /\ row.submitter \notin {row.reviewer, row.applier}
  /\ row.applier # Nobody => row.applier # row.reviewer

\* A proposal is never rewritten, a decision never revised or undone, and
\* only an approved change is applied.
MovesForward(old, new) ==
  /\ \A f \in {"slot", "op", "hash", "submitter"} : new[f] = old[f]
  /\ old.reviewer # Nobody => new.reviewer = old.reviewer
  /\ old.status \in {"rejected", "applied"} =>
       new = [old EXCEPT !.body = new.body]
  /\ old.status = "approved" => new.status \in {"approved", "applied"}

Init ==
  /\ ledger = <<>>
  /\ live = [s \in Slots |-> NoConfig]

Applied(rows, i) == i \in DOMAIN rows /\ rows[i].status = "applied"

\* One commit may carry several moves.
Advance ==
  /\ DOMAIN ledger \subseteq DOMAIN ledger'
  /\ \A i \in DOMAIN ledger' : SeparateHands(ledger'[i])
  /\ \A i \in DOMAIN ledger : MovesForward(ledger[i], ledger'[i])
  /\ \A s \in Slots : live'[s] # live[s] =>
       \E i \in DOMAIN ledger' :
          /\ Applied(ledger', i) /\ ~Applied(ledger, i)
          /\ ledger'[i].slot = s /\ Left(ledger'[i]) = live'[s]

Spec == Init /\ [][Advance]_<<ledger, live>>
=============================================================================
