--------------------------- MODULE GovernedChanges ---------------------------
(***************************************************************************)
(* The governed change workflow of the bridge console backend:             *)
(* bridge-ui/backend/routers/governance_changes.py.                        *)
(*                                                                         *)
(* Request threads submit, decide and apply change requests on one shared  *)
(* SQLite connection under a lock, and report what they did to the audit   *)
(* chain after the commit and outside the lock.  A failing commit raises   *)
(* out of the handler with the transaction still open (or rolled back by   *)
(* SQLite), and the process may die at any step.                           *)
(*                                                                         *)
(* A masked payload is a configuration; its config_hash is the payload it  *)
(* was taken of; the (kind, name) it is applied under is its slot.         *)
(***************************************************************************)
EXTENDS Naturals, Sequences, FiniteSets

CONSTANTS
  Threads,     \* request threads of the server's pool
  People,      \* identities: token subjects, or the names in request bodies
  Validators,  \* those that may decide and apply; everybody without auth
  Nobody, Slots, Configs, NoConfig,   \* as in FourEyes
  NoEvent,     \* a thread that has nothing to report
  RealConfigs, \* bindings the demo-safe floor refuses, if it is on
  Faults,      \* the failures that may happen, see FaultKinds
  MaxChanges,  \* bound: change requests
  MaxCrashes,  \* bound: restarts
  MaxEdits     \* bound: edits of a stored payload behind the code's back

FaultKinds == {"commit", "rollback", "trail"}
NoThread   == "none"

VARIABLES
  saved,   \* the two tables as committed
  view,    \* the two tables as the one connection reads them
  lock,    \* holder of _LOCK
  pc,      \* where each thread is
  event,   \* what each thread will report to the audit chain
  trail,   \* events on the audit chain
  crashes, edits

vars == <<saved, view, lock, pc, event, trail, crashes, edits>>

\* The committed tables against the promise of the loop.
Governed == INSTANCE FourEyes WITH ledger <- saved.rows, live <- saved.live

Row   == Governed!Row
Left(row) == Governed!Left(row)
Tables == [rows : Seq(Row), live : [Slots -> Configs \cup {NoConfig}]]
Events == [kind : {"submit", "approved", "rejected", "apply"},
           id : Nat, who : People]

ASSUME GovernanceAssumption ==
  /\ Validators \subseteq People
  /\ RealConfigs \subseteq Configs
  /\ Faults \subseteq FaultKinds
  /\ MaxChanges \in Nat /\ MaxCrashes \in Nat /\ MaxEdits \in Nat
  /\ Nobody \notin People /\ NoConfig \notin Configs
  /\ NoThread \notin Threads /\ NoEvent \notin Events

Init ==
  /\ saved = [rows |-> <<>>, live |-> [s \in Slots |-> NoConfig]]
  /\ view  = saved
  /\ lock  = NoThread
  /\ pc    = [t \in Threads |-> "idle"]
  /\ event = [t \in Threads |-> NoEvent]
  /\ trail = {}
  /\ crashes = 0 /\ edits = 0

---------------------------------------------------------------------------

\* Under the lock a handler changes the tables and is about to commit.
Execute(t, tables, e) ==
  /\ pc[t] = "idle" /\ lock = NoThread
  /\ lock'  = t
  /\ view'  = tables
  /\ pc'    = [pc EXCEPT ![t] = "commit"]
  /\ event' = [event EXCEPT ![t] = e]
  /\ UNCHANGED <<saved, trail, crashes, edits>>

Ids == DOMAIN view.rows
Proposal(p, slot, op, config) ==
  [status |-> "pending", slot |-> slot, op |-> op, body |-> config, hash |-> config,
   submitter |-> p, reviewer |-> Nobody, applier |-> Nobody, at |-> 0, prev |-> NoConfig]

\* submit_change: the payload is masked and hashed, then stored as pending.
Submit(t, p, slot, op, config) ==
  LET id == Len(view.rows) + 1 IN
  /\ id <= MaxChanges
  /\ Execute(t, [view EXCEPT !.rows = Append(@, Proposal(p, slot, op, config))],
             [kind |-> "submit", id |-> id, who |-> p])

MayDecide(row, p) ==
  /\ p \in Validators
  /\ row.status = "pending"
  /\ p # row.submitter

\* decide_change: any decision but "approve" rejects.
Decide(t, p, id, status) ==
  /\ MayDecide(view.rows[id], p)
  /\ Execute(t, [view EXCEPT !.rows[id] = [@ EXCEPT !.status = status, !.reviewer = p]],
             [kind |-> status, id |-> id, who |-> p])

\* Mutant: whoever approved a change may also execute it.
MayApplyOwnApproval(row, p) ==
  /\ p \in Validators
  /\ row.status = "approved"
  /\ p # row.submitter
  /\ row.body = row.hash
  /\ row.op = "upsert" => row.body \notin RealConfigs

MayApply(row, p) ==
  /\ p \in Validators
  /\ row.status = "approved"
  /\ p # row.submitter /\ p # row.reviewer
  /\ row.body = row.hash
  /\ row.op = "upsert" => row.body \notin RealConfigs

\* applied_at: the time of an apply is its rank among the applied.
Clock == Cardinality({i \in Ids : view.rows[i].status = "applied"}) + 1

\* Mutant: the snapshot is taken after the slot was written.
AppliedLateSnapshot(id, p) ==
  LET row == view.rows[id]
      config == IF row.op = "remove" THEN NoConfig ELSE row.body
  IN
  [rows |-> [view.rows EXCEPT ![id] =
               [row EXCEPT !.status = "applied", !.applier = p,
                           !.at = Clock, !.prev = config]],
   live |-> [view.live EXCEPT ![row.slot] = config]]

\* The tables after person p applied change id: the slot takes the payload or
\* loses its row, and the change remembers what the slot held before.
Applied(id, p) ==
  LET row == view.rows[id] IN
  [rows |-> [view.rows EXCEPT ![id] =
               [row EXCEPT !.status = "applied", !.applier = p,
                           !.at = Clock, !.prev = view.live[row.slot]]],
   live |-> [view.live EXCEPT ![row.slot] =
               IF row.op = "remove" THEN NoConfig ELSE row.body]]

\* apply_change
Apply(t, p, id) ==
  /\ MayApply(view.rows[id], p)
  /\ Execute(t, Applied(id, p), [kind |-> "apply", id |-> id, who |-> p])

Commit(t) ==
  /\ pc[t] = "commit"
  /\ saved' = view
  /\ lock'  = NoThread
  /\ pc'    = [pc EXCEPT ![t] = "report"]
  /\ UNCHANGED <<view, event, trail, crashes, edits>>

\* Mutant: the failed commit is swallowed and the event reported.
CommitFailsQuietly(t) ==
  /\ pc[t] = "commit"
  /\ \/ "commit" \in Faults /\ UNCHANGED view
     \/ "rollback" \in Faults /\ view' = saved
  /\ lock'  = NoThread
  /\ pc'    = [pc EXCEPT ![t] = "report"]
  /\ UNCHANGED <<saved, event, trail, crashes, edits>>

\* Mutant: the failed commit leaves the handler with the lock held.
CommitFailsLocked(t) ==
  /\ pc[t] = "commit"
  /\ \/ "commit" \in Faults /\ UNCHANGED view
     \/ "rollback" \in Faults /\ view' = saved
  /\ pc'    = [pc EXCEPT ![t] = "idle"]
  /\ event' = [event EXCEPT ![t] = NoEvent]
  /\ UNCHANGED <<saved, lock, trail, crashes, edits>>

\* commit() raised: the handler fails and reports nothing.  The statements
\* stay in the connection's open transaction, or SQLite has rolled it back.
CommitFails(t) ==
  /\ pc[t] = "commit"
  /\ \/ "commit" \in Faults /\ UNCHANGED view
     \/ "rollback" \in Faults /\ view' = saved
  /\ lock'  = NoThread
  /\ pc'    = [pc EXCEPT ![t] = "idle"]
  /\ event' = [event EXCEPT ![t] = NoEvent]
  /\ UNCHANGED <<saved, trail, crashes, edits>>

\* _chain_append: after the commit, outside the lock, best effort.
Report(t) ==
  /\ pc[t] = "report"
  /\ \/ trail' = trail \cup {event[t]}
     \/ "trail" \in Faults /\ UNCHANGED trail
  /\ pc'    = [pc EXCEPT ![t] = "idle"]
  /\ event' = [event EXCEPT ![t] = NoEvent]
  /\ UNCHANGED <<saved, view, lock, crashes, edits>>

\* The process dies; the open transaction is gone when it comes back.
Crash ==
  /\ crashes < MaxCrashes
  /\ crashes' = crashes + 1
  /\ view'  = saved
  /\ lock'  = NoThread
  /\ pc'    = [t \in Threads |-> "idle"]
  /\ event' = [t \in Threads |-> NoEvent]
  /\ UNCHANGED <<saved, trail, edits>>

\* Somebody updates a stored payload with another SQLite client, which needs
\* the write lock of the file.
EditPayload(id, config) ==
  /\ edits < MaxEdits /\ lock = NoThread /\ view = saved
  /\ edits' = edits + 1
  /\ view'  = [view EXCEPT !.rows[id].body = config]
  /\ saved' = view'
  /\ UNCHANGED <<lock, pc, event, trail, crashes>>

Handle(t) ==
  \/ \E p \in People, slot \in Slots, op \in {"upsert", "remove"}, config \in Configs :
        Submit(t, p, slot, op, config)
  \/ \E p \in People, id \in Ids :
        \/ \E status \in {"approved", "rejected"} : Decide(t, p, id, status)
        \/ Apply(t, p, id)
  \/ Commit(t) \/ CommitFails(t)
  \/ Report(t)

Next ==
  \/ \E t \in Threads : Handle(t)
  \/ \E id \in Ids, config \in Configs : EditPayload(id, config)
  \/ Crash

Spec == Init /\ [][Next]_vars

---------------------------------------------------------------------------
(* Properties *)

\* Tables, locks and events keep their types, and the tables read through the
\* connection differ from the committed ones only under the lock or after a
\* failed commit.
TypeOK ==
  /\ saved \in Tables /\ view \in Tables
  /\ lock \in Threads \cup {NoThread}
  /\ pc \in [Threads -> {"idle", "commit", "report"}]
  /\ event \in [Threads -> Events \cup {NoEvent}]
  /\ trail \subseteq Events
  /\ crashes \in Nat /\ edits \in Nat
  /\ \A t \in Threads : pc[t] = "commit" <=> lock = t
  /\ view # saved => lock # NoThread \/ "commit" \in Faults

\* Through every interleaving, failed commit, crash and edit, the committed
\* ledger moves forward only, by separate hands, and the live configuration
\* changes only by applying submitted bytes.
FourEyesHold == Governed!Spec

\* What event e claims of the ledger rows.
Happened(e, rows) ==
  /\ e.id \in DOMAIN rows
  /\ LET row == rows[e.id] IN
     CASE e.kind = "submit"   -> row.submitter = e.who
       [] e.kind = "approved" -> row.status \in {"approved", "applied"} /\ row.reviewer = e.who
       [] e.kind = "rejected" -> row.status = "rejected" /\ row.reviewer = e.who
       [] e.kind = "apply"    -> row.status = "applied" /\ row.applier = e.who

\* The audit chain never claims a step of the loop that is not committed: a
\* failed or rolled-back commit reports nothing, and no crash, id or later
\* step takes back what was reported.
TrailIsTruthful == \A e \in trail : Happened(e, saved.rows)

Before(tables, i, j) ==
  /\ tables.rows[i].status = "applied" /\ tables.rows[j].status = "applied"
  /\ tables.rows[i].slot = tables.rows[j].slot
  /\ tables.rows[i].at < tables.rows[j].at

\* The applied changes of a slot, replayed in the order they were applied,
\* explain what each of them found there (prev_snapshot) and what is live now.
Replays(tables) ==
  LET ids == DOMAIN tables.rows
      Done(s) == {i \in ids : tables.rows[i].status = "applied" /\ tables.rows[i].slot = s}
  IN \A s \in Slots :
     /\ Done(s) = {} => tables.live[s] = NoConfig
     /\ \A j \in Done(s) :
        /\ (~\E i \in ids : Before(tables, i, j)) => tables.rows[j].prev = NoConfig
        /\ (~\E k \in ids : Before(tables, j, k)) => tables.live[s] = Left(tables.rows[j])
        /\ \A i \in ids :
              Before(tables, i, j) /\ ~(\E k \in ids : Before(tables, i, k) /\ Before(tables, k, j))
                => tables.rows[j].prev = Left(tables.rows[i])

LedgerReplaysToLive == Replays(saved) /\ Replays(view)

\* What the module says of the trail: the approval is hash-chained, so the
\* whole governed change is on the chain.  Stated for moments when no handler
\* is still on its way to report.
ApprovalIsOnTheTrail ==
  (\A t \in Threads : pc[t] = "idle") =>
     \A i \in DOMAIN saved.rows :
        saved.rows[i].status = "applied" =>
           [kind |-> "approved", id |-> i, who |-> saved.rows[i].reviewer] \in trail
=============================================================================
