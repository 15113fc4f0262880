----------------------------- MODULE AuditChain -----------------------------
(***************************************************************************)
(* The tamper-evident audit trail of the bridge console backend:           *)
(* bridge-ui/backend/state/audit.py and the endpoints of                   *)
(* bridge-ui/backend/routers/audit.py that change its state.               *)
(*                                                                         *)
(* Request threads append entries to a bounded in-memory window and to a   *)
(* SQLite store.  Each entry carries its sequence number, the hash of the  *)
(* entry before it and its own hash.  The append runs under a lock; the    *)
(* rotation's clear() and the tamper test's edits do not.  The process can *)
(* die at any step, and boots again from what SQLite has committed.        *)
(*                                                                         *)
(* HashChain says what an entry and its digest are and why the window and  *)
(* the table can be sets of entries ordered by seq.                        *)
(***************************************************************************)
EXTENDS HashChain

CONSTANTS
  Threads,     \* request threads of the server's pool
  Testers,     \* the threads that may run POST /audit/tamper-test
  Marker,      \* the body of the entry a rotation appends
  Canary,      \* the query the tamper test writes into an entry
  NoEntry,     \* no append is between its stamp and its return
  WindowSize,  \* maxlen of the deque
  Faults,      \* the failures that may happen, see FaultKinds
  MaxSeq,      \* bound: entries appended in one life of the process
  MaxBoots     \* bound: restarts

FaultKinds == {"insert", "commit", "rollback", "restore"}

Queries  == Body \ {Marker, Canary}   \* bodies of ordinary entries
NoThread == "none"

ASSUME AuditAssumption ==
  /\ Testers \subseteq Threads
  /\ Faults \subseteq FaultKinds
  /\ WindowSize \in Nat \ {0}
  /\ MaxSeq \in Nat /\ MaxBoots \in Nat
  /\ NoEntry \notin Entry
  /\ NoThread \notin Threads
  /\ Marker \in Body /\ Canary \in Body

VARIABLES
  window,   \* _AUDIT
  seq,      \* _AUDIT_SEQ
  head,     \* _AUDIT_LAST_HASH
  lock,     \* holder of _AUDIT_LOCK
  held,     \* the stamped entry of the append in progress
  disk,     \* rows of audit_entries SQLite has committed
  pending,  \* rows inserted by the open transaction of the one connection
  phase,    \* "up", or "down" while the process is not serving
  boots,    \* restarts so far
  pc,       \* where each thread is
  want,     \* the body each thread is about to append
  test,     \* what each tamper test remembers of its target
  damage    \* history, of the current store: "row" when a row was lost or
            \* stored wrong, "restore" when a boot went on without it

memory == <<window, seq, head, lock, held, pc, want, test>>
store  == <<disk, pending>>
vars   == <<memory, store, phase, boots, damage>>

\* INSERT OR REPLACE of each of the rows new.
Upsert(rows, new) ==
  {e \in rows : \A f \in new : f.seq # e.seq} \cup new

\* What the one connection reads: its own open transaction included.
View == Upsert(disk, pending)

\* A local variable of a call is forgotten when the call is done with it.
NoTest == [seq |-> 0, original |-> Marker]

Init ==
  /\ window = {} /\ seq = 0 /\ head = Genesis
  /\ lock = NoThread /\ held = NoEntry
  /\ disk = {} /\ pending = {}
  /\ phase = "up" /\ boots = 0 /\ damage = {}
  /\ pc = [t \in Threads |-> "idle"]
  /\ want = [t \in Threads |-> Marker]
  /\ test = [t \in Threads |-> NoTest]

---------------------------------------------------------------------------
(* Appending: _audit_append *)

Waiting == {t \in Threads : pc[t] = "waiting"}

\* A handler calls _audit_append and waits for the lock.
Call(t, body) ==
  /\ phase = "up" /\ pc[t] = "idle"
  /\ seq + Cardinality(Waiting) < MaxSeq
  /\ pc'   = [pc EXCEPT ![t] = "waiting"]
  /\ want' = [want EXCEPT ![t] = body]
  /\ UNCHANGED <<window, seq, head, lock, held, test, store, phase, boots, damage>>

\* DELETE /audit: the window is cleared without the lock, then the marker
\* is appended like any other entry.
Rotate(t) ==
  /\ phase = "up" /\ pc[t] = "idle"
  /\ seq + Cardinality(Waiting) < MaxSeq
  /\ window' = {}
  /\ pc'   = [pc EXCEPT ![t] = "waiting"]
  /\ want' = [want EXCEPT ![t] = Marker]
  /\ UNCHANGED <<seq, head, lock, held, test, store, phase, boots, damage>>

\* Mutant: the link is taken from the window, which a rotation empties.
StampedFromWindow(t) ==
  [seq  |-> seq + 1,
   prev |-> LastHash(window),
   hash |-> Digest(seq + 1, LastHash(window), want[t]),
   body |-> want[t]]

Stamped(t) ==
  [seq  |-> seq + 1,
   prev |-> head,
   hash |-> Digest(seq + 1, head, want[t]),
   body |-> want[t]]

\* deque.append: a full deque lets its oldest entry go.
Push(e) ==
  window' = {e} \cup
            (IF Cardinality(window) < WindowSize
             THEN window
             ELSE {f \in window : \E g \in window : g.seq < f.seq})

\* Take the lock, advance the chain head, and make the entry visible.
Stamp(t) ==
  /\ pc[t] = "waiting" /\ lock = NoThread
  /\ lock' = t
  /\ held' = Stamped(t)
  /\ seq'  = seq + 1
  /\ head' = Stamped(t).hash
  /\ Push(Stamped(t))
  /\ pc'   = [pc EXCEPT ![t] = "insert"]
  /\ want' = [want EXCEPT ![t] = Marker]
  /\ UNCHANGED <<test, store, phase, boots, damage>>

\* Leave the with-block: whatever the store did, the append returns.
Return(t) ==
  /\ lock' = NoThread
  /\ held' = NoEntry
  /\ pc'   = [pc EXCEPT ![t] = "idle"]
  /\ UNCHANGED <<window, seq, head, want, test, phase, boots>>

\* The row is what the entry holds now, under the hash it was stamped with.
Insert(t) ==
  /\ pc[t] = "insert"
  /\ pending' = Upsert(pending, {held})
  /\ damage'  = damage \cup (IF Sealed(held) THEN {} ELSE {"row"})
  /\ pc'      = [pc EXCEPT ![t] = "commit"]
  /\ UNCHANGED <<window, seq, head, lock, held, want, test, disk, phase, boots>>

\* execute() raised: the row is lost, the failure is only logged.
InsertFails(t) ==
  /\ "insert" \in Faults
  /\ pc[t] = "insert"
  /\ damage' = damage \cup {"row"}
  /\ Return(t)
  /\ UNCHANGED store

Commit(t) ==
  /\ pc[t] = "commit"
  /\ disk'    = View
  /\ pending' = {}
  /\ Return(t)
  /\ UNCHANGED damage

\* Mutant: the failed commit leaves the method without releasing the lock.
CommitFailsLocked(t) ==
  /\ "commit" \in Faults
  /\ pc[t] = "commit"
  /\ held' = NoEntry
  /\ pc'   = [pc EXCEPT ![t] = "idle"]
  /\ UNCHANGED <<window, seq, head, lock, want, test, store, phase, boots, damage>>

\* commit() raised and SQLite kept the transaction open: the next commit on
\* the connection carries these rows too.
CommitFails(t) ==
  /\ "commit" \in Faults
  /\ pc[t] = "commit"
  /\ Return(t)
  /\ UNCHANGED <<store, damage>>

\* commit() raised and SQLite rolled the transaction back.
CommitRollsBack(t) ==
  /\ "rollback" \in Faults
  /\ pc[t] = "commit"
  /\ pending' = {}
  /\ damage'  = damage \cup {"row"}
  /\ Return(t)
  /\ UNCHANGED disk

---------------------------------------------------------------------------
(* Tamper test: audit_tamper_test, which never takes the lock *)

Rank(e) == Cardinality({f \in window : f.seq < e.seq})

\* Snapshot the window and remember the middle entry's query.
TestBegin(t) ==
  /\ t \in Testers /\ phase = "up" /\ pc[t] = "idle"
  /\ \E e \in window :
        /\ Rank(e) = Cardinality(window) \div 2
        /\ test' = [test EXCEPT ![t] = [seq |-> e.seq, original |-> e.body]]
  /\ pc' = [pc EXCEPT ![t] = "tamper"]
  /\ UNCHANGED <<window, seq, head, lock, held, want, store, phase, boots, damage>>

\* The entry is one object, in the window and in the hands of the append
\* that is still storing it.
SetQuery(e, s, body) == IF e.seq = s THEN [e EXCEPT !.body = body] ELSE e
Edit(s, body) ==
  /\ window' = {SetQuery(e, s, body) : e \in window}
  /\ held'   = IF held = NoEntry THEN held ELSE SetQuery(held, s, body)

TestTamper(t) ==
  /\ pc[t] = "tamper"
  /\ Edit(test[t].seq, Canary)
  /\ pc' = [pc EXCEPT ![t] = "restore"]
  /\ UNCHANGED <<seq, head, lock, want, test, store, phase, boots, damage>>

TestRestore(t) ==
  /\ pc[t] = "restore"
  /\ Edit(test[t].seq, test[t].original)
  /\ pc'   = [pc EXCEPT ![t] = "idle"]
  /\ test' = [test EXCEPT ![t] = NoTest]
  /\ UNCHANGED <<seq, head, lock, want, store, phase, boots, damage>>

---------------------------------------------------------------------------
(* Crash and boot: _audit_restore_from_db at import *)

\* The process stops, cleanly or not: memory and the open transaction go.
Crash ==
  /\ phase = "up" /\ boots < MaxBoots
  /\ boots' = boots + 1
  /\ phase' = "down"
  /\ window' = {} /\ seq' = 0 /\ head' = Genesis
  /\ lock' = NoThread /\ held' = NoEntry
  /\ pending' = {}
  /\ pc'   = [t \in Threads |-> "idle"]
  /\ want' = [t \in Threads |-> Marker]
  /\ test' = [t \in Threads |-> NoTest]
  /\ UNCHANGED <<disk, damage>>

\* Mutant: the first rows instead of the last.
Oldest(rows) ==
  {e \in rows : Cardinality({f \in rows : f.seq < e.seq}) < WindowSize}

Recent(rows) ==
  {e \in rows : Cardinality({f \in rows : f.seq > e.seq}) < WindowSize}

\* The stored chain verifies: reload its tail and continue from its last row.
BootResumes ==
  /\ phase = "down"
  /\ Intact(disk)
  /\ window' = Recent(disk)
  /\ seq'    = LastSeq(disk)
  /\ head'   = LastHash(disk)
  /\ phase'  = "up"
  /\ UNCHANGED <<lock, held, pc, want, test, store, boots, damage>>

\* The stored chain does not verify: the file is renamed away, or its rows
\* deleted in place, and the chain starts again from genesis.
BootQuarantines ==
  /\ phase = "down"
  /\ ~Intact(disk)
  /\ disk'   = {}
  /\ damage' = {}
  /\ phase'  = "up"
  /\ UNCHANGED <<memory, pending, boots>>

\* The restore raised: the import goes on with an empty chain above the rows
\* it could not read.
BootGivesUp ==
  /\ "restore" \in Faults
  /\ phase = "down"
  /\ damage' = damage \cup {"restore"}
  /\ phase'  = "up"
  /\ UNCHANGED <<memory, store, boots>>

Boot == BootResumes \/ BootQuarantines \/ BootGivesUp

---------------------------------------------------------------------------

AppendStep(t) ==
  \/ Stamp(t)
  \/ Insert(t) \/ InsertFails(t)
  \/ Commit(t) \/ CommitFails(t) \/ CommitRollsBack(t)

Next ==
  \/ \E t \in Threads : \E body \in Queries : Call(t, body)
  \/ \E t \in Threads : Rotate(t) \/ AppendStep(t)
  \/ \E t \in Threads : TestBegin(t) \/ TestTamper(t) \/ TestRestore(t)
  \/ Crash
  \/ Boot

Spec == Init /\ [][Next]_vars

\* A thread that holds the lock keeps running; every waiter on the lock is
\* granted it in the end, since every holder releases it; a boot finishes.
FairSpec ==
  /\ Spec
  /\ \A t \in Threads : WF_vars(AppendStep(t)) /\ SF_vars(Stamp(t))
  /\ WF_vars(Boot)
---------------------------------------------------------------------------
(* Properties *)

\* The committed table against the promise of the trail.
Log == INSTANCE AuditLog WITH log <- disk

\* Every variable keeps its type through appends, tests, crashes and boots.
TypeOK ==
  /\ window \subseteq Entry
  /\ seq \in Nat /\ head \in Digests
  /\ lock \in Threads \cup {NoThread}
  /\ held \in Entry \cup {NoEntry}
  /\ disk \subseteq Entry /\ pending \subseteq Entry
  /\ phase \in {"up", "down"} /\ boots \in Nat
  /\ pc \in [Threads -> {"idle", "waiting", "insert", "commit", "tamper", "restore"}]
  /\ want \in [Threads -> Body]
  /\ test \in [Threads -> [seq : Nat, original : Body]]
  /\ damage \subseteq {"row", "restore"}

\* Between tamper tests the live window always verifies and ends at the chain
\* head, whatever persistence failed, was rotated away or was reloaded at boot
\* (audit_verify, source=memory).
WindowVerifies ==
  (\A t \in Threads : pc[t] # "restore") =>
     /\ Intact(window)
     /\ window # {} => LastSeq(window) = seq /\ LastHash(window) = head

\* The at-rest check raises no false alarm: as long as no insert was lost, no
\* transaction rolled back, no restore skipped and no tampered body stored,
\* the table verifies, and lags the chain head by the entry in progress only.
NoFalseAlarm ==
  damage = {} =>
     /\ Intact(View)
     /\ phase = "up" =>
          IF \E t \in Threads : pc[t] = "insert"
          THEN LastSeq(View) = seq - 1 /\ LastHash(View) = held.prev
          ELSE LastSeq(View) = seq     /\ LastHash(View) = head

\* While the process serves, a committed row is neither removed nor replaced,
\* unless an earlier boot went on over rows it failed to restore.
CommittedRowsStay ==
  [][phase = "up" /\ "restore" \notin damage => disk \subseteq disk']_vars

\* A boot over an undamaged store continues the chain from its last committed
\* row and touches no row.
RestartResumes ==
  [][phase = "down" /\ phase' = "up" /\ damage = {} /\ damage' = {} =>
       /\ disk' = disk
       /\ seq' = LastSeq(disk) /\ head' = LastHash(disk)]_vars

\* Every _audit_append returns (or the process dies): no failure of the store
\* leaves the lock held.
AppendReturns ==
  \A t \in Threads : pc[t] = "waiting" ~> pc[t] = "idle"

\* As long as the only failure is a commit SQLite keeps open, the committed
\* table is an append-only dense chain through every crash and restart.
StoreIsAppendOnlyLog == Log!Spec

\* What the module says of a restart: it continues the chain from the last
\* persisted seq instead of starting over from genesis.
RestartContinuesChain ==
  [][phase = "down" /\ phase' = "up" => seq' = LastSeq(disk)]_vars

\* What the tamper test says of itself: the entry was mutated in memory and
\* then restored, so the persisted chain stays valid.
TamperTestLeavesStoreIntact == Intact(View)
=============================================================================
