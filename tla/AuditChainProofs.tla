--------------------------- MODULE AuditChainProofs ---------------------------
(***************************************************************************)
(* Theorems about AuditChain, for any number of threads, any window size   *)
(* and any bounds.                                                         *)
(***************************************************************************)
EXTENDS AuditChain, HashChainProofs, FiniteSetTheorems

\* Replacing rows keeps a newest one, and rows above a table are added to it.
LEMMA UpsertFacts ==
  ASSUME NEW rows \in SUBSET Entry, NEW new \in SUBSET Entry
  PROVE  /\ Upsert(rows, new) \in SUBSET Entry
         /\ HasNewest(rows) /\ HasNewest(new) => HasNewest(Upsert(rows, new))
         /\ (\A e \in rows, f \in new : e.seq < f.seq) => Upsert(rows, new) = rows \cup new
<1>1. \A e \in rows \cup new : e.seq \in Nat
  BY DEF Entry
<1>2. Upsert(rows, new) \in SUBSET Entry
  BY DEF Upsert
<1>3. ASSUME HasNewest(rows), HasNewest(new)
      PROVE  HasNewest(Upsert(rows, new))
  <2>1. CASE new = {}
    <3>1. Upsert(rows, new) = rows
      BY <2>1 DEF Upsert
    <3> QED
      BY <3>1, <1>3
  <2>2. CASE new # {} /\ rows = {}
    <3>1. Upsert(rows, new) = new
      BY <2>2 DEF Upsert
    <3> QED
      BY <3>1, <1>3
  <2>3. CASE new # {} /\ rows # {}
    <3>1. PICK r \in rows : \A f \in rows : f.seq <= r.seq
      BY <2>3, <1>3 DEF HasNewest, IsNewest
    <3>2. PICK n \in new : \A f \in new : f.seq <= n.seq
      BY <2>3, <1>3 DEF HasNewest, IsNewest
    <3>3. CASE r.seq <= n.seq
      <4>1. n \in Upsert(rows, new) /\ \A f \in Upsert(rows, new) : f.seq <= n.seq
        BY <1>1, <3>1, <3>2, <3>3 DEF Upsert
      <4> QED
        BY <4>1 DEF HasNewest, IsNewest
    <3>4. CASE n.seq < r.seq
      <4>1. r \in Upsert(rows, new) /\ \A f \in Upsert(rows, new) : f.seq <= r.seq
        BY <1>1, <3>1, <3>2, <3>4 DEF Upsert
      <4> QED
        BY <4>1 DEF HasNewest, IsNewest
    <3> QED
      BY <1>1, <3>3, <3>4
  <2> QED
    BY <2>1, <2>2, <2>3
<1>4. (\A e \in rows, f \in new : e.seq < f.seq) => Upsert(rows, new) = rows \cup new
  BY <1>1 DEF Upsert
<1> QED
  BY <1>2, <1>3, <1>4

---------------------------------------------------------------------------
(***************************************************************************)
(* Types, and who holds the lock.  held is the entry the lock's holder has *)
(* stamped: the chain head is its hash until the lock is released.         *)
(***************************************************************************)
Holding ==
  /\ \A t \in Threads : pc[t] \in {"insert", "commit"} <=> lock = t
  /\ held = NoEntry <=> lock = NoThread
  /\ held # NoEntry => held.seq = seq /\ held.hash = head

\* Nothing of the memory or of the open transaction outlives the process.
Down ==
  phase = "down" =>
     /\ pending = {} /\ seq = 0 /\ head = Genesis /\ lock = NoThread
     /\ \A t \in Threads : pc[t] = "idle"

Typed == TypeOK /\ Holding /\ Down /\ HasNewest(disk) /\ HasNewest(pending)

\* A stamped entry is an entry.
LEMMA StampedType ==
  ASSUME AuditAssumption, TypeOK, NEW t \in Threads
  PROVE  /\ Stamped(t) \in Entry /\ Stamped(t) # NoEntry
         /\ Stamped(t).seq = seq + 1 /\ Stamped(t).prev = head
         /\ Sealed(Stamped(t))
<1> USE DEF TypeOK
<1>1. <<seq + 1, want[t]>> \in Nat \X Body
  OBVIOUS
<1>2. Digest(seq + 1, head, want[t]) \in Digests
  BY <1>1 DEF Digest, Digests
<1>3. Stamped(t) \in Entry
  BY <1>2 DEF Stamped, Entry
<1> QED
  BY <1>3 DEF Stamped, AuditAssumption, Sealed

\* An edit changes bodies only.
LEMMA EditFacts ==
  ASSUME AuditAssumption, TypeOK, NEW s, NEW body \in Body, Edit(s, body)
  PROVE  /\ window' \subseteq Entry /\ held' \in Entry \cup {NoEntry}
         /\ held = NoEntry <=> held' = NoEntry
         /\ held # NoEntry => \A f \in {"seq", "prev", "hash"} : held'[f] = held[f]
<1>1. \A e \in Entry : /\ SetQuery(e, s, body) \in Entry
                       /\ \A f \in {"seq", "prev", "hash"} : SetQuery(e, s, body)[f] = e[f]
  BY DEF SetQuery, Entry
<1> QED
  BY <1>1 DEF Edit, TypeOK, AuditAssumption

LEMMA TypedInit ==
  ASSUME AuditAssumption, Init
  PROVE  Typed
<1>1. HasNewest({})
  BY DEF HasNewest
<1>2. TypeOK
  BY DEF Init, TypeOK, AuditAssumption, NoTest, Digests, Genesis
<1> QED
  BY <1>1, <1>2 DEF Init, Typed, Holding, Down, AuditAssumption

\* Every step keeps the types and the lock discipline.
LEMMA TypedStep ==
  ASSUME AuditAssumption, Typed, [Next]_vars
  PROVE  Typed'
<1> USE DEF Typed
<1>1. ASSUME NEW t \in Threads, NEW body \in Queries, Call(t, body)
      PROVE  Typed'
  BY <1>1 DEF Call, Queries, TypeOK, Holding, Down, HasNewest, store
<1>2. ASSUME NEW t \in Threads, Rotate(t)
      PROVE  Typed'
  BY <1>2 DEF Rotate, TypeOK, Holding, Down, HasNewest, store, AuditAssumption
<1>3. ASSUME NEW t \in Threads, Stamp(t)
      PROVE  Typed'
  <2>1. /\ Stamped(t) \in Entry /\ Stamped(t) # NoEntry
        /\ Stamped(t).seq = seq + 1 /\ Stamped(t).hash \in Digests
    BY StampedType DEF Entry
  <2>2. window' \subseteq Entry
    BY <1>3, <2>1 DEF Stamp, Push, TypeOK
  <2>3. TypeOK'
    BY <1>3, <2>1, <2>2 DEF Stamp, TypeOK, store, AuditAssumption
  <2>4. phase = "up"
    BY <1>3 DEF Stamp, Down, TypeOK
  <2> QED
    BY <1>3, <2>1, <2>3, <2>4
       DEF Stamp, TypeOK, Holding, Down, HasNewest, store, AuditAssumption
<1>4. ASSUME NEW t \in Threads, Return(t), pc[t] \in {"insert", "commit"},
             disk' \subseteq Entry, pending' \subseteq Entry,
             HasNewest(disk'), HasNewest(pending'), damage' \subseteq {"row", "restore"}
      PROVE  Typed'
  <2>1. phase = "up" /\ lock = t
    BY <1>4 DEF Down, Holding, TypeOK
  <2> QED
    BY <1>4, <2>1 DEF Return, TypeOK, Holding, Down, AuditAssumption
<1>5. ASSUME NEW t \in Threads, Insert(t)
      PROVE  Typed'
  <2>1. held \in Entry /\ phase = "up"
    BY <1>5 DEF Insert, Holding, Down, TypeOK, AuditAssumption
  <2>2. HasNewest({held})
    BY <2>1 DEF HasNewest, IsNewest, Entry
  <2>3. pending' \subseteq Entry /\ HasNewest(pending')
    BY <1>5, <2>1, <2>2, UpsertFacts DEF Insert, TypeOK
  <2> QED
    BY <1>5, <2>1, <2>3 DEF Insert, TypeOK, Holding, Down, HasNewest
<1>6. ASSUME NEW t \in Threads, InsertFails(t) \/ CommitFails(t) \/ CommitRollsBack(t)
      PROVE  Typed'
  <2>1. disk' = disk /\ pending' \in {pending, {}} /\ damage' \in {damage, damage \cup {"row"}}
    BY <1>6 DEF InsertFails, CommitFails, CommitRollsBack, store
  <2>2. Return(t) /\ pc[t] \in {"insert", "commit"}
    BY <1>6 DEF InsertFails, CommitFails, CommitRollsBack
  <2> QED
    BY <1>4, <2>1, <2>2 DEF TypeOK, HasNewest
<1>7. ASSUME NEW t \in Threads, Commit(t)
      PROVE  Typed'
  <2>1. View \subseteq Entry /\ HasNewest(View)
    BY UpsertFacts DEF View, TypeOK
  <2> QED
    BY <1>4, <1>7, <2>1 DEF Commit, TypeOK, HasNewest
<1>8. ASSUME NEW t \in Threads, TestBegin(t)
      PROVE  Typed'
  <2>1. PICK e \in window :
          test' = [test EXCEPT ![t] = [seq |-> e.seq, original |-> e.body]]
    BY <1>8 DEF TestBegin
  <2>2. e.seq \in Nat /\ e.body \in Body
    BY <2>1 DEF TypeOK, Entry
  <2>3. test' \in [Threads -> [seq : Nat, original : Body]]
    BY <2>1, <2>2 DEF TypeOK
  <2> QED
    BY <1>8, <2>3 DEF TestBegin, TypeOK, Holding, Down, HasNewest, store
<1>9. ASSUME NEW t \in Threads, TestTamper(t) \/ TestRestore(t)
      PROVE  Typed'
  <2>1. PICK s \in Nat, body \in Body : Edit(s, body)
    BY <1>9 DEF TestTamper, TestRestore, TypeOK, AuditAssumption
  <2>2. /\ window' \subseteq Entry /\ held' \in Entry \cup {NoEntry}
        /\ held = NoEntry <=> held' = NoEntry
        /\ held # NoEntry => held'.seq = held.seq /\ held'.hash = held.hash
    BY <2>1, EditFacts
  <2>3. test' \in [Threads -> [seq : Nat, original : Body]]
    BY <1>9 DEF TestTamper, TestRestore, TypeOK, NoTest, AuditAssumption
  <2>4. pc' \in [Threads -> {"idle", "waiting", "insert", "commit", "tamper", "restore"}]
    BY <1>9 DEF TestTamper, TestRestore, TypeOK
  <2>5. UNCHANGED <<seq, head, lock, want, disk, pending, phase, boots, damage>>
    BY <1>9 DEF TestTamper, TestRestore, store
  <2>6. TypeOK'
    BY <2>2, <2>3, <2>4, <2>5 DEF TypeOK
  <2> QED
    BY <1>9, <2>2, <2>6
       DEF TestTamper, TestRestore, TypeOK, Holding, Down, HasNewest, store
<1>10. CASE Crash
  BY <1>10 DEF Crash, TypeOK, Holding, Down, HasNewest, NoTest, Digests, Genesis,
               AuditAssumption
<1>11. CASE BootResumes
  <2>1. LastSeq(disk) \in Nat /\ LastHash(disk) \in Digests
    BY LastIsARow DEF TypeOK
  <2> QED
    BY <1>11, <2>1 DEF BootResumes, Recent, TypeOK, Holding, Down, HasNewest, store,
                       AuditAssumption
<1>12. CASE BootQuarantines \/ BootGivesUp
  <2>1. /\ UNCHANGED <<window, seq, head, lock, held, pc, want, test, pending, boots>>
        /\ phase' = "up" /\ damage' \subseteq damage \cup {"restore"}
        /\ disk' \in {disk, {}}
    BY <1>12 DEF BootQuarantines, BootGivesUp, memory, store
  <2>2. TypeOK'
    BY <2>1 DEF TypeOK
  <2> QED
    BY <2>1, <2>2 DEF Holding, Down, HasNewest
<1>13. CASE UNCHANGED vars
  BY <1>13 DEF vars, memory, store, TypeOK, Holding, Down, HasNewest
<1> QED
  BY <1>1, <1>2, <1>3, <1>5, <1>6, <1>7, <1>8, <1>9, <1>10, <1>11, <1>12, <1>13
     DEF Next, AppendStep, Boot

THEOREM TypedAlways == Spec => []Typed
<1>1. Init => Typed
  BY TypedInit, AuditAssumption
<1>2. Typed /\ [Next]_vars => Typed'
  BY TypedStep, AuditAssumption
<1> QED
  BY <1>1, <1>2, PTL DEF Spec

\* In every reachable state the variables have their types, for any threads,
\* window size, faults and bounds.
THEOREM TypeCorrect == Spec => []TypeOK
<1>1. Typed => TypeOK
  BY DEF Typed
<1> QED
  BY <1>1, TypedAlways, PTL

---------------------------------------------------------------------------
(***************************************************************************)
(* Sequence numbers: unless a boot has gone on over rows it failed to      *)
(* restore, the store holds no number the chain has yet to give out, and   *)
(* the open transaction only adds rows above the committed ones.           *)
(***************************************************************************)
Inserting == \E t \in Threads : pc[t] = "insert"

\* The last number the store should know of, and the hash that goes with it.
Top     == IF Inserting THEN seq - 1 ELSE seq
TopHash == IF Inserting THEN held.prev ELSE head

Numbered ==
  "restore" \notin damage =>
     /\ \A d \in disk, p \in pending : d.seq < p.seq
     /\ phase = "up" => \A e \in disk \cup pending : e.seq <= Top

\* The steps that change neither the store nor what it should know of.
Quiet ==
  \/ \E t \in Threads : \E body \in Queries : Call(t, body)
  \/ \E t \in Threads : Rotate(t) \/ TestBegin(t) \/ TestTamper(t) \/ TestRestore(t)
  \/ UNCHANGED vars

LEMMA QuietFacts ==
  ASSUME AuditAssumption, Typed, Quiet
  PROVE  /\ UNCHANGED <<disk, pending, phase, damage>>
         /\ Top' = Top /\ TopHash' = TopHash
<1> USE DEF Typed
<1>1. UNCHANGED <<disk, pending, phase, damage, seq, head>>
  BY DEF Quiet, Call, Rotate, TestBegin, TestTamper, TestRestore, vars, memory, store
<1>2. Inserting' <=> Inserting
  BY DEF Quiet, Call, Rotate, TestBegin, TestTamper, TestRestore, vars, memory,
         Inserting, TypeOK
<1>3. ASSUME Inserting
      PROVE  held'.prev = held.prev
  <2>1. held # NoEntry
    BY <1>3 DEF Inserting, Holding, AuditAssumption
  <2>2. CASE \E t \in Threads : TestTamper(t) \/ TestRestore(t)
    <3>1. PICK s \in Nat, body \in Body : Edit(s, body)
      BY <2>2 DEF TestTamper, TestRestore, TypeOK, AuditAssumption
    <3> QED
      BY <2>1, <3>1, EditFacts
  <2>3. CASE held' = held
    BY <2>3
  <2> QED
    BY <2>2, <2>3 DEF Quiet, Call, Rotate, TestBegin, vars, memory
<1> QED
  BY <1>1, <1>2, <1>3 DEF Top, TopHash

\* What an append does to the top, step by step.
LEMMA AppendTop ==
  ASSUME AuditAssumption, Typed, NEW t \in Threads
  PROVE  /\ Stamp(t) => Top' = Top /\ TopHash' = TopHash
         /\ pc[t] = "insert" => /\ Top = held.seq - 1 /\ TopHash = held.prev
                                /\ held \in Entry /\ held.seq = seq /\ held.hash = head
         /\ pc[t] = "commit" => Top = seq /\ TopHash = head
         /\ Insert(t) \/ (Return(t) /\ pc[t] \in {"insert", "commit"}) =>
              Top' = seq /\ TopHash' = head
<1> USE DEF Typed
<1>1. ASSUME Stamp(t)
      PROVE  Top' = Top /\ TopHash' = TopHash
  <2>1. ~Inserting
    BY <1>1 DEF Stamp, Inserting, Holding, AuditAssumption
  <2>2. Inserting'
    BY <1>1 DEF Stamp, Inserting, TypeOK
  <2> QED
    BY <1>1, <2>1, <2>2, StampedType DEF Stamp, Top, TopHash, TypeOK
<1>2. ASSUME pc[t] = "insert"
      PROVE  /\ Top = held.seq - 1 /\ TopHash = held.prev
             /\ held \in Entry /\ held.seq = seq /\ held.hash = head
  BY <1>2 DEF Top, TopHash, Inserting, Holding, TypeOK, AuditAssumption
<1>3. ASSUME pc[t] = "commit"
      PROVE  Top = seq /\ TopHash = head
  BY <1>3 DEF Top, TopHash, Inserting, Holding
<1>4. ASSUME Insert(t) \/ (Return(t) /\ pc[t] \in {"insert", "commit"})
      PROVE  Top' = seq /\ TopHash' = head
  <2>1. seq' = seq /\ head' = head
    BY <1>4 DEF Insert, Return
  <2>2. ~Inserting'
    BY <1>4 DEF Insert, Return, Inserting, Holding, TypeOK
  <2> QED
    BY <2>1, <2>2 DEF Top, TopHash
<1> QED
  BY <1>1, <1>2, <1>3, <1>4

LEMMA NumberedStep ==
  ASSUME AuditAssumption, Typed, Numbered, [Next]_vars
  PROVE  Numbered'
<1> USE DEF Typed
<1>1. \A e \in disk \cup pending : e.seq \in Nat
  BY DEF TypeOK, Entry
<1>2. CASE Quiet
  BY <1>2, QuietFacts DEF Numbered
<1>3. ASSUME NEW t \in Threads, Stamp(t)
      PROVE  Numbered'
  BY <1>3, AppendTop DEF Stamp, store, Numbered
<1>4. ASSUME NEW t \in Threads, Insert(t)
      PROVE  Numbered'
  <2>1. /\ Top = held.seq - 1 /\ Top' = held.seq
        /\ held \in Entry /\ held.seq \in Nat
    BY <1>4, AppendTop DEF Insert, Entry
  <2>2. "restore" \notin damage' => "restore" \notin damage
    BY <1>4 DEF Insert
  <2>3. disk' = disk /\ pending' \subseteq pending \cup {held}
    BY <1>4 DEF Insert, Upsert
  <2>4. phase = "up"
    BY <1>4 DEF Insert, Down, TypeOK
  <2> QED
    BY <1>1, <2>1, <2>2, <2>3, <2>4 DEF Numbered
<1>5. ASSUME NEW t \in Threads,
             InsertFails(t) \/ Commit(t) \/ CommitFails(t) \/ CommitRollsBack(t)
      PROVE  Numbered'
  <2>1. Return(t) /\ pc[t] \in {"insert", "commit"}
    BY <1>5 DEF InsertFails, Commit, CommitFails, CommitRollsBack
  <2>2. Top' = seq
    BY <2>1, AppendTop
  <2>3. Top <= seq /\ Top \in Int
    BY DEF Top, TypeOK
  <2>4. phase = "up" /\ phase' = phase
    BY <2>1 DEF Down, TypeOK, Return
  <2>5. /\ "restore" \notin damage' => "restore" \notin damage
        /\ \/ disk' = disk /\ pending' \in {pending, {}}
           \/ disk' \subseteq disk \cup pending /\ pending' = {}
    BY <1>5 DEF InsertFails, Commit, CommitFails, CommitRollsBack, store, View, Upsert
  <2> QED
    BY <1>1, <2>2, <2>3, <2>4, <2>5 DEF Numbered, TypeOK
<1>6. CASE Crash
  BY <1>6 DEF Crash, Numbered
<1>7. CASE BootResumes
  <2>1. \A e \in disk : e.seq <= LastSeq(disk)
    BY LastIsARow DEF TypeOK
  <2>2. ~Inserting'
    BY <1>7 DEF BootResumes, Inserting, Down
  <2> QED
    BY <1>7, <2>1, <2>2 DEF BootResumes, Numbered, Down, Top, store
<1>8. CASE BootQuarantines \/ BootGivesUp
  BY <1>8 DEF BootQuarantines, BootGivesUp, Numbered, Down
<1> QED
  BY <1>2, <1>3, <1>4, <1>5, <1>6, <1>7, <1>8 DEF Next, AppendStep, Boot, Quiet

LEMMA NumberedAlways == Spec => [](Typed /\ Numbered)
<1>1. Init => Numbered
  BY DEF Init, Numbered
<1>2. Typed /\ Numbered /\ [Next]_vars => Numbered'
  BY NumberedStep, AuditAssumption
<1> QED
  BY <1>1, <1>2, TypedAlways, PTL DEF Spec

\* While the process serves, no append, failed commit, rotation or tamper test
\* removes or replaces a committed row, whatever the bounds, as long as no boot
\* went on over rows it failed to restore: the numbers handed out after a
\* restart are all above the stored ones, and so INSERT OR REPLACE never
\* replaces.
THEOREM RowsStay == Spec => CommittedRowsStay
<1>1. ASSUME Typed, Numbered, [Next]_vars, phase = "up", "restore" \notin damage
      PROVE  disk \subseteq disk'
  <2>1. CASE \E t \in Threads : Commit(t)
    <3>1. \A d \in disk, p \in pending : d.seq # p.seq
      BY <1>1 DEF Typed, TypeOK, Entry, Numbered
    <3> QED
      BY <2>1, <3>1 DEF Commit, View, Upsert
  <2>2. CASE disk' = disk
    BY <2>2
  <2> QED
    BY <1>1, <2>1, <2>2
       DEF Next, vars, memory, store, Call, Rotate, AppendStep, Stamp, Insert, InsertFails,
           CommitFails, CommitRollsBack, TestBegin, TestTamper, TestRestore, Crash,
           Boot, BootResumes, BootQuarantines, BootGivesUp
<1>2. Typed /\ Numbered /\ [Next]_vars =>
        [phase = "up" /\ "restore" \notin damage => disk \subseteq disk']_vars
  BY <1>1
<1> QED
  BY <1>2, NumberedAlways, PTL DEF Spec, CommittedRowsStay

---------------------------------------------------------------------------
(***************************************************************************)
(* The store as a chain: while nothing damaged it, the committed rows and  *)
(* the rows the connection reads are dense chains, and what it reads ends  *)
(* where the next entry will link.                                         *)
(***************************************************************************)
Whole(rows) == Chain(rows) /\ \E s, h : EndsAt(rows, s, h)

Chained ==
  damage = {} =>
     /\ Whole(disk) /\ Whole(View)
     /\ phase = "up" => EndsAt(View, Top, TopHash)

Inv == Typed /\ Numbered /\ Chained

LEMMA ViewIsUnion ==
  ASSUME Typed, Numbered, damage = {}
  PROVE  View = disk \cup pending
BY UpsertFacts DEF View, Typed, TypeOK, Numbered

LEMMA ChainedStep ==
  ASSUME AuditAssumption, Inv, [Next]_vars
  PROVE  Chained'
<1> SUFFICES ASSUME damage' = {}
             PROVE  /\ Whole(disk') /\ Whole(View')
                    /\ phase' = "up" => EndsAt(View', Top', TopHash')
  BY DEF Chained
<1> USE DEF Inv
<1>1. CASE Quiet
  BY <1>1, QuietFacts DEF Chained, View
<1>2. ASSUME NEW t \in Threads, Stamp(t)
      PROVE  Chained'
  BY <1>2, AppendTop DEF Stamp, store, Chained, View
<1>3. ASSUME NEW t \in Threads, Insert(t)
      PROVE  Chained'
  <2>1. damage = {} /\ Sealed(held) /\ phase = "up"
    BY <1>3 DEF Insert, Typed, TypeOK, Down
  <2>2. /\ Top = held.seq - 1 /\ TopHash = held.prev /\ held \in Entry
        /\ Top' = held.seq /\ TopHash' = held.hash
    BY <1>3, AppendTop DEF Insert
  <2>3. View = disk \cup pending /\ View \subseteq Entry
    BY <2>1, ViewIsUnion DEF Typed, TypeOK
  <2>4. Whole(View \cup {held}) /\ EndsAt(View \cup {held}, held.seq, held.hash)
    BY <2>1, <2>2, <2>3, ChainExtends DEF Chained, Whole
  <2>5. \A e \in View : e.seq < held.seq
    BY <2>1, <2>2, <2>3 DEF Numbered, Entry
  <2>6. pending' = pending \cup {held}
    BY <1>3, <2>2, <2>3, <2>5, UpsertFacts DEF Insert, Typed, TypeOK
  <2>7. disk' = disk /\ \A d \in disk, p \in pending' : d.seq < p.seq
    BY <1>3, <2>1, <2>3, <2>5, <2>6 DEF Insert, Numbered
  <2>8. View' = View \cup {held}
    BY <2>2, <2>3, <2>6, <2>7, UpsertFacts DEF View, Typed, TypeOK
  <2> QED
    BY <2>1, <2>2, <2>4, <2>7, <2>8 DEF Chained
<1>4. ASSUME NEW t \in Threads,
             InsertFails(t) \/ Commit(t) \/ CommitFails(t) \/ CommitRollsBack(t)
      PROVE  Chained'
  <2>1. pc[t] = "commit" /\ Return(t) /\ damage = {}
    BY <1>4 DEF InsertFails, Commit, CommitFails, CommitRollsBack
  <2>2. Top' = Top /\ TopHash' = TopHash /\ phase' = phase
    BY <2>1, AppendTop DEF Return
  <2>3. disk' \in {disk, View} /\ View' = View
    BY <1>4 DEF InsertFails, Commit, CommitFails, CommitRollsBack, store, View, Upsert
  <2> QED
    BY <2>1, <2>2, <2>3 DEF Chained
<1>5. CASE Crash
  <2>1. View' = disk
    BY <1>5 DEF Crash, View, Upsert
  <2> QED
    BY <1>5, <2>1 DEF Crash, Chained
<1>6. CASE BootResumes
  <2>1. View' = disk /\ View = disk
    BY <1>6 DEF BootResumes, store, View, Upsert, Typed, Down
  <2>2. damage = {} /\ disk' = disk
    BY <1>6 DEF BootResumes, store
  <2>3. PICK s, h : EndsAt(disk, s, h)
    BY <2>2 DEF Chained, Whole
  <2>4. seq' = s /\ head' = h
    BY <1>6, <2>3, EndsAtLast DEF BootResumes, Typed, TypeOK
  <2>5. ~Inserting'
    BY <1>6 DEF BootResumes, Inserting, Typed, Down
  <2> QED
    BY <2>1, <2>2, <2>3, <2>4, <2>5 DEF Chained, Top, TopHash
<1>7. CASE BootQuarantines
  <2>1. disk' = {} /\ View' = {}
    BY <1>7 DEF BootQuarantines, View, Upsert, Typed, Down
  <2>2. seq' = 0 /\ head' = Genesis /\ ~Inserting'
    BY <1>7 DEF BootQuarantines, memory, Inserting, Typed, Down
  <2>3. Chain({}) /\ EndsAt({}, 0, Genesis)
    BY DEF Chain, EndsAt, Intact, Dense
  <2> QED
    BY <2>1, <2>2, <2>3 DEF Chained, Top, TopHash, Whole
<1>8. CASE BootGivesUp
  BY <1>8 DEF BootGivesUp
<1> QED
  BY <1>1, <1>2, <1>3, <1>4, <1>5, <1>6, <1>7, <1>8 DEF Next, AppendStep, Boot, Quiet, Chained

LEMMA InvAlways == Spec => []Inv
<1>1. Init => Chained
  <2> SUFFICES ASSUME Init
               PROVE  Chained
    OBVIOUS
  <2>1. disk = {} /\ View = {} /\ Top = 0 /\ TopHash = Genesis
    BY DEF Init, View, Upsert, Top, TopHash, Inserting
  <2>2. Chain({}) /\ EndsAt({}, 0, Genesis)
    BY DEF Chain, EndsAt, Intact, Dense
  <2> QED
    BY <2>1, <2>2 DEF Chained, Whole
<1>2. Inv /\ [Next]_vars => Chained'
  BY ChainedStep, AuditAssumption
<1>3. Inv <=> (Typed /\ Numbered) /\ Chained
  BY DEF Inv
<1> QED
  BY <1>1, <1>2, <1>3, NumberedAlways, PTL DEF Spec

\* The at-rest check raises no false alarm, for any threads, testers, window
\* size and faults: what the connection reads verifies, and ends at the chain
\* head or one entry before it, until an insert is lost, a transaction rolled
\* back, a restore skipped or a tampered entry stored.
THEOREM DiskVerifies == Spec => []NoFalseAlarm
<1>1. ASSUME Inv
      PROVE  NoFalseAlarm
  <2>1. View \subseteq Entry
    BY <1>1, UpsertFacts DEF View, Inv, Typed, TypeOK
  <2>2. damage = {} =>
          /\ Intact(View)
          /\ phase = "up" => LastSeq(View) = Top /\ LastHash(View) = TopHash
    BY <1>1, <2>1, EndsAtLast DEF Inv, Chained, Whole, Chain
  <2>3. CASE Inserting
    BY <2>2, <2>3 DEF NoFalseAlarm, Top, TopHash, Inserting
  <2>4. CASE ~Inserting
    BY <2>2, <2>4 DEF NoFalseAlarm, Top, TopHash, Inserting
  <2> QED
    BY <2>3, <2>4
<1> QED
  BY <1>1, InvAlways, PTL

\* A boot over an undamaged store resumes the chain where it ends and changes
\* no row of it, for any threads, window size, faults and bounds.
THEOREM BootContinues == Spec => RestartResumes
<1>1. ASSUME Inv, [Next]_vars, phase = "down", phase' = "up", damage = {}, damage' = {}
      PROVE  disk' = disk /\ seq' = LastSeq(disk) /\ head' = LastHash(disk)
  <2>1. Boot
    BY <1>1 DEF Next, vars, memory, store, Call, Rotate, AppendStep, Stamp, Insert, InsertFails,
                Return, Commit, CommitFails, CommitRollsBack, TestBegin, TestTamper,
                TestRestore, Crash
  <2>2. ~BootQuarantines /\ ~BootGivesUp
    BY <1>1 DEF BootQuarantines, BootGivesUp, Inv, Chained, Whole, Chain
  <2> QED
    BY <2>1, <2>2 DEF Boot, BootResumes, store
<1>2. Inv /\ [Next]_vars =>
        [phase = "down" /\ phase' = "up" /\ damage = {} /\ damage' = {} =>
           /\ disk' = disk
           /\ seq' = LastSeq(disk) /\ head' = LastHash(disk)]_vars
  BY <1>1
<1> QED
  BY <1>2, InvAlways, PTL DEF Spec, RestartResumes

---------------------------------------------------------------------------
(***************************************************************************)
(* Refinement of AuditLog, when a commit that keeps its transaction open   *)
(* is the only failure and nobody runs the tamper test.                    *)
(***************************************************************************)
Undamaged ==
  /\ damage = {}
  /\ \A t \in Threads : pc[t] \notin {"tamper", "restore"}
  /\ held # NoEntry => Sealed(held)

LEMMA UndamagedStep ==
  ASSUME AuditAssumption, Faults \subseteq {"commit"}, Testers = {},
         Inv, Undamaged, [Next]_vars
  PROVE  Undamaged'
<1> USE DEF Inv, Typed
<1>1. ASSUME NEW t \in Threads, Stamp(t)
      PROVE  Undamaged'
  BY <1>1, StampedType DEF Stamp, Undamaged, TypeOK
<1>2. ASSUME NEW t \in Threads, Insert(t)
      PROVE  Undamaged'
  <2>1. Sealed(held)
    BY <1>2, AppendTop DEF Insert, Undamaged, AuditAssumption
  <2> QED
    BY <1>2, <2>1 DEF Insert, Undamaged, TypeOK
<1>3. ASSUME NEW t \in Threads, Commit(t) \/ CommitFails(t)
      PROVE  Undamaged'
  BY <1>3 DEF Commit, CommitFails, Return, Undamaged, TypeOK
<1>4. CASE Crash \/ BootResumes
  BY <1>4 DEF Crash, BootResumes, store, Undamaged
<1>5. ~BootQuarantines
  BY DEF BootQuarantines, Undamaged, Chained, Whole, Chain
<1>6. \A t \in Threads :
        /\ ~InsertFails(t) /\ ~CommitRollsBack(t)
        /\ ~TestBegin(t) /\ ~TestTamper(t) /\ ~TestRestore(t)
  BY DEF InsertFails, CommitRollsBack, TestBegin, TestTamper, TestRestore, Undamaged
<1>7. ~BootGivesUp
  BY DEF BootGivesUp
<1>8. ASSUME NEW t \in Threads, Rotate(t) \/ \E body \in Queries : Call(t, body)
      PROVE  Undamaged'
  BY <1>8 DEF Rotate, Call, Undamaged, TypeOK
<1>9. CASE UNCHANGED vars
  BY <1>9 DEF vars, memory, Undamaged
<1> QED
  BY <1>1, <1>2, <1>3, <1>4, <1>5, <1>6, <1>7, <1>8, <1>9 DEF Next, AppendStep, Boot

LEMMA ExtendsStep ==
  ASSUME AuditAssumption, Faults \subseteq {"commit"}, Testers = {},
         Inv, Undamaged, [Next]_vars
  PROVE  [Log!Extend]_disk
<1>1. CASE \E t \in Threads : Commit(t)
  <2>1. disk' = disk \cup pending
    BY <1>1, ViewIsUnion DEF Commit, Inv, Undamaged
  <2>2. \A e \in disk' \ disk : \A f \in disk : f.seq < e.seq
    BY <2>1 DEF Inv, Numbered, Undamaged
  <2>3. Intact(disk') /\ Dense(disk')
    BY <1>1 DEF Commit, Inv, Chained, Undamaged, Whole, Chain
  <2> QED
    BY <2>1, <2>2, <2>3
       DEF Log!Extend, Log!Intact, Log!Dense, Log!Sealed, Log!Adjacent, Log!Digest,
           Log!Genesis, Intact, Dense, Sealed, Adjacent, Digest, Genesis
<1>2. CASE disk' = disk
  BY <1>2
<1>3. ~BootQuarantines
  BY DEF BootQuarantines, Inv, Undamaged, Chained, Whole, Chain
<1> QED
  BY <1>1, <1>2, <1>3
     DEF Next, vars, memory, store, Call, Rotate, AppendStep, Stamp, Insert, InsertFails,
         CommitFails, CommitRollsBack, TestBegin, TestTamper, TestRestore, Crash,
         Boot, BootResumes, BootGivesUp

\* The committed table implements the append-only dense chain of AuditLog
\* through any number of crashes, restarts and commits SQLite keeps open, when
\* no insert fails, no transaction is rolled back, every restore reads the
\* table and no tamper test runs.
THEOREM AppendOnly ==
  ASSUME Faults \subseteq {"commit"}, Testers = {}
  PROVE  Spec => StoreIsAppendOnlyLog
<1>1. Init => Log!Init /\ Undamaged
  BY AuditAssumption DEF Init, Log!Init, Undamaged
<1>2. Inv /\ Undamaged /\ [Next]_vars => Undamaged' /\ [Log!Extend]_disk
  BY UndamagedStep, ExtendsStep, AuditAssumption
<1> QED
  BY <1>1, <1>2, InvAlways, PTL DEF Spec, StoreIsAppendOnlyLog, Log!Spec

---------------------------------------------------------------------------
(***************************************************************************)
(* The live window of AuditChain: with at most one thread running tamper   *)
(* tests it verifies whenever none of them is between its two edits,       *)
(* whatever happens to the store.                                          *)
(***************************************************************************)

(***************************************************************************)
(* Links do not depend on the bodies, so an edit leaves them alone.  They  *)
(* survive when entries are dropped from the old end and when one is added *)
(* at the new end.                                                         *)
(***************************************************************************)
Unique(rows) == \A e, f \in rows : e.seq = f.seq => e = f

Linked(rows) ==
  /\ Unique(rows)
  /\ \A e \in rows : e.seq > 0 /\ (e.seq = 1 => e.prev = Genesis)
  /\ \A a, b \in rows : Adjacent(rows, a, b) => b.prev = a.hash

\* The newest part of a table, however large.
Suffix(part, rows) ==
  part \subseteq rows /\ \A e \in part, f \in rows : f.seq > e.seq => f \in part

LEMMA LinkedSuffix ==
  ASSUME NEW rows \in SUBSET Entry, NEW part, Suffix(part, rows), Linked(rows), NEW s, NEW h
  PROVE  /\ Linked(part)
         /\ EndsAt(rows, s, h) /\ part # {} => EndsAt(part, s, h)
<1>1. \A e \in rows : e.seq \in Nat
  BY DEF Entry
<1>2. ASSUME NEW a \in part, NEW b \in part, Adjacent(part, a, b)
      PROVE  Adjacent(rows, a, b)
  BY <1>1, <1>2 DEF Adjacent, Suffix
<1>3. Linked(part)
  BY <1>2 DEF Linked, Unique, Suffix
<1>4. ASSUME EndsAt(rows, s, h), part # {}
      PROVE  EndsAt(part, s, h)
  BY <1>1, <1>4 DEF EndsAt, Suffix
<1> QED
  BY <1>3, <1>4

LEMMA LinkedExtends ==
  ASSUME NEW rows \in SUBSET Entry, NEW e \in Entry, Linked(rows),
         e.seq > 0, e.seq = 1 => e.prev = Genesis,
         rows # {} => EndsAt(rows, e.seq - 1, e.prev)
  PROVE  Linked(rows \cup {e}) /\ EndsAt(rows \cup {e}, e.seq, e.hash)
<1> DEFINE all == rows \cup {e}
<1>1. \A f \in all : f.seq \in Nat
  BY DEF Entry
<1>2. \A f \in rows : f.seq < e.seq
  BY <1>1 DEF EndsAt
<1>3. EndsAt(all, e.seq, e.hash)
  BY <1>2 DEF EndsAt
<1>4. Unique(all)
  BY <1>1, <1>2 DEF Linked, Unique
<1>5. ASSUME NEW a \in all, NEW b \in all, Adjacent(all, a, b)
      PROVE  b.prev = a.hash
  <2>1. CASE b = e
    <3>1. a \in rows /\ \A f \in rows : ~(a.seq < f.seq /\ f.seq < e.seq)
      BY <2>1, <1>1, <1>5 DEF Adjacent
    <3> QED
      BY <2>1, <3>1, <1>1, <1>2 DEF EndsAt
  <2>2. CASE b # e
    <3>1. a \in rows /\ b \in rows /\ Adjacent(rows, a, b)
      BY <2>2, <1>1, <1>2, <1>5 DEF Adjacent
    <3> QED
      BY <3>1 DEF Linked
  <2> QED
    BY <2>1, <2>2
<1> QED
  BY <1>3, <1>4, <1>5 DEF Linked

LEMMA LinkedEdit ==
  ASSUME NEW rows \in SUBSET Entry, NEW n, NEW body \in Body, Linked(rows),
         NEW new, new = {SetQuery(e, n, body) : e \in rows}
  PROVE  Linked(new) /\ \A s, h : EndsAt(rows, s, h) => EndsAt(new, s, h)
<1>1. \A e \in rows : /\ SetQuery(e, n, body) \in new
                      /\ \A f \in {"seq", "prev", "hash"} : SetQuery(e, n, body)[f] = e[f]
  BY DEF SetQuery, Entry
<1>2. \A x \in new : \E e \in rows :
        x = SetQuery(e, n, body) /\ x.seq = e.seq /\ x.prev = e.prev /\ x.hash = e.hash
  BY <1>1
<1>3. Unique(new)
  BY <1>2 DEF Linked, Unique
<1>4. ASSUME NEW a \in new, NEW b \in new, Adjacent(new, a, b)
      PROVE  b.prev = a.hash
  <2>1. PICK c \in rows : a.seq = c.seq /\ a.hash = c.hash
    BY <1>2
  <2>2. PICK d \in rows : b.seq = d.seq /\ b.prev = d.prev
    BY <1>2
  <2>3. \A e \in rows : \E x \in new : x.seq = e.seq
    BY <1>1
  <2>4. Adjacent(rows, c, d)
    BY <1>4, <2>1, <2>2, <2>3 DEF Adjacent
  <2> QED
    BY <2>1, <2>2, <2>4 DEF Linked
<1>5. \A x \in new : x.seq > 0 /\ (x.seq = 1 => x.prev = Genesis)
  BY <1>2 DEF Linked
<1>6. ASSUME NEW s, NEW h, EndsAt(rows, s, h)
      PROVE  EndsAt(new, s, h)
  <2>1. CASE rows = {}
    BY <1>6, <2>1 DEF EndsAt
  <2>2. CASE rows # {}
    <3>1. PICK e \in rows : /\ s = e.seq /\ h = e.hash
                            /\ \A f \in rows : f # e => f.seq < e.seq
      BY <1>6, <2>2 DEF EndsAt
    <3>2. \A x \in new : x # SetQuery(e, n, body) => x.seq < e.seq
      BY <1>2, <3>1
    <3>3. /\ SetQuery(e, n, body) \in new
          /\ SetQuery(e, n, body).seq = s /\ SetQuery(e, n, body).hash = h
      BY <1>1, <3>1
    <3> QED
      BY <3>1, <3>2, <3>3 DEF EndsAt
  <2> QED
    BY <2>1, <2>2
<1> QED
  BY <1>3, <1>4, <1>5, <1>6 DEF Linked

\* What a boot reloads is the newest part of the table, and some of it.
LEMMA RecentSuffix ==
  ASSUME AuditAssumption, NEW rows \in SUBSET Entry, IsFiniteSet(rows), HasNewest(rows)
  PROVE  Suffix(Recent(rows), rows) /\ (rows # {} => Recent(rows) # {})
<1> DEFINE above(e) == {f \in rows : f.seq > e.seq}
<1>1. \A e \in rows : e.seq \in Nat
  BY DEF Entry
<1>2. \A e \in rows : IsFiniteSet(above(e)) /\ Cardinality(above(e)) \in Nat
  BY FS_Subset, FS_CardinalityType
<1>3. ASSUME NEW e \in Recent(rows), NEW f \in rows, f.seq > e.seq
      PROVE  f \in Recent(rows)
  <2>1. e \in rows /\ Cardinality(above(e)) < WindowSize
    BY <1>3 DEF Recent
  <2>2. above(f) \subseteq above(e)
    BY <1>1, <1>3, <2>1
  <2>3. Cardinality(above(f)) <= Cardinality(above(e))
    BY <1>2, <2>1, <2>2, FS_Subset
  <2>4. Cardinality(above(f)) < WindowSize
    <3> HIDE DEF above
    <3> QED
      BY <1>2, <1>3, <2>1, <2>3 DEF AuditAssumption
  <2> QED
    BY <1>3, <2>4 DEF Recent
<1>4. ASSUME rows # {}
      PROVE  Recent(rows) # {}
  <2>1. PICK e \in rows : \A f \in rows : f.seq <= e.seq
    BY <1>4 DEF HasNewest, IsNewest
  <2>2. above(e) = {}
    BY <1>1, <2>1
  <2> QED
    BY <2>1, <2>2, FS_EmptySet DEF Recent, AuditAssumption
<1> QED
  BY <1>3, <1>4 DEF Suffix, Recent

---------------------------------------------------------------------------
(***************************************************************************)
(* What the boot may reload: whatever was lost or damaged, the rows of the *)
(* store are finitely many, carry different positive numbers, and so do    *)
(* those of the open transaction.                                          *)
(***************************************************************************)
Rows(rows) == IsFiniteSet(rows) /\ Unique(rows) /\ \A e \in rows : e.seq > 0

Stored == Rows(disk) /\ Rows(pending) /\ (held # NoEntry => seq > 0)

LEMMA UpsertRows ==
  ASSUME NEW rows, NEW new, Rows(rows), Rows(new)
  PROVE  Rows(Upsert(rows, new))
<1>1. IsFiniteSet({e \in rows : \A f \in new : f.seq # e.seq})
  BY FS_Subset DEF Rows
<1>2. IsFiniteSet(Upsert(rows, new))
  BY <1>1, FS_Union DEF Upsert, Rows
<1> QED
  BY <1>2 DEF Upsert, Rows, Unique

LEMMA StoredStep ==
  ASSUME AuditAssumption, Typed, Stored, [Next]_vars
  PROVE  Stored'
<1> USE DEF Typed, Stored
<1>1. Rows({})
  BY FS_EmptySet DEF Rows, Unique
<1>2. CASE Quiet
  <2>1. disk' = disk /\ pending' = pending /\ seq' = seq
    BY <1>2 DEF Quiet, Call, Rotate, TestBegin, TestTamper, TestRestore, vars, memory, store
  <2>2. held' # NoEntry => held # NoEntry
    BY <1>2 DEF Quiet, Call, Rotate, TestBegin, TestTamper, TestRestore, Edit, vars, memory
  <2> QED
    BY <2>1, <2>2
<1>3. ASSUME NEW t \in Threads, Stamp(t)
      PROVE  Stored'
  BY <1>3 DEF Stamp, store, TypeOK
<1>4. ASSUME NEW t \in Threads, Insert(t)
      PROVE  Stored'
  <2>1. held \in Entry /\ held # NoEntry /\ held.seq = seq
    BY <1>4, AppendTop DEF Insert, AuditAssumption
  <2>2. Rows({held})
    BY <2>1, FS_Singleton DEF Rows, Unique
  <2> QED
    BY <1>4, <2>2, UpsertRows DEF Insert
<1>5. ASSUME NEW t \in Threads,
             InsertFails(t) \/ Commit(t) \/ CommitFails(t) \/ CommitRollsBack(t)
      PROVE  Stored'
  <2>1. Rows(View)
    BY UpsertRows DEF View
  <2>2. disk' \in {disk, View} /\ pending' \in {pending, {}}
    BY <1>5 DEF InsertFails, Commit, CommitFails, CommitRollsBack, store
  <2>3. held' = NoEntry
    BY <1>5 DEF InsertFails, Commit, CommitFails, CommitRollsBack, Return
  <2> QED
    BY <1>1, <2>1, <2>2, <2>3
<1>6. CASE Crash
  BY <1>1, <1>6 DEF Crash
<1>7. CASE Boot
  <2>1. held' = NoEntry
    BY <1>7 DEF Boot, BootResumes, BootQuarantines, BootGivesUp, memory, Down, Holding
  <2>2. disk' \in {disk, {}} /\ pending' = pending
    BY <1>7 DEF Boot, BootResumes, BootQuarantines, BootGivesUp, store
  <2> QED
    BY <1>1, <2>1, <2>2
<1> QED
  BY <1>2, <1>3, <1>4, <1>5, <1>6, <1>7 DEF Next, AppendStep, Quiet

---------------------------------------------------------------------------
(***************************************************************************)
(* The window is linked and ends at the chain head.                        *)
(***************************************************************************)
Windowed ==
  /\ Linked(window)
  /\ window # {} => EndsAt(window, seq, head)
  /\ seq = 0 => head = Genesis
  /\ phase = "down" => window = {}

\* A stamp links the new entry to what the deque keeps.
LEMMA StampWindow ==
  ASSUME AuditAssumption, Typed, Windowed, NEW t \in Threads, Stamp(t)
  PROVE  /\ Linked(window') /\ EndsAt(window', seq', head')
         /\ window' \subseteq window \cup {Stamped(t)}
<1> DEFINE new  == Stamped(t)
           kept == IF Cardinality(window) < WindowSize
                   THEN window ELSE {f \in window : \E g \in window : g.seq < f.seq}
<1>1. window \in SUBSET Entry /\ \A e \in window : e.seq \in Nat
  BY DEF Typed, TypeOK, Entry
<1>2. Suffix(kept, window)
  BY <1>1 DEF Suffix
<1>3. kept \in SUBSET Entry /\ Linked(kept) /\ (kept # {} => EndsAt(kept, seq, head))
  BY <1>1, <1>2, LinkedSuffix DEF Windowed, Suffix
<1>4. new \in Entry /\ new.seq = seq + 1 /\ new.prev = head /\ seq \in Nat
  BY StampedType DEF Typed, TypeOK
<1>5. window' = kept \cup {new} /\ seq' = new.seq /\ head' = new.hash
  BY <1>4 DEF Stamp, Push
<1>6. /\ new.seq > 0 /\ (new.seq = 1 => new.prev = Genesis)
      /\ kept # {} => EndsAt(kept, new.seq - 1, new.prev)
  BY <1>3, <1>4 DEF Windowed
<1>7. Linked(kept \cup {new}) /\ EndsAt(kept \cup {new}, new.seq, new.hash)
  <2> HIDE DEF kept, new
  <2> QED
    BY <1>3, <1>4, <1>6, LinkedExtends
<1> QED
  BY <1>2, <1>5, <1>7 DEF Suffix

LEMMA WindowedStep ==
  ASSUME AuditAssumption, Typed, Stored, Windowed, [Next]_vars
  PROVE  Windowed'
<1> USE DEF Typed
<1>1. Linked({})
  BY DEF Linked, Unique
<1>2. ASSUME NEW t \in Threads, Stamp(t)
      PROVE  Windowed'
  <2>1. Linked(window') /\ EndsAt(window', seq', head')
    BY <1>2, StampWindow
  <2>2. seq' > 0 /\ phase' = phase /\ phase = "up"
    BY <1>2 DEF Stamp, Down, TypeOK
  <2> QED
    BY <2>1, <2>2 DEF Windowed
<1>3. ASSUME NEW t \in Threads, TestTamper(t) \/ TestRestore(t)
      PROVE  Windowed'
  <2>1. PICK n \in Nat, body \in Body : Edit(n, body)
    BY <1>3 DEF TestTamper, TestRestore, TypeOK, AuditAssumption
  <2>2. window' = {SetQuery(e, n, body) : e \in window}
    BY <2>1 DEF Edit
  <2>3. Linked(window') /\ (window # {} => EndsAt(window', seq, head))
    BY <2>2, LinkedEdit DEF Windowed, TypeOK
  <2>4. seq' = seq /\ head' = head /\ phase' = phase
    BY <1>3 DEF TestTamper, TestRestore
  <2> QED
    BY <2>2, <2>3, <2>4 DEF Windowed
<1>4. CASE BootResumes
  <2>1. Linked(disk)
    BY <1>4 DEF BootResumes, Intact, Linked, Stored, Rows
  <2>2. disk # {} => EndsAt(disk, LastSeq(disk), LastHash(disk))
    <3> SUFFICES ASSUME disk # {}
                 PROVE  EndsAt(disk, LastSeq(disk), LastHash(disk))
      OBVIOUS
    <3>1. IsNewest(disk, Newest(disk))
      <4>1. PICK e \in disk : IsNewest(disk, e)
        BY DEF HasNewest
      <4> QED
        BY <4>1 DEF Newest, IsNewest
    <3>2. \A f \in disk : f.seq \in Nat
      BY DEF TypeOK, Entry
    <3>3. \A f \in disk : f # Newest(disk) => f.seq < Newest(disk).seq
      BY <3>1, <3>2 DEF IsNewest, Stored, Rows, Unique
    <3> QED
      BY <3>1, <3>3 DEF EndsAt, LastSeq, LastHash, IsNewest
  <2>3. Suffix(Recent(disk), disk) /\ (disk = {} => Recent(disk) = {})
    BY RecentSuffix DEF Stored, Rows, TypeOK, Recent
  <2>4. Linked(window') /\ (window' # {} => EndsAt(window', seq', head'))
    BY <1>4, <2>1, <2>2, <2>3, LinkedSuffix DEF BootResumes, TypeOK
  <2>5. disk # {} => LastSeq(disk) > 0
    BY <2>2 DEF EndsAt, Stored, Rows
  <2>6. seq' = 0 => head' = Genesis
    BY <1>4, <2>5 DEF BootResumes, LastHash
  <2> QED
    BY <1>4, <2>4, <2>6 DEF Windowed, BootResumes
<1>5. CASE Crash \/ BootQuarantines \/ BootGivesUp
  BY <1>1, <1>5 DEF Crash, BootQuarantines, BootGivesUp, memory, Windowed
<1>6. ASSUME NEW t \in Threads,
             \/ \E body \in Queries : Call(t, body)
             \/ Rotate(t) \/ TestBegin(t) \/ Insert(t) \/ InsertFails(t)
             \/ Commit(t) \/ CommitFails(t) \/ CommitRollsBack(t)
      PROVE  Windowed'
  <2>1. window' \in {window, {}} /\ seq' = seq /\ head' = head /\ phase' = phase
    BY <1>6 DEF Call, Rotate, TestBegin, Insert, InsertFails, Commit, CommitFails,
                CommitRollsBack, Return
  <2> QED
    BY <1>1, <2>1 DEF Windowed
<1>7. CASE UNCHANGED vars
  BY <1>7 DEF vars, memory, Windowed
<1> QED
  BY <1>2, <1>3, <1>4, <1>5, <1>6, <1>7 DEF Next, AppendStep, Boot

---------------------------------------------------------------------------
(***************************************************************************)
(* What the tamper test does to the entry it picked, and to no other.      *)
(***************************************************************************)
Restored(e, t) == [e EXCEPT !.body = test[t].original]

Tested ==
  /\ \A t \in Threads :
       /\ pc[t] \in {"tamper", "restore"} => t \in Testers /\ test[t].seq <= seq
       /\ pc[t] = "tamper" =>
            \A e \in window : e.seq = test[t].seq => e.body = test[t].original
       /\ pc[t] = "restore" =>
            \A e \in window : e.seq = test[t].seq => Sealed(Restored(e, t))
  /\ \A e \in window :
       Sealed(e) \/ \E t \in Threads : pc[t] = "restore" /\ test[t].seq = e.seq

\* The steps that neither edit an entry nor add one to the window.
LEMMA TestedKept ==
  ASSUME Tested, Typed, UNCHANGED <<test, seq>>, window' \subseteq window,
         NEW t \in Threads, NEW label \in {"waiting", "insert", "commit", "idle"},
         pc[t] \notin {"tamper", "restore"}, pc' = [pc EXCEPT ![t] = label]
  PROVE  Tested'
BY DEF Tested, Typed, TypeOK, Restored

LEMMA TestedStep ==
  ASSUME AuditAssumption, \A s, t \in Testers : s = t,
         Typed, Stored, Windowed, Tested, [Next]_vars
  PROVE  Tested'
<1> USE DEF Typed
<1>1. \A e \in window : e.seq \in Nat /\ e.seq <= seq
  BY DEF Windowed, EndsAt, TypeOK, Entry
<1>2. ASSUME NEW t \in Threads, Stamp(t)
      PROVE  Tested'
  <2>1. /\ window' \subseteq window \cup {Stamped(t)}
        /\ Sealed(Stamped(t)) /\ Stamped(t).seq = seq + 1
    BY <1>2, StampWindow, StampedType
  <2>2. seq' = seq + 1 /\ test' = test /\ seq \in Nat
    BY <1>2 DEF Stamp, TypeOK
  <2>3. pc' = [pc EXCEPT ![t] = "insert"] /\ pc[t] = "waiting"
    BY <1>2 DEF Stamp
  <2>4. \A u \in Threads : pc[u] \in {"tamper", "restore"} => test[u].seq # seq + 1
    BY <2>2 DEF Tested, TypeOK
  <2>5. \A u \in Threads : test[u].seq <= seq => test[u].seq <= seq'
    BY <2>2 DEF TypeOK
  <2>6. \A u \in Threads : pc'[u] \in {"tamper", "restore"} => u # t /\ pc'[u] = pc[u]
    BY <2>3 DEF TypeOK
  <2>7. \A u \in Threads : pc[u] \in {"tamper", "restore"} => u # t /\ pc'[u] = pc[u]
    BY <2>3 DEF TypeOK
  <2> QED
    BY <2>1, <2>2, <2>4, <2>5, <2>6, <2>7 DEF Tested, Restored
<1>3. ASSUME NEW t \in Threads, TestBegin(t)
      PROVE  Tested'
  <2>1. PICK e \in window :
          test' = [test EXCEPT ![t] = [seq |-> e.seq, original |-> e.body]]
    BY <1>3 DEF TestBegin
  <2>2. window' = window /\ seq' = seq /\ pc' = [pc EXCEPT ![t] = "tamper"]
        /\ t \in Testers /\ pc[t] = "idle"
    BY <1>3 DEF TestBegin
  <2>3. \A f \in window : f.seq = e.seq => f.body = e.body
    BY DEF Windowed, Linked, Unique
  <2> QED
    BY <1>1, <2>1, <2>2, <2>3 DEF Tested, Restored, TypeOK
<1>4. ASSUME NEW t \in Threads, pc[t] \in {"tamper", "restore"}
      PROVE  \A u \in Threads : pc[u] \in {"tamper", "restore"} => u = t
  BY <1>4 DEF Tested
<1>5. ASSUME NEW t \in Threads, TestTamper(t)
      PROVE  Tested'
  <2>1. /\ window' = {SetQuery(e, test[t].seq, Canary) : e \in window}
        /\ pc[t] = "tamper" /\ pc' = [pc EXCEPT ![t] = "restore"]
        /\ test' = test /\ seq' = seq
    BY <1>5 DEF TestTamper, Edit
  <2>2. \A u \in Threads : u # t => pc'[u] \notin {"tamper", "restore"}
    BY <1>4, <2>1 DEF TypeOK
  <2>3. pc'[t] = "restore"
    BY <2>1 DEF TypeOK
  <2>4. \A e \in window : Sealed(e)
    BY <1>4, <2>1 DEF Tested
  <2>5. ASSUME NEW e \in window, e.seq = test[t].seq
        PROVE  Restored([e EXCEPT !.body = Canary], t) = e
    <3>1. e.body = test[t].original /\ e \in Entry
      BY <2>1, <2>5 DEF Tested, TypeOK
    <3> QED
      BY <3>1 DEF Restored, Entry
  <2>6. \A x \in window' :
          /\ x.seq = test[t].seq => Sealed(Restored(x, t))
          /\ x.seq # test[t].seq => Sealed(x)
    <3> SUFFICES ASSUME NEW e \in window
                 PROVE  LET x == SetQuery(e, test[t].seq, Canary) IN
                        /\ x.seq = test[t].seq => Sealed(Restored(x, t))
                        /\ x.seq # test[t].seq => Sealed(x)
      BY <2>1
    <3>1. CASE e.seq = test[t].seq
      <4>1. [e EXCEPT !.body = Canary].seq = e.seq
        BY DEF TypeOK, Entry
      <4> QED
        BY <2>4, <2>5, <3>1, <4>1 DEF SetQuery
    <3>2. CASE e.seq # test[t].seq
      BY <2>4, <3>2 DEF SetQuery
    <3> QED
      BY <3>1, <3>2
  <2>7. t \in Testers /\ test[t].seq <= seq
    BY <2>1 DEF Tested
  <2>8. \A x \in window' : x.seq = test'[t].seq => Sealed(Restored(x, t)')
    BY <2>1, <2>6 DEF Restored
  <2> QED
    BY <2>1, <2>2, <2>3, <2>6, <2>7, <2>8 DEF Tested, Restored
<1>6. ASSUME NEW t \in Threads, TestRestore(t)
      PROVE  Tested'
  <2>1. /\ window' = {SetQuery(e, test[t].seq, test[t].original) : e \in window}
        /\ pc[t] = "restore" /\ pc' = [pc EXCEPT ![t] = "idle"]
    BY <1>6 DEF TestRestore, Edit
  <2>2. \A u \in Threads : pc'[u] \notin {"tamper", "restore"}
    BY <1>4, <2>1 DEF TypeOK
  <2>3. \A e \in window : e.seq # test[t].seq => Sealed(e)
    BY <1>4, <2>1 DEF Tested
  <2>4. \A e \in window : e.seq = test[t].seq => Sealed(Restored(e, t))
    BY <2>1 DEF Tested
  <2>5. \A x \in window' : Sealed(x)
    BY <2>1, <2>3, <2>4 DEF SetQuery, Restored
  <2> QED
    BY <2>2, <2>5 DEF Tested
<1>7. CASE Crash
  BY <1>7 DEF Crash, Tested
<1>8. CASE BootResumes
  <2>1. \A e \in window' : Sealed(e)
    BY <1>8 DEF BootResumes, Recent, Intact
  <2>2. \A t \in Threads : pc'[t] = "idle"
    BY <1>8 DEF BootResumes, Down
  <2> QED
    BY <2>1, <2>2 DEF Tested
<1>9. CASE BootQuarantines \/ BootGivesUp \/ UNCHANGED vars
  <2>1. UNCHANGED <<window, seq, pc, test>>
    BY <1>9 DEF BootQuarantines, BootGivesUp, vars, memory
  <2> QED
    BY <2>1 DEF Tested, Restored
<1>10. ASSUME NEW t \in Threads,
              \/ \E body \in Queries : Call(t, body)
              \/ Rotate(t) \/ Insert(t) \/ InsertFails(t)
              \/ Commit(t) \/ CommitFails(t) \/ CommitRollsBack(t)
       PROVE  Tested'
  <2>1. UNCHANGED <<test, seq>> /\ window' \in {window, {}}
    BY <1>10 DEF Call, Rotate, Insert, InsertFails, Commit, CommitFails, CommitRollsBack, Return
  <2>2. /\ pc[t] \notin {"tamper", "restore"}
        /\ \E label \in {"waiting", "insert", "commit", "idle"} : pc' = [pc EXCEPT ![t] = label]
    BY <1>10 DEF Call, Rotate, Insert, InsertFails, Commit, CommitFails, CommitRollsBack, Return
  <2> QED
    BY <2>1, <2>2, TestedKept
<1> QED
  BY <1>2, <1>3, <1>5, <1>6, <1>7, <1>8, <1>9, <1>10 DEF Next, AppendStep, Boot

\* Whatever the store does, whatever is rotated away or reloaded, for any
\* threads, window size and bounds: if at most one thread runs tamper tests,
\* the live window verifies and ends at the chain head, except between the two
\* edits of a test.
THEOREM LiveWindowVerifies ==
  ASSUME \A s, t \in Testers : s = t
  PROVE  Spec => []WindowVerifies
<1>1. Init => Stored /\ Windowed /\ Tested
  BY FS_EmptySet DEF Init, Stored, Rows, Unique, Windowed, Linked, Tested
<1>2. Typed /\ Stored /\ Windowed /\ Tested /\ [Next]_vars => (Stored /\ Windowed /\ Tested)'
  BY StoredStep, WindowedStep, TestedStep, AuditAssumption
<1>3. Typed /\ Windowed /\ Tested => WindowVerifies
  <2> SUFFICES ASSUME Typed, Windowed, Tested, \A t \in Threads : pc[t] # "restore"
               PROVE  /\ Intact(window)
                      /\ window # {} => LastSeq(window) = seq /\ LastHash(window) = head
    BY DEF WindowVerifies
  <2>1. Intact(window)
    BY DEF Intact, Windowed, Linked, Tested
  <2> QED
    BY <2>1, EndsAtLast DEF Windowed, Typed, TypeOK
<1> QED
  BY <1>1, <1>2, <1>3, TypedAlways, PTL DEF Spec
=============================================================================
