------------------------ MODULE GovernedChangesProofs ------------------------
(***************************************************************************)
(* Theorems about GovernedChanges, for every set of people, threads, slots *)
(* and configurations, every combination of faults, and any number of      *)
(* changes, crashes and edits.                                             *)
(*                                                                         *)
(* The one idea: what the connection reads is ahead of what is committed,  *)
(* by a step the loop promises to make (Ahead).  The relation is           *)
(* transitive, so every handler only has to be such a step of what the     *)
(* connection reads, and a commit, that makes all open steps at once, is   *)
(* one again.                                                              *)
(***************************************************************************)
EXTENDS GovernedChanges, SequenceTheorems, FiniteSetTheorems, TLAPS

Status == Governed!Statuses
Separate(row) == Governed!SeparateHands(row)
Forward(old, new) == Governed!MovesForward(old, new)

USE DEF Status, Separate, Forward

\* Tables new are a step of the loop ahead of old: FourEyes!Advance, as a
\* relation on states of the tables.
Ahead(old, new) ==
  /\ DOMAIN old.rows \subseteq DOMAIN new.rows
  /\ \A i \in DOMAIN new.rows : Separate(new.rows[i])
  /\ \A i \in DOMAIN old.rows : Forward(old.rows[i], new.rows[i])
  /\ \A s \in Slots : new.live[s] # old.live[s] =>
       \E i \in DOMAIN new.rows :
          /\ new.rows[i].status = "applied"
          /\ ~(i \in DOMAIN old.rows /\ old.rows[i].status = "applied")
          /\ new.rows[i].slot = s /\ Left(new.rows[i]) = new.live[s]

Typed == TypeOK /\ \A t \in Threads : pc[t] # "idle" => event[t] \in Events

\* A sequence with one element replaced.
LEMMA Amended ==
  ASSUME NEW rows \in Seq(Row), NEW i \in DOMAIN rows, NEW row \in Row
  PROVE  LET new == [rows EXCEPT ![i] = row] IN
         /\ new \in Seq(Row) /\ DOMAIN new = DOMAIN rows
         /\ new[i] = row /\ \A j \in DOMAIN rows \ {i} : new[j] = rows[j]
BY ExceptSeq, LenProperties

\* A sequence with one element more.
LEMMA Appended ==
  ASSUME NEW rows \in Seq(Row), NEW row \in Row
  PROVE  LET new == Append(rows, row) IN
         /\ new \in Seq(Row) /\ DOMAIN new = DOMAIN rows \cup {Len(rows) + 1}
         /\ Len(rows) + 1 \notin DOMAIN rows
         /\ new[Len(rows) + 1] = row /\ \A j \in DOMAIN rows : new[j] = rows[j]
BY LenProperties

\* Rows of typed tables are rows, and their ids are numbers.
LEMMA RowsTyped ==
  ASSUME NEW tables \in Tables
  PROVE  /\ tables.rows \in Seq(Row) /\ DOMAIN tables.rows \subseteq Nat
         /\ \A i \in DOMAIN tables.rows : tables.rows[i] \in Row
         /\ tables.live \in [Slots -> Configs \cup {NoConfig}]
<1>1. /\ tables.rows \in Seq(Row)
      /\ tables.live \in [Slots -> Configs \cup {NoConfig}]
  BY DEF Tables
<1> QED
  BY <1>1, LenProperties, ElementOfSeq

---------------------------------------------------------------------------

LEMMA ForwardReflexive ==
  ASSUME NEW row \in Row
  PROVE  Forward(row, row)
BY DEF Row, Governed!Row, Governed!MovesForward

LEMMA ForwardTransitive ==
  ASSUME NEW a \in Row, NEW b \in Row, NEW c \in Row,
         Forward(a, b), Forward(b, c)
  PROVE  Forward(a, c)
<1>1. \A f \in {"slot", "op", "hash", "submitter"} : c[f] = a[f]
  BY DEF Governed!MovesForward
<1>2. a.reviewer # Nobody => c.reviewer = a.reviewer
  BY DEF Governed!MovesForward
<1>3. ASSUME a.status \in {"rejected", "applied"}
      PROVE  c = [a EXCEPT !.body = c.body]
  <2>1. b = [a EXCEPT !.body = b.body]
    BY <1>3 DEF Governed!MovesForward
  <2>2. b.status = a.status
    BY <2>1 DEF Row, Governed!Row
  <2>3. c = [b EXCEPT !.body = c.body]
    BY <1>3, <2>2 DEF Governed!MovesForward
  <2> QED
    BY <2>1, <2>3 DEF Row, Governed!Row
<1>4. a.status = "approved" => c.status \in {"approved", "applied"}
  <2>1. ASSUME b.status = "applied"
        PROVE  c.status = "applied"
    <3>1. c = [b EXCEPT !.body = c.body]
      BY <2>1 DEF Governed!MovesForward
    <3> QED
      BY <2>1, <3>1 DEF Row, Governed!Row
  <2> QED
    BY <2>1 DEF Governed!MovesForward
<1> QED
  BY <1>1, <1>2, <1>3, <1>4 DEF Governed!MovesForward

\* An applied row stays applied, in its slot, and leaves there what it left.
LEMMA AppliedStays ==
  ASSUME NEW a \in Row, NEW b \in Row, Forward(a, b), a.status = "applied"
  PROVE  b.status = "applied" /\ b.slot = a.slot /\ Left(b) = Left(a)
<1>1. b = [a EXCEPT !.body = b.body]
  BY DEF Governed!MovesForward
<1> QED
  BY <1>1 DEF Row, Governed!Row, Left, Governed!Left

LEMMA AheadReflexive ==
  ASSUME NEW tables \in Tables, \A i \in DOMAIN tables.rows : Separate(tables.rows[i])
  PROVE  Ahead(tables, tables)
BY RowsTyped, ForwardReflexive DEF Ahead

LEMMA AheadTransitive ==
  ASSUME NEW a \in Tables, NEW b \in Tables, NEW c \in Tables,
         Ahead(a, b), Ahead(b, c)
  PROVE  Ahead(a, c)
<1>1. /\ \A i \in DOMAIN a.rows : a.rows[i] \in Row
      /\ \A i \in DOMAIN b.rows : b.rows[i] \in Row
      /\ \A i \in DOMAIN c.rows : c.rows[i] \in Row
  BY RowsTyped
<1>2. /\ DOMAIN a.rows \subseteq DOMAIN b.rows /\ DOMAIN b.rows \subseteq DOMAIN c.rows
      /\ \A i \in DOMAIN a.rows : Forward(a.rows[i], b.rows[i])
      /\ \A i \in DOMAIN b.rows : Forward(b.rows[i], c.rows[i])
      /\ \A i \in DOMAIN c.rows : Separate(c.rows[i])
  BY DEF Ahead
<1>3. \A i \in DOMAIN a.rows : Forward(a.rows[i], c.rows[i])
  BY <1>1, <1>2, ForwardTransitive
<1>4. ASSUME NEW s \in Slots, c.live[s] # a.live[s]
      PROVE  \E i \in DOMAIN c.rows :
               /\ c.rows[i].status = "applied"
               /\ ~(i \in DOMAIN a.rows /\ a.rows[i].status = "applied")
               /\ c.rows[i].slot = s /\ Left(c.rows[i]) = c.live[s]
  <2>1. CASE c.live[s] # b.live[s]
    <3>1. PICK i \in DOMAIN c.rows :
            /\ c.rows[i].status = "applied"
            /\ ~(i \in DOMAIN b.rows /\ b.rows[i].status = "applied")
            /\ c.rows[i].slot = s /\ Left(c.rows[i]) = c.live[s]
      BY <2>1 DEF Ahead
    <3>2. ~(i \in DOMAIN a.rows /\ a.rows[i].status = "applied")
      BY <1>1, <1>2, <3>1, AppliedStays
    <3> QED
      BY <3>1, <3>2
  <2>2. CASE c.live[s] = b.live[s]
    <3>1. PICK i \in DOMAIN b.rows :
            /\ b.rows[i].status = "applied"
            /\ ~(i \in DOMAIN a.rows /\ a.rows[i].status = "applied")
            /\ b.rows[i].slot = s /\ Left(b.rows[i]) = b.live[s]
      BY <1>4, <2>2 DEF Ahead
    <3>2. /\ c.rows[i].status = "applied" /\ c.rows[i].slot = s
          /\ Left(c.rows[i]) = Left(b.rows[i])
      BY <1>1, <1>2, <3>1, AppliedStays
    <3> QED
      BY <1>2, <2>2, <3>1, <3>2
  <2> QED
    BY <2>1, <2>2
<1> QED
  BY <1>2, <1>3, <1>4 DEF Ahead


---------------------------------------------------------------------------
(* What the handlers do to the tables *)

LEMMA RowsReplaced ==
  ASSUME NEW tables \in Tables, NEW rows
  PROVE  [tables EXCEPT !.rows = rows] = [rows |-> rows, live |-> tables.live]
BY DEF Tables


\* Tables whose rows passed through separate hands.
Sound(tables) ==
  tables \in Tables /\ \A i \in DOMAIN tables.rows : Separate(tables.rows[i])

\* A new proposal is a step ahead.
LEMMA ProposalAhead ==
  ASSUME NEW tables, Sound(tables), NEW row \in Row, Separate(row)
  PROVE  LET new == [tables EXCEPT !.rows = Append(tables.rows, row)] IN
         Sound(new) /\ Ahead(tables, new)
<1> DEFINE rows == Append(tables.rows, row)
           new == [rows |-> rows, live |-> tables.live]
<1>1. [tables EXCEPT !.rows = rows] = new
  BY RowsReplaced DEF Sound
<1>2. /\ rows \in Seq(Row) /\ DOMAIN rows = DOMAIN tables.rows \cup {Len(tables.rows) + 1}
      /\ rows[Len(tables.rows) + 1] = row
      /\ \A j \in DOMAIN tables.rows : rows[j] = tables.rows[j]
  BY RowsTyped, Appended DEF Sound
<1> HIDE DEF rows
<1>3. new \in Tables
  BY <1>2, RowsTyped DEF Tables, Sound
<1>4. \A i \in DOMAIN tables.rows : Forward(tables.rows[i], tables.rows[i])
  BY RowsTyped, ForwardReflexive DEF Sound
<1>5. Sound(new) /\ Ahead(tables, new)
  BY <1>2, <1>3, <1>4 DEF Sound, Ahead
<1> QED
  BY <1>1, <1>5 DEF rows

\* A row moved forward is a step ahead, if the live configuration changes only
\* in the slot of a row that is applied by this step, to what the row leaves.
LEMMA MoveAhead ==
  ASSUME NEW tables, Sound(tables), NEW i \in DOMAIN tables.rows,
         NEW row \in Row, Separate(row), Forward(tables.rows[i], row),
         NEW live \in [Slots -> Configs \cup {NoConfig}],
         \A s \in Slots : live[s] # tables.live[s] =>
            /\ row.status = "applied" /\ tables.rows[i].status # "applied"
            /\ row.slot = s /\ Left(row) = live[s]
  PROVE  LET new == [rows |-> [tables.rows EXCEPT ![i] = row], live |-> live] IN
         Sound(new) /\ Ahead(tables, new)
<1> DEFINE rows == [tables.rows EXCEPT ![i] = row]
           new == [rows |-> rows, live |-> live]
<1>1. /\ rows \in Seq(Row) /\ DOMAIN rows = DOMAIN tables.rows
      /\ rows[i] = row /\ \A j \in DOMAIN rows \ {i} : rows[j] = tables.rows[j]
  BY RowsTyped, Amended DEF Sound
<1> HIDE DEF rows
<1>2. new \in Tables
  BY <1>1 DEF Tables
<1>3. \A j \in DOMAIN rows : Separate(rows[j]) /\ Forward(tables.rows[j], rows[j])
  BY <1>1, RowsTyped, ForwardReflexive DEF Sound
<1>4. Sound(new) /\ Ahead(tables, new)
  BY <1>1, <1>2, <1>3 DEF Sound, Ahead
<1> QED
  BY <1>4 DEF rows

\* A handler has made a step of the loop that it is about to commit, and what
\* it will report of it is so.
Changes(t) ==
  /\ pc[t] = "idle" /\ lock = NoThread
  /\ lock' = t /\ pc' = [pc EXCEPT ![t] = "commit"]
  /\ Sound(view') /\ Ahead(view, view')
  /\ event'[t] \in Events /\ event' = [event EXCEPT ![t] = event'[t]]
  /\ Happened(event'[t], view'.rows)
  /\ UNCHANGED <<saved, trail, crashes, edits>>

LEMMA SubmitChanges ==
  ASSUME GovernanceAssumption, Typed, Sound(view),
         NEW t \in Threads, NEW p \in People, NEW slot \in Slots,
         NEW op \in {"upsert", "remove"}, NEW config \in Configs,
         Submit(t, p, slot, op, config)
  PROVE  Changes(t)
<1> DEFINE row == Proposal(p, slot, op, config)
           id == Len(view.rows) + 1
           e == [kind |-> "submit", id |-> id, who |-> p]
<1>1. Execute(t, [view EXCEPT !.rows = Append(view.rows, row)], e)
  BY DEF Submit
<1>2. row \in Row /\ Separate(row) /\ row.submitter = p
  BY DEF Proposal, Row, Governed!Row, GovernanceAssumption, Governed!SeparateHands,
         Governed!Statuses
<1> HIDE DEF row
<1>3. Sound(view') /\ Ahead(view, view')
  BY <1>1, <1>2, ProposalAhead DEF Execute
<1>4. id \in Nat /\ id \in DOMAIN view'.rows /\ view'.rows[id] = row
  <2>1. view'.rows = Append(view.rows, row)
    BY <1>1, RowsReplaced DEF Execute, Sound
  <2> QED
    BY <1>2, <2>1, RowsTyped, Appended, LenProperties DEF Sound
<1>5. event'[t] = e /\ e \in Events
  BY <1>1, <1>4 DEF Execute, Typed, TypeOK, Events
<1>6. Happened(e, view'.rows)
  BY <1>2, <1>4 DEF Happened
<1> QED
  BY <1>1, <1>3, <1>5, <1>6 DEF Execute, Changes

LEMMA DecideChanges ==
  ASSUME GovernanceAssumption, Typed, Sound(view),
         NEW t \in Threads, NEW p \in People, NEW id \in Ids,
         NEW status \in {"approved", "rejected"}, Decide(t, p, id, status)
  PROVE  Changes(t)
<1> DEFINE old == view.rows[id]
           row == [old EXCEPT !.status = status, !.reviewer = p]
           e == [kind |-> status, id |-> id, who |-> p]
           rows == [view.rows EXCEPT ![id] = row]
           tables == [rows |-> rows, live |-> view.live]
<1>0. /\ id \in DOMAIN view.rows /\ id \in Nat /\ old \in Row /\ Separate(old)
      /\ old.status = "pending" /\ p # old.submitter
  BY RowsTyped DEF Ids, Sound, Decide, MayDecide
<1>1. Execute(t, tables, e)
  <2>1. Execute(t, [view EXCEPT !.rows = rows], e)
    BY DEF Decide
  <2> QED
    BY <2>1, RowsReplaced DEF Sound
<1>2. /\ row \in Row /\ Separate(row) /\ Forward(old, row)
      /\ row.reviewer = p /\ row.status = status
  BY <1>0 DEF Row, Governed!Row, GovernanceAssumption, Governed!SeparateHands,
              Governed!Statuses, Governed!MovesForward
<1> HIDE DEF row
<1>3. Sound(view') /\ Ahead(view, view')
  <2>1. view.live \in [Slots -> Configs \cup {NoConfig}]
    BY RowsTyped DEF Sound
  <2>2. Sound(tables) /\ Ahead(view, tables)
    BY <1>0, <1>2, <2>1, MoveAhead
  <2> QED
    BY <1>1, <2>2 DEF Execute
<1>4. id \in DOMAIN view'.rows /\ view'.rows[id] = row
  BY <1>0, <1>1, <1>2, RowsTyped, Amended DEF Execute, Sound
<1>5. event'[t] = e /\ e \in Events
  BY <1>0, <1>1 DEF Execute, Typed, TypeOK, Events
<1>6. Happened(e, view'.rows)
  BY <1>2, <1>4 DEF Happened
<1> QED
  BY <1>1, <1>3, <1>5, <1>6 DEF Execute, Changes

\* The clock of the applies is a number.
LEMMA ClockIsNat ==
  ASSUME Sound(view)
  PROVE  Clock \in Nat
<1> DEFINE done == {i \in Ids : view.rows[i].status = "applied"}
<1>1. IsFiniteSet(Ids)
  <2>1. Ids = 1..Len(view.rows) /\ Len(view.rows) \in Nat
    BY RowsTyped, LenProperties DEF Ids, Sound
  <2> QED
    BY <2>1, FS_Interval
<1>2. Cardinality(done) \in Nat
  BY <1>1, FS_Subset, FS_CardinalityType
<1> QED
  BY <1>2 DEF Clock

LEMMA ApplyChanges ==
  ASSUME GovernanceAssumption, Typed, Sound(view),
         NEW t \in Threads, NEW p \in People, NEW id \in Ids, Apply(t, p, id)
  PROVE  Changes(t)
<1> DEFINE old == view.rows[id]
           row == [old EXCEPT !.status = "applied", !.applier = p,
                              !.at = Clock, !.prev = view.live[old.slot]]
           config == IF old.op = "remove" THEN NoConfig ELSE old.body
           live == [view.live EXCEPT ![old.slot] = config]
           e == [kind |-> "apply", id |-> id, who |-> p]
           tables == [rows |-> [view.rows EXCEPT ![id] = row], live |-> live]
<1>0. /\ id \in DOMAIN view.rows /\ id \in Nat /\ old \in Row /\ Separate(old)
      /\ old.status = "approved" /\ p # old.submitter /\ p # old.reviewer
      /\ old.body = old.hash
      /\ view.live \in [Slots -> Configs \cup {NoConfig}]
  BY RowsTyped DEF Ids, Sound, Apply, MayApply
<1>1. Execute(t, tables, e)
  BY DEF Apply, Applied
<1>2. /\ row \in Row /\ Separate(row) /\ Forward(old, row)
      /\ row.applier = p /\ row.status = "applied" /\ row.slot = old.slot
      /\ Left(row) = config
  <2>1. old.slot \in Slots /\ view.live[old.slot] \in Configs \cup {NoConfig}
    BY <1>0 DEF Row, Governed!Row
  <2>2. row \in Row
    BY <1>0, <2>1, ClockIsNat DEF Row, Governed!Row, Governed!Statuses
  <2> QED
    BY <1>0, <2>2 DEF Row, Governed!Row, GovernanceAssumption, Governed!SeparateHands,
              Governed!Statuses, Governed!MovesForward, Left, Governed!Left
<1>3. /\ live \in [Slots -> Configs \cup {NoConfig}]
      /\ \A s \in Slots : live[s] # view.live[s] => s = old.slot /\ live[s] = config
  BY <1>0 DEF Row, Governed!Row
<1> HIDE DEF row, live, config
<1>4. Sound(view') /\ Ahead(view, view')
  <2>1. Sound(tables) /\ Ahead(view, tables)
    BY <1>0, <1>2, <1>3, MoveAhead
  <2> QED
    BY <1>1, <2>1 DEF Execute
<1>5. id \in DOMAIN view'.rows /\ view'.rows[id] = row
  BY <1>0, <1>1, <1>2, RowsTyped, Amended DEF Execute, Sound
<1>6. event'[t] = e /\ e \in Events
  BY <1>0, <1>1 DEF Execute, Typed, TypeOK, Events
<1>7. Happened(e, view'.rows)
  BY <1>2, <1>5 DEF Happened
<1> QED
  BY <1>1, <1>4, <1>6, <1>7 DEF Execute, Changes

\* A stored payload is edited: no row says anything else of what was decided.
LEMMA EditAhead ==
  ASSUME Typed, Sound(view), NEW id \in Ids, NEW config \in Configs,
         EditPayload(id, config)
  PROVE  view' = saved' /\ Sound(view') /\ Ahead(view, view')
<1> DEFINE old == view.rows[id]
           row == [old EXCEPT !.body = config]
<1>1. id \in DOMAIN view.rows /\ old \in Row /\ Separate(old)
  BY RowsTyped DEF Ids, Sound
<1>2. view' = [rows |-> [view.rows EXCEPT ![id] = row], live |-> view.live]
  <2>1. view' = [view EXCEPT !.rows = [view.rows EXCEPT ![id] = row]]
    BY DEF EditPayload
  <2> QED
    BY <2>1, RowsReplaced DEF Sound
<1>3. row \in Row /\ Separate(row) /\ Forward(old, row)
  BY <1>1 DEF Row, Governed!Row, Governed!SeparateHands, Governed!MovesForward
<1> HIDE DEF row
<1>4. view.live \in [Slots -> Configs \cup {NoConfig}]
  BY RowsTyped DEF Sound
<1> DEFINE new == [rows |-> [view.rows EXCEPT ![id] = row], live |-> view.live]
<1>5. Sound(new) /\ Ahead(view, new)
  BY <1>1, <1>3, <1>4, MoveAhead
<1> QED
  BY <1>2, <1>5 DEF EditPayload

---------------------------------------------------------------------------
(* The inductive invariant *)

\* The steps of the system, the handlers' by what they do to the tables.
LEMMA Steps ==
  ASSUME GovernanceAssumption, Typed, Sound(view), Next
  PROVE  \/ \E t \in Threads : Changes(t) \/ Commit(t) \/ CommitFails(t) \/ Report(t)
         \/ \E id \in Ids, config \in Configs : EditPayload(id, config)
         \/ Crash
<1>1. ASSUME NEW t \in Threads, Handle(t)
      PROVE  Changes(t) \/ Commit(t) \/ CommitFails(t) \/ Report(t)
  BY <1>1, SubmitChanges, DecideChanges, ApplyChanges DEF Handle
<1> QED
  BY <1>1 DEF Next

\* The committed tables are sound, and what the connection reads is ahead.
Kept == Typed /\ Sound(saved) /\ Sound(view) /\ Ahead(saved, view)

\* What is reported has happened, and so has what is still to be reported as
\* far as the connection, or after the commit the file, can tell.
Truthful ==
  /\ TrailIsTruthful
  /\ \A t \in Threads :
        /\ pc[t] = "commit" => Happened(event[t], view.rows)
        /\ pc[t] = "report" => Happened(event[t], saved.rows)

LEMMA KeptInit ==
  ASSUME GovernanceAssumption, Init
  PROVE  Kept /\ Truthful
<1>1. /\ saved \in Tables /\ DOMAIN saved.rows = {}
  BY EmptySeq, LenProperties DEF Init, Tables
<1>2. Sound(saved) /\ view = saved
  BY <1>1 DEF Init, Sound
<1>3. Ahead(saved, view)
  BY <1>1, <1>2 DEF Ahead
<1>4. Typed
  BY <1>1 DEF Init, Typed, TypeOK, GovernanceAssumption
<1>5. Truthful
  BY DEF Init, Truthful, TrailIsTruthful
<1> QED
  BY <1>2, <1>3, <1>4, <1>5 DEF Kept

LEMMA KeptStep ==
  ASSUME GovernanceAssumption, Kept, [Next]_vars
  PROVE  Kept'
<1> USE DEF Kept
<1>1. ASSUME NEW t \in Threads, Changes(t)
      PROVE  Kept'
  <2>1. Typed'
    BY <1>1 DEF Changes, Typed, TypeOK, Sound, GovernanceAssumption
  <2>2. Ahead(saved', view')
    BY <1>1, AheadTransitive DEF Changes, Sound
  <2> QED
    BY <1>1, <2>1, <2>2 DEF Changes
<1>2. ASSUME NEW t \in Threads, Commit(t)
      PROVE  Kept'
  <2>1. Typed'
    BY <1>2 DEF Commit, Typed, TypeOK, GovernanceAssumption
  <2> QED
    BY <1>2, <2>1, AheadReflexive DEF Commit, Sound
<1>3. ASSUME NEW t \in Threads, CommitFails(t)
      PROVE  Kept'
  <2>1. Typed'
    BY <1>3 DEF CommitFails, Typed, TypeOK, GovernanceAssumption
  <2> QED
    BY <1>3, <2>1, AheadReflexive DEF CommitFails, Sound
<1>4. ASSUME NEW t \in Threads, Report(t)
      PROVE  Kept'
  <2>1. Typed'
    BY <1>4 DEF Report, Typed, TypeOK, GovernanceAssumption
  <2> QED
    BY <1>4, <2>1 DEF Report
<1>5. ASSUME NEW id \in Ids, NEW config \in Configs, EditPayload(id, config)
      PROVE  Kept'
  <2>1. view' = saved' /\ Sound(view')
    BY <1>5, EditAhead
  <2>2. Typed'
    BY <1>5, <2>1 DEF EditPayload, Typed, TypeOK, Sound
  <2> QED
    BY <2>1, <2>2, AheadReflexive DEF Sound
<1>6. CASE Crash
  <2>1. Typed'
    BY <1>6 DEF Crash, Typed, TypeOK, GovernanceAssumption
  <2> QED
    BY <1>6, <2>1, AheadReflexive DEF Crash, Sound
<1>7. CASE UNCHANGED vars
  BY <1>7 DEF vars, Typed, TypeOK
<1> QED
  BY <1>1, <1>2, <1>3, <1>4, <1>5, <1>6, <1>7, Steps

\* No step of the loop takes back what has happened.
LEMMA HappenedStays ==
  ASSUME NEW a, NEW b, Sound(a), Sound(b), Ahead(a, b),
         NEW e \in Events, Happened(e, a.rows)
  PROVE  Happened(e, b.rows)
<1> DEFINE old == a.rows[e.id]
           new == b.rows[e.id]
<1>1. /\ e.id \in DOMAIN b.rows /\ old \in Row /\ new \in Row
      /\ Separate(old) /\ Forward(old, new)
  BY RowsTyped DEF Happened, Ahead, Sound
<1>2. CASE e.kind = "submit"
  BY <1>1, <1>2 DEF Happened, Governed!MovesForward
<1>3. CASE e.kind = "approved"
  <2>1. old.status \in {"approved", "applied"} /\ old.reviewer = e.who
    BY <1>3 DEF Happened
  <2>2. new.reviewer = e.who
    BY <1>1, <2>1 DEF Governed!SeparateHands, Governed!MovesForward
  <2>3. new.status \in {"approved", "applied"}
    BY <1>1, <2>1, AppliedStays DEF Governed!MovesForward
  <2> QED
    BY <1>1, <1>3, <2>2, <2>3 DEF Happened
<1>4. CASE e.kind = "rejected"
  <2>1. old.status = "rejected" /\ old.reviewer = e.who
    BY <1>4 DEF Happened
  <2>2. new = [old EXCEPT !.body = new.body]
    BY <1>1, <2>1 DEF Governed!MovesForward
  <2>3. new.status = "rejected" /\ new.reviewer = e.who
    BY <1>1, <2>1, <2>2 DEF Row, Governed!Row
  <2> QED
    BY <1>1, <1>4, <2>3 DEF Happened
<1>5. CASE e.kind = "apply"
  <2>1. old.status = "applied" /\ old.applier = e.who
    BY <1>5 DEF Happened
  <2>2. new = [old EXCEPT !.body = new.body]
    BY <1>1, <2>1 DEF Governed!MovesForward
  <2>3. new.status = "applied" /\ new.applier = e.who
    BY <1>1, <2>1, <2>2 DEF Row, Governed!Row
  <2> QED
    BY <1>1, <1>5, <2>3 DEF Happened
<1> QED
  BY <1>2, <1>3, <1>4, <1>5 DEF Events

\* What is committed only ever moves a step of the loop ahead.
LEMMA CommittedStep ==
  ASSUME GovernanceAssumption, Kept, [Next]_vars
  PROVE  Ahead(saved, saved')
<1> USE DEF Kept
<1>1. ASSUME NEW id \in Ids, NEW config \in Configs, EditPayload(id, config)
      PROVE  Ahead(saved, saved')
  BY <1>1, EditAhead DEF EditPayload
<1>2. ASSUME NEW t \in Threads, Commit(t)
      PROVE  Ahead(saved, saved')
  BY <1>2 DEF Commit
<1>3. Ahead(saved, saved)
  BY AheadReflexive DEF Sound
<1>4. ASSUME saved' = saved
      PROVE  Ahead(saved, saved')
  BY <1>3, <1>4
<1>5. ASSUME NEW t \in Threads, Changes(t) \/ CommitFails(t) \/ Report(t)
      PROVE  saved' = saved
  BY <1>5 DEF Changes, CommitFails, Report
<1>6. Crash \/ UNCHANGED vars => saved' = saved
  BY DEF Crash, vars
<1> QED
  BY <1>1, <1>2, <1>4, <1>5, <1>6, Steps

\* Before and after a step, the connection is idle for all but the lock's holder.
LEMMA TruthfulStep ==
  ASSUME GovernanceAssumption, Kept, Truthful, [Next]_vars
  PROVE  Truthful'
<1> USE DEF Kept
<1>1. \A e \in Events : Happened(e, saved.rows) => Happened(e, saved'.rows)
  BY KeptStep, CommittedStep, HappenedStays
<1>2. trail \subseteq Events /\ \A t \in Threads : pc[t] # "idle" => event[t] \in Events
  BY DEF Typed, TypeOK
<1>3. \A t \in Threads : pc[t] = "commit" <=> lock = t
  BY DEF Typed, TypeOK
<1>4. \A e \in trail : Happened(e, saved'.rows)
  BY <1>1, <1>2 DEF Truthful, TrailIsTruthful
<1>5. \A t \in Threads : pc[t] = "report" => Happened(event[t], saved'.rows)
  BY <1>1, <1>2 DEF Truthful
<1>6. ASSUME NEW t \in Threads, Changes(t)
      PROVE  Truthful'
  BY <1>3, <1>4, <1>5, <1>6
     DEF Changes, Truthful, TrailIsTruthful, Typed, TypeOK, GovernanceAssumption
<1>7. ASSUME NEW t \in Threads, Commit(t)
      PROVE  Truthful'
  BY <1>3, <1>4, <1>5, <1>7 DEF Commit, Truthful, TrailIsTruthful, Typed, TypeOK
<1>8. ASSUME NEW t \in Threads, CommitFails(t)
      PROVE  Truthful'
  BY <1>3, <1>4, <1>5, <1>8 DEF CommitFails, Truthful, TrailIsTruthful, Typed, TypeOK
<1>9. ASSUME NEW t \in Threads, Report(t)
      PROVE  Truthful'
  BY <1>3, <1>4, <1>5, <1>9 DEF Report, Truthful, TrailIsTruthful, Typed, TypeOK
<1>10. ASSUME NEW id \in Ids, NEW config \in Configs, EditPayload(id, config)
       PROVE  Truthful'
  BY <1>3, <1>4, <1>5, <1>10
     DEF EditPayload, Truthful, TrailIsTruthful, Typed, TypeOK, GovernanceAssumption
<1>11. CASE Crash
  BY <1>4, <1>11 DEF Crash, Truthful, TrailIsTruthful
<1>12. CASE UNCHANGED vars
  BY <1>12 DEF vars, Truthful, TrailIsTruthful
<1> QED
  BY <1>6, <1>7, <1>8, <1>9, <1>10, <1>11, <1>12, Steps

LEMMA KeptAlways ==
  ASSUME GovernanceAssumption
  PROVE  Spec => [](Kept /\ Truthful)
<1>1. Init => Kept /\ Truthful
  BY KeptInit
<1>2. Kept /\ Truthful /\ [Next]_vars => (Kept /\ Truthful)'
  BY KeptStep, TruthfulStep
<1> QED
  BY <1>1, <1>2, PTL DEF Spec

---------------------------------------------------------------------------
(* The theorems *)

\* Tables, locks and events keep their types, and the open transaction of
\* _CONN is either a handler's that holds _LOCK or left by a failed commit.
THEOREM TypeCorrect ==
  ASSUME GovernanceAssumption
  PROVE  Spec => []TypeOK
<1>1. Kept => TypeOK
  BY DEF Kept, Typed
<1> QED
  BY <1>1, KeptAlways, PTL

\* The four-eyes loop: what submit_change, decide_change and apply_change
\* commit, whatever commits fail before, is a behaviour of FourEyes.
THEOREM LoopIsGoverned ==
  ASSUME GovernanceAssumption
  PROVE  Spec => FourEyesHold
<1>1. Init => Governed!Init
  BY DEF Init, Governed!Init
<1>2. Kept /\ [Next]_vars => Governed!Advance
  BY CommittedStep DEF Ahead, Governed!Advance, Governed!Applied, Left
<1>3. Kept /\ [Next]_vars => [Governed!Advance]_<<saved.rows, saved.live>>
  BY <1>2
<1> QED
  BY <1>1, <1>3, KeptAlways, PTL DEF Spec, FourEyesHold, Governed!Spec

\* The audit chain never claims a step of the loop that is not committed:
\* _chain_append runs only after the commit, and no later step, failed
\* commit or restart takes the committed step back.
THEOREM TrailTellsTheTruth ==
  ASSUME GovernanceAssumption
  PROVE  Spec => []TrailIsTruthful
<1>1. Truthful => TrailIsTruthful
  BY DEF Truthful
<1> QED
  BY <1>1, KeptAlways, PTL

---------------------------------------------------------------------------
(***************************************************************************)
(* The ledger of governed changes explains the live configuration, for     *)
(* every number of changes, threads, faults, crashes and edits.            *)
(*                                                                         *)
(* The one idea: what a replay reads of the tables is the story of their   *)
(* applied rows.  Only apply_change adds to it, and what it adds is later  *)
(* than all that is in it.                                                 *)
(***************************************************************************)

Done(tables) == {i \in DOMAIN tables.rows : tables.rows[i].status = "applied"}

Story(tables) ==
  [i \in Done(tables) |-> [slot |-> tables.rows[i].slot, at |-> tables.rows[i].at,
                           prev |-> tables.rows[i].prev, left |-> Left(tables.rows[i])]]

Earlier(story, i, j) == story[i].slot = story[j].slot /\ story[i].at < story[j].at

\* Replays, of the story alone.
Explains(story, live) ==
  \A s \in Slots :
    /\ (\A j \in DOMAIN story : story[j].slot # s) => live[s] = NoConfig
    /\ \A j \in DOMAIN story : story[j].slot = s =>
       /\ (\A i \in DOMAIN story : ~Earlier(story, i, j)) => story[j].prev = NoConfig
       /\ (\A k \in DOMAIN story : ~Earlier(story, j, k)) => live[s] = story[j].left
       /\ \A i \in DOMAIN story :
            /\ Earlier(story, i, j)
            /\ \A k \in DOMAIN story : ~(Earlier(story, i, k) /\ Earlier(story, k, j))
            => story[j].prev = story[i].left

\* The clock of the applies never falls behind them.
Ranked(tables) ==
  \A i \in Done(tables) :
    tables.rows[i].at \in Nat /\ tables.rows[i].at <= Cardinality(Done(tables))

Told(tables) == Explains(Story(tables), tables.live) /\ Ranked(tables)

LEMMA StoryFacts ==
  ASSUME NEW tables
  PROVE  /\ DOMAIN Story(tables) = Done(tables) /\ Done(tables) \subseteq DOMAIN tables.rows
         /\ \A i \in Done(tables) :
              /\ Story(tables)[i].slot = tables.rows[i].slot
              /\ Story(tables)[i].at = tables.rows[i].at
              /\ Story(tables)[i].prev = tables.rows[i].prev
              /\ Story(tables)[i].left = Left(tables.rows[i])
BY DEF Story, Done

\* Explained tables replay.
LEMMA ExplainedReplays ==
  ASSUME NEW tables, Explains(Story(tables), tables.live)
  PROVE  Replays(tables)
<1> DEFINE ids == DOMAIN tables.rows
           Of(s) == {i \in ids : tables.rows[i].status = "applied" /\ tables.rows[i].slot = s}
<1>1. \A i, j \in ids : Before(tables, i, j) <=>
        i \in Done(tables) /\ j \in Done(tables) /\ Earlier(Story(tables), i, j)
  <2> SUFFICES ASSUME NEW i \in ids, NEW j \in ids
               PROVE  Before(tables, i, j) <=>
                 i \in Done(tables) /\ j \in Done(tables) /\ Earlier(Story(tables), i, j)
    OBVIOUS
  <2>1. /\ i \in Done(tables) <=> tables.rows[i].status = "applied"
        /\ j \in Done(tables) <=> tables.rows[j].status = "applied"
    BY DEF Done
  <2>2. ASSUME i \in Done(tables), j \in Done(tables)
        PROVE  Earlier(Story(tables), i, j) <=>
                 tables.rows[i].slot = tables.rows[j].slot /\ tables.rows[i].at < tables.rows[j].at
    BY <2>2, StoryFacts DEF Earlier
  <2> QED BY <2>1, <2>2 DEF Before
<1>2. ASSUME NEW s \in Slots, Of(s) = {} PROVE tables.live[s] = NoConfig
  <2>1. \A j \in DOMAIN Story(tables) : Story(tables)[j].slot # s
    BY <1>2, StoryFacts DEF Done
  <2> QED BY <2>1 DEF Explains
<1>3. ASSUME NEW s \in Slots, NEW j \in Of(s)
      PROVE  /\ (~\E i \in ids : Before(tables, i, j)) => tables.rows[j].prev = NoConfig
             /\ (~\E k \in ids : Before(tables, j, k)) => tables.live[s] = Left(tables.rows[j])
             /\ \A i \in ids :
                  Before(tables, i, j) /\ ~(\E k \in ids : Before(tables, i, k) /\ Before(tables, k, j))
                  => tables.rows[j].prev = Left(tables.rows[i])
  <2>1. /\ j \in DOMAIN Story(tables) /\ Story(tables)[j].slot = s
        /\ Story(tables)[j].prev = tables.rows[j].prev
        /\ Story(tables)[j].left = Left(tables.rows[j])
        /\ DOMAIN Story(tables) \subseteq ids /\ DOMAIN Story(tables) = Done(tables)
        /\ j \in ids /\ j \in Done(tables)
    BY StoryFacts DEF Done
  <2>2. /\ (\A i \in DOMAIN Story(tables) : ~Earlier(Story(tables), i, j))
             => Story(tables)[j].prev = NoConfig
        /\ (\A k \in DOMAIN Story(tables) : ~Earlier(Story(tables), j, k))
             => tables.live[s] = Story(tables)[j].left
        /\ \A i \in DOMAIN Story(tables) :
             /\ Earlier(Story(tables), i, j)
             /\ \A k \in DOMAIN Story(tables) :
                  ~(Earlier(Story(tables), i, k) /\ Earlier(Story(tables), k, j))
             => Story(tables)[j].prev = Story(tables)[i].left
    BY <2>1 DEF Explains
  <2>3. (~\E i \in ids : Before(tables, i, j)) => tables.rows[j].prev = NoConfig
    BY <1>1, <2>1, <2>2
  <2>4. (~\E k \in ids : Before(tables, j, k)) => tables.live[s] = Left(tables.rows[j])
    BY <1>1, <2>1, <2>2
  <2>5. ASSUME NEW i \in ids, Before(tables, i, j),
               ~(\E k \in ids : Before(tables, i, k) /\ Before(tables, k, j))
        PROVE  tables.rows[j].prev = Left(tables.rows[i])
    <3>1. i \in Done(tables) /\ Earlier(Story(tables), i, j)
      BY <1>1, <2>1, <2>5
    <3>2. \A k \in DOMAIN Story(tables) :
            ~(Earlier(Story(tables), i, k) /\ Earlier(Story(tables), k, j))
      BY <1>1, <2>1, <2>5, <3>1
    <3>3. Story(tables)[j].prev = Story(tables)[i].left
      BY <2>1, <2>2, <3>1, <3>2
    <3> QED BY <2>1, <3>1, <3>3, StoryFacts
  <2> QED BY <2>3, <2>4, <2>5
<1> QED BY <1>2, <1>3 DEF Replays

\* Tables with the same applied rows, as far as a replay can tell.
LEMMA Untouched ==
  ASSUME NEW a, NEW b, Told(a), b.live = a.live, Done(b) = Done(a),
         \A i \in Done(a) :
           /\ b.rows[i].slot = a.rows[i].slot /\ b.rows[i].at = a.rows[i].at
           /\ b.rows[i].prev = a.rows[i].prev /\ Left(b.rows[i]) = Left(a.rows[i])
  PROVE  Told(b)
<1>1. Story(b) = Story(a)
  BY DEF Story
<1>2. Ranked(b)
  BY DEF Told, Ranked
<1> QED BY <1>1, <1>2 DEF Told

\* A change applied on top of the story is its last chapter.
LEMMA NextChapter ==
  ASSUME NEW story, NEW live \in [Slots -> Configs \cup {NoConfig}], Explains(story, live),
         NEW id, id \notin DOMAIN story, NEW slot \in Slots,
         NEW config \in Configs \cup {NoConfig}, NEW clock \in Nat,
         \A i \in DOMAIN story : story[i].at \in Nat /\ story[i].at < clock,
         NEW new, DOMAIN new = DOMAIN story \cup {id},
         \A i \in DOMAIN story : new[i] = story[i],
         new[id].slot = slot, new[id].at = clock,
         new[id].prev = live[slot], new[id].left = config
  PROVE  Explains(new, [live EXCEPT ![slot] = config])
<1> DEFINE now == [live EXCEPT ![slot] = config]
<1>1. /\ now[slot] = config /\ \A s \in Slots \ {slot} : now[s] = live[s]
  OBVIOUS
<1> HIDE DEF now
<1>2. \A i, j \in DOMAIN story : Earlier(new, i, j) <=> Earlier(story, i, j)
  BY DEF Earlier
<1>3. \A j \in DOMAIN new : ~Earlier(new, id, j)
  BY DEF Earlier
<1>4. \A i \in DOMAIN story : Earlier(new, i, id) <=> story[i].slot = slot
  BY DEF Earlier
<1>5. ASSUME NEW s \in Slots, \A j \in DOMAIN new : new[j].slot # s
      PROVE  now[s] = NoConfig
  BY <1>1, <1>5 DEF Explains
<1>6. ASSUME NEW j \in DOMAIN new, \A i \in DOMAIN new : ~Earlier(new, i, j)
      PROVE  new[j].slot \in Slots => new[j].prev = NoConfig
  <2>1. CASE j = id
    <3>1. \A i \in DOMAIN story : story[i].slot # slot
      BY <1>4, <1>6, <2>1
    <3> QED BY <2>1, <3>1 DEF Explains
  <2>2. CASE j # id
    <3>1. j \in DOMAIN story /\ \A i \in DOMAIN story : ~Earlier(story, i, j)
      BY <1>2, <1>6, <2>2
    <3> QED BY <3>1 DEF Explains
  <2> QED BY <2>1, <2>2
<1>7. ASSUME NEW s \in Slots, NEW j \in DOMAIN new, new[j].slot = s,
             \A k \in DOMAIN new : ~Earlier(new, j, k)
      PROVE  now[s] = new[j].left
  <2>1. CASE j = id
    BY <1>1, <1>7, <2>1
  <2>2. CASE j # id
    <3>1. j \in DOMAIN story /\ \A k \in DOMAIN story : ~Earlier(story, j, k)
      BY <1>2, <1>7, <2>2
    <3>2. s # slot
      BY <1>4, <1>7, <3>1
    <3>3. live[s] = story[j].left
      BY <1>7, <3>1 DEF Explains
    <3> QED BY <1>1, <3>1, <3>2, <3>3
  <2> QED BY <2>1, <2>2
<1>8. ASSUME NEW s \in Slots, NEW i \in DOMAIN new, NEW j \in DOMAIN new, new[j].slot = s,
             Earlier(new, i, j),
             \A k \in DOMAIN new : ~(Earlier(new, i, k) /\ Earlier(new, k, j))
      PROVE  new[j].prev = new[i].left
  <2>0. i \in DOMAIN story
    BY <1>3, <1>8
  <2>1. CASE j = id
    <3>1. story[i].slot = slot
      BY <1>4, <1>8, <2>0, <2>1
    <3>2. ASSUME NEW k \in DOMAIN story, Earlier(story, i, k) PROVE FALSE
      <4>1. Earlier(new, i, k) /\ Earlier(new, k, id)
        BY <1>2, <1>4, <2>0, <3>1, <3>2 DEF Earlier
      <4> QED BY <1>8, <2>1, <4>1
    <3>3. live[slot] = story[i].left
      BY <2>0, <3>1, <3>2 DEF Explains
    <3> QED BY <2>0, <2>1, <3>3
  <2>2. CASE j # id
    <3>1. /\ j \in DOMAIN story /\ Earlier(story, i, j) /\ story[j].slot = s
          /\ \A k \in DOMAIN story : ~(Earlier(story, i, k) /\ Earlier(story, k, j))
      BY <1>2, <1>8, <2>0, <2>2
    <3>2. story[j].prev = story[i].left
      BY <2>0, <3>1 DEF Explains
    <3> QED BY <2>0, <3>1, <3>2
  <2> QED BY <2>1, <2>2
<1> QED BY <1>5, <1>6, <1>7, <1>8 DEF Explains, now

---------------------------------------------------------------------------
(* The steps *)

LEMMA DoneIsFinite ==
  ASSUME NEW tables, Sound(tables)
  PROVE  IsFiniteSet(Done(tables)) /\ Cardinality(Done(tables)) \in Nat
<1>1. DOMAIN tables.rows = 1..Len(tables.rows) /\ Len(tables.rows) \in Nat
  BY RowsTyped, LenProperties DEF Sound
<1>2. IsFiniteSet(DOMAIN tables.rows)
  BY <1>1, FS_Interval
<1> QED BY <1>2, StoryFacts, FS_Subset, FS_CardinalityType

\* A proposal is not applied.
LEMMA SubmitTold ==
  ASSUME Sound(view), Told(view),
         NEW t \in Threads, NEW p \in People, NEW slot \in Slots,
         NEW op \in {"upsert", "remove"}, NEW config \in Configs,
         Submit(t, p, slot, op, config), Sound(view')
  PROVE  Told(view')
<1> DEFINE row == Proposal(p, slot, op, config)
           id  == Len(view.rows) + 1
<1>1. view' = [rows |-> Append(view.rows, row), live |-> view.live]
  BY RowsReplaced DEF Submit, Execute, Sound
<1>2. /\ DOMAIN view'.rows = DOMAIN view.rows \cup {id} /\ id \notin DOMAIN view.rows
      /\ view'.rows[id] = row /\ \A i \in DOMAIN view.rows : view'.rows[i] = view.rows[i]
      /\ view'.live = view.live
  BY <1>1, RowsTyped, LenProperties, AppendProperties DEF Sound
<1>3. row.status # "applied"
  BY DEF Proposal
<1> HIDE DEF row
<1>4. Done(view') = Done(view)
  BY <1>2, <1>3 DEF Done
<1> QED BY <1>2, <1>4, Untouched DEF Done

\* A row that is rewritten, and neither was nor becomes applied or is the same
\* to a replay.
LEMMA RewriteTold ==
  ASSUME Sound(view), Told(view), NEW id \in DOMAIN view.rows, NEW row \in Row,
         view' = [rows |-> [view.rows EXCEPT ![id] = row], live |-> view.live],
         \/ row.status # "applied" /\ view.rows[id].status # "applied"
         \/ /\ \A f \in {"status", "slot", "at", "prev"} : row[f] = view.rows[id][f]
            /\ Left(row) = Left(view.rows[id])
  PROVE  Told(view')
<1>1. /\ DOMAIN view'.rows = DOMAIN view.rows /\ view'.rows[id] = row
      /\ \A i \in DOMAIN view.rows \ {id} : view'.rows[i] = view.rows[i]
      /\ view'.live = view.live
  BY RowsTyped, Amended DEF Sound
<1>2. CASE row.status # "applied" /\ view.rows[id].status # "applied"
  <2>1. Done(view') = Done(view) /\ id \notin Done(view)
    BY <1>1, <1>2 DEF Done
  <2> QED BY <1>1, <2>1, Untouched DEF Done
<1>3. CASE /\ \A f \in {"status", "slot", "at", "prev"} : row[f] = view.rows[id][f]
           /\ Left(row) = Left(view.rows[id])
  <2>1. /\ row.status = view.rows[id].status /\ row.slot = view.rows[id].slot
        /\ row.at = view.rows[id].at /\ row.prev = view.rows[id].prev
    BY <1>3
  <2>2. Done(view') = Done(view)
    BY <1>1, <2>1 DEF Done
  <2>3. \A i \in Done(view) :
          /\ view'.rows[i].slot = view.rows[i].slot /\ view'.rows[i].at = view.rows[i].at
          /\ view'.rows[i].prev = view.rows[i].prev /\ Left(view'.rows[i]) = Left(view.rows[i])
    BY <1>1, <1>3, <2>1 DEF Done
  <2>4. view'.live = view.live
    BY <1>1
  <2> QED BY <2>2, <2>3, <2>4, Untouched DEF Done
<1> QED BY <1>2, <1>3

LEMMA DecideTold ==
  ASSUME Sound(view), Told(view), NEW t \in Threads, NEW p \in People, NEW id \in Ids,
         NEW status \in {"approved", "rejected"}, Decide(t, p, id, status)
  PROVE  Told(view')
<1> DEFINE old == view.rows[id]
           row == [old EXCEPT !.status = status, !.reviewer = p]
<1>1. id \in DOMAIN view.rows /\ old \in Row /\ old.status = "pending"
  BY RowsTyped DEF Ids, Sound, Decide, MayDecide
<1>2. row \in Row /\ row.status # "applied"
  BY <1>1 DEF Row, Governed!Row, Governed!Statuses
<1>3. view' = [view EXCEPT !.rows = [view.rows EXCEPT ![id] = row]]
  BY DEF Decide, Execute
<1>4. view' = [rows |-> [view.rows EXCEPT ![id] = row], live |-> view.live]
  BY <1>3, RowsReplaced DEF Sound
<1> HIDE DEF row
<1> QED BY <1>1, <1>2, <1>4, RewriteTold

LEMMA EditTold ==
  ASSUME Sound(view), Told(view), NEW id \in Ids, NEW config \in Configs,
         EditPayload(id, config)
  PROVE  Told(view')
<1> DEFINE old == view.rows[id]
           row == [old EXCEPT !.body = config]
<1>1. id \in DOMAIN view.rows /\ old \in Row
  BY RowsTyped DEF Ids, Sound
<1>2. /\ row \in Row /\ Left(row) = Left(old)
      /\ \A f \in {"status", "slot", "at", "prev"} : row[f] = old[f]
  BY <1>1 DEF Row, Governed!Row, Left, Governed!Left
<1>3. view' = [view EXCEPT !.rows = [view.rows EXCEPT ![id] = row]]
  BY DEF EditPayload
<1>4. view' = [rows |-> [view.rows EXCEPT ![id] = row], live |-> view.live]
  BY <1>3, RowsReplaced DEF Sound
<1> HIDE DEF row
<1> QED BY <1>1, <1>2, <1>4, RewriteTold

LEMMA ApplyTold ==
  ASSUME Sound(view), Told(view), Sound(view'),
         NEW t \in Threads, NEW p \in People, NEW id \in Ids, Apply(t, p, id)
  PROVE  Told(view')
<1> DEFINE old    == view.rows[id]
           slot   == old.slot
           config == IF old.op = "remove" THEN NoConfig ELSE old.body
           row    == [old EXCEPT !.status = "applied", !.applier = p,
                                 !.at = Clock, !.prev = view.live[slot]]
           rows   == [view.rows EXCEPT ![id] = row]
           live   == [view.live EXCEPT ![slot] = config]
<1>1. /\ id \in DOMAIN view.rows /\ old \in Row /\ old.status = "approved"
      /\ old.body = old.hash /\ view.live \in [Slots -> Configs \cup {NoConfig}]
  BY RowsTyped DEF Ids, Sound, Apply, MayApply
<1>2. view' = [rows |-> rows, live |-> live]
  BY DEF Apply, Applied, Execute
<1>3. /\ slot \in Slots /\ config \in Configs \cup {NoConfig}
      /\ row.status = "applied" /\ row.slot = slot /\ row.at = Clock
      /\ row.prev = view.live[slot] /\ Left(row) = config
  BY <1>1 DEF Row, Governed!Row, Left, Governed!Left
<1>4. /\ DOMAIN rows = DOMAIN view.rows /\ rows[id] = row
      /\ \A i \in DOMAIN view.rows \ {id} : rows[i] = view.rows[i]
  BY <1>1, RowsTyped DEF Sound
<1> HIDE DEF row, rows, config, live
<1>5. /\ Done(view') = Done(view) \cup {id} /\ id \notin Done(view)
      /\ \A i \in Done(view) : view'.rows[i] = view.rows[i]
      /\ view'.rows[id] = row /\ view'.live = live
  BY <1>1, <1>2, <1>3, <1>4 DEF Done
<1>6. /\ Cardinality(Done(view)) \in Nat /\ Clock = Cardinality(Done(view)) + 1
      /\ Cardinality(Done(view')) = Clock
  <2>1. IsFiniteSet(Done(view)) /\ Cardinality(Done(view)) \in Nat
    BY DoneIsFinite
  <2>2. Clock = Cardinality(Done(view)) + 1
    BY DEF Clock, Done, Ids
  <2>3. Cardinality(Done(view')) = Cardinality(Done(view)) + 1
    BY <1>5, <2>1, FS_AddElement
  <2> QED BY <2>1, <2>2, <2>3
<1>7. \A i \in Done(view) :
        view.rows[i].at \in Nat /\ view.rows[i].at <= Cardinality(Done(view))
  BY DEF Told, Ranked
<1>8. Ranked(view')
  <2> SUFFICES ASSUME NEW i \in Done(view')
               PROVE  /\ view'.rows[i].at \in Nat
                      /\ view'.rows[i].at <= Cardinality(Done(view'))
    BY DEF Ranked
  <2>1. CASE i = id
    BY <1>3, <1>5, <1>6, <2>1
  <2>2. CASE i # id
    <3>1. i \in Done(view) /\ view'.rows[i] = view.rows[i]
      BY <1>5, <2>2
    <3> QED BY <1>6, <1>7, <3>1
  <2> QED BY <2>1, <2>2
<1>9. Explains(Story(view'), live)
  <2> DEFINE story == Story(view)
             new   == Story(view')
  <2>1. /\ DOMAIN new = DOMAIN story \cup {id} /\ id \notin DOMAIN story
        /\ \A i \in DOMAIN story : new[i] = story[i]
    BY <1>5 DEF Story
  <2>2. \A i \in DOMAIN story : story[i].at \in Nat /\ story[i].at < Clock
    <3>1. \A i \in DOMAIN story : story[i].at = view.rows[i].at /\ i \in Done(view)
      BY StoryFacts
    <3> QED BY <1>6, <1>7, <3>1
  <2>3. /\ new[id].slot = slot /\ new[id].at = Clock
        /\ new[id].prev = view.live[slot] /\ new[id].left = config
    BY <1>3, <1>5, StoryFacts
  <2>4. Explains(story, view.live) /\ Clock \in Nat
    BY <1>6 DEF Told
  <2> HIDE DEF story, new, slot
  <2>5. Explains(new, [view.live EXCEPT ![slot] = config])
    BY <1>1, <1>3, <2>1, <2>2, <2>3, <2>4, NextChapter
  <2> QED BY <2>5 DEF live, new
<1> QED BY <1>5, <1>8, <1>9 DEF Told

Explained == Told(saved) /\ Told(view)

LEMMA ToldInit ==
  ASSUME Init
  PROVE  Explained
<1>1. saved.rows = <<>> /\ saved.live = [s \in Slots |-> NoConfig] /\ view = saved
  BY DEF Init
<1>2. Done(saved) = {}
  BY <1>1 DEF Done
<1>3. DOMAIN Story(saved) = {}
  BY <1>2, StoryFacts
<1> QED BY <1>1, <1>2, <1>3 DEF Explained, Told, Ranked, Explains

LEMMA ToldStep ==
  ASSUME GovernanceAssumption, Kept, Explained, [Next]_vars
  PROVE  Explained'
<1> USE DEF Explained
<1>0. Sound(view) /\ Sound(view') /\ Typed
  BY KeptStep DEF Kept
<1>1. ASSUME NEW t \in Threads, Handle(t) PROVE Explained'
  <2>1. ASSUME NEW p \in People, NEW slot \in Slots, NEW op \in {"upsert", "remove"},
               NEW config \in Configs, Submit(t, p, slot, op, config)
        PROVE  Explained'
    <3>1. Told(view')
      BY <1>0, <2>1, SubmitTold
    <3>2. saved' = saved
      BY <2>1 DEF Submit, Execute
    <3> QED BY <3>1, <3>2
  <2>2. ASSUME NEW p \in People, NEW id \in Ids, NEW status \in {"approved", "rejected"},
               Decide(t, p, id, status)
        PROVE  Explained'
    <3>1. Told(view')
      BY <1>0, <2>2, DecideTold
    <3>2. saved' = saved
      BY <2>2 DEF Decide, Execute
    <3> QED BY <3>1, <3>2
  <2>3. ASSUME NEW p \in People, NEW id \in Ids, Apply(t, p, id) PROVE Explained'
    <3>1. Told(view')
      BY <1>0, <2>3, ApplyTold
    <3>2. saved' = saved
      BY <2>3 DEF Apply, Execute
    <3> QED BY <3>1, <3>2
  <2>4. CASE Commit(t)
    BY <2>4 DEF Commit
  <2>5. CASE CommitFails(t)
    BY <2>5 DEF CommitFails
  <2>6. CASE Report(t)
    BY <2>6 DEF Report
  <2> QED BY <1>1, <2>1, <2>2, <2>3, <2>4, <2>5, <2>6 DEF Handle
<1>2. ASSUME NEW id \in Ids, NEW config \in Configs, EditPayload(id, config)
      PROVE  Explained'
  <2>1. Told(view')
    BY <1>0, <1>2, EditTold
  <2>2. saved' = view'
    BY <1>2 DEF EditPayload
  <2> QED BY <2>1, <2>2
<1>3. CASE Crash
  BY <1>3 DEF Crash
<1>4. CASE UNCHANGED vars
  BY <1>4 DEF vars
<1> QED BY <1>1, <1>2, <1>3, <1>4 DEF Next

\* Replaying the applied rows by applied_at explains what each of them found
\* (prev_snapshot) and what active_configs holds, in the file and as the shared
\* connection reads it, whatever commits fail and whatever payload is edited.
THEOREM LedgerExplainsLive ==
  ASSUME GovernanceAssumption
  PROVE  Spec => []LedgerReplaysToLive
<1>1. Init => Explained
  BY ToldInit
<1>2. Kept /\ Explained /\ [Next]_vars => Explained'
  BY ToldStep
<1>3. Spec => []Kept
  BY KeptAlways, PTL
<1>4. Explained => LedgerReplaysToLive
  BY ExplainedReplays DEF Explained, Told, LedgerReplaysToLive
<1> QED BY <1>1, <1>2, <1>3, <1>4, PTL DEF Spec
=============================================================================
