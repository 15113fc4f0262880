------------------------ MODULE GuardedAnswersProofs ------------------------
(***************************************************************************)
(* Theorems about GuardedAnswers, for any processes, confidences, uses of  *)
(* the guard, attempts, faults, chains and tier budgets.                   *)
(*                                                                         *)
(* Four parts, of which the last needs the third.  The guard: what each     *)
(* process holds is Sound, which looks at the result also while the call   *)
(* is still under way.  The ledger: Orderly, of which the heart is that a  *)
(* transaction holds the write lock and at most its own next row, and that *)
(* nothing a call has still to write is stored.  The cascades: BarKept,    *)
(* every tier of every router that may still be asked wants as much as     *)
(* some tier of the router the caller configured; and WalkMet, what a      *)
(* walk has seen and spent is what the tiers it went through gave and      *)
(* cost, so that its result is the reference's.                            *)
(***************************************************************************)
EXTENDS GuardedAnswers, SequenceTheorems, FiniteSetTheorems, TLAPS

(* The guard *)

Outcomes == [passed : BOOLEAN, released : BOOLEAN, conf : Nat]
Works ==
  [at : {"idle", "asking", "logging", "judging", "gating"}, entry : Entries,
   policy : Policies, todo : Nat, retry : BOOLEAN, tooled : BOOLEAN, conf : Nat,
   result : Outcomes]

\* A result that the guard may release under a policy.
Judged(result, policy) ==
  result.released =>
    /\ result.conf >= Threshold \/ policy \in {"flag", "passthrough"}
    /\ result.passed <=> result.conf >= Threshold

\* Between the first pass and the tool the result is judged, but not yet gated.
Sound(w) ==
  /\ w \in Works
  /\ Judged(w.result, w.policy)
  /\ HandedOut(w) /\ w.entry = "tool" => w.tooled \/ w.result.conf >= Gate

AllSound == /\ DOMAIN work = Procs
            /\ work = [p \in Procs |-> work[p]]
            /\ \A p \in Procs : Sound(work[p])

LEMMA Unreleased ==
  ASSUME NEW conf \in Nat
  PROVE  /\ Abstained(conf) \in Outcomes /\ ~Abstained(conf).released
         /\ NoOutcome \in Outcomes /\ ~NoOutcome.released
BY DEF Abstained, NoOutcome, Outcome, Outcomes

LEMMA Changed ==
  ASSUME AllSound, NEW p \in Procs, NEW w, Update(p, w), Sound(w)
  PROVE  AllSound'
BY DEF AllSound, Update, Sound, Judged, HandedOut

LEMMA HandsSound ==
  ASSUME AllSound, NEW p \in Procs, NEW result \in Outcomes, Hands(p, result),
         Judged(result, work[p].policy),
         result.released /\ work[p].entry = "tool" =>
           work[p].tooled \/ result.conf >= Gate
  PROVE  AllSound'
<1> DEFINE w == work[p]
           next == [w EXCEPT !.at = "asking", !.todo = @ - 1, !.retry = FALSE,
                             !.conf = 0, !.result = result]
           last == [w EXCEPT !.at = "idle", !.todo = 0, !.conf = 0, !.result = result]
<1>1. w \in Works
  BY DEF AllSound, Sound
<1>2. CASE w.todo > 1
  <2>0. w.todo \in Nat /\ w.todo - 1 \in Nat
    BY <1>1, <1>2 DEF Works
  <2>1. next \in Works /\ next.result = result /\ next.policy = w.policy
        /\ next.entry = w.entry /\ next.tooled = w.tooled
    BY <1>1, <2>0 DEF Works
  <2>2. Sound(next)
    BY <2>1 DEF Sound, Judged, HandedOut
  <2> QED
    BY <1>2, <2>2, Changed DEF Hands
<1>3. CASE ~(w.todo > 1)
  <2>1. last \in Works /\ last.result = result /\ last.policy = w.policy
        /\ last.entry = w.entry /\ last.tooled = w.tooled
    BY <1>1 DEF Works
  <2>2. Sound(last)
    BY <2>1 DEF Sound, Judged, HandedOut
  <2> QED
    BY <1>3, <2>2, Changed DEF Hands
<1> QED
  BY <1>2, <1>3

\* A process that hands nothing out.
LEMMA EmptyHanded ==
  ASSUME NEW w \in Works, ~w.result.released
  PROVE  Sound(w)
BY DEF Sound, Judged, HandedOut

LEMMA FailsSound ==
  ASSUME AllSound, NEW p \in Procs, NEW kind, Fails(p, kind)
  PROVE  AllSound'
<1> DEFINE w == work[p]
           next == [w EXCEPT !.at = "idle", !.todo = 0, !.conf = 0, !.result = NoOutcome]
<1>1. w \in Works
  BY DEF AllSound, Sound
<1>2. CASE Hands(p, Abstained(0))
  BY <1>2, HandsSound, Unreleased DEF Judged
<1>3. CASE Update(p, next)
  <2>1. next \in Works /\ next.result = NoOutcome
    BY <1>1, Unreleased DEF Works
  <2> QED
    BY <1>3, <2>1, EmptyHanded, Changed, Unreleased
<1> QED
  BY <1>2, <1>3 DEF Fails

LEMMA SettleSound ==
  ASSUME AllSound, NEW p \in Procs, NEW passed \in BOOLEAN, NEW released \in BOOLEAN,
         Settle(p, passed, released),
         Judged(Outcome(passed, released, work[p].conf), work[p].policy)
  PROVE  AllSound'
<1> DEFINE w == work[p]
           result == Outcome(passed, released, w.conf)
           next == [w EXCEPT !.at = "gating", !.conf = 0, !.result = result]
<1>1. w \in Works
  BY DEF AllSound, Sound
<1>2. result \in Outcomes
  BY <1>1 DEF Works, Outcome, Outcomes
<1>3. CASE w.entry = "tool" /\ ~w.tooled
  <2>1. next \in Works /\ next.result = result /\ next.policy = w.policy
        /\ next.entry = w.entry /\ next.at = "gating"
    BY <1>1, <1>2 DEF Works
  <2>2. Sound(next)
    BY <1>3, <2>1 DEF Sound, HandedOut
  <2> QED
    BY <1>3, <2>2, Changed DEF Settle
<1>4. CASE ~(w.entry = "tool" /\ ~w.tooled)
  BY <1>2, <1>4, HandsSound DEF Settle
<1> QED
  BY <1>3, <1>4

LEMMA GuardSound ==
  ASSUME AllSound, NEW p \in Procs, GuardStep(p)
  PROVE  AllSound'
<1> DEFINE w == work[p]
<1> USE GuardAssumption
<1>0. w \in Works /\ Judged(w.result, w.policy)
  BY DEF AllSound, Sound
<1>1. CASE Call(p)
  <2> PICK u \in Uses[p] :
        Update(p, [Rest EXCEPT !.at = "asking", !.policy = u[1], !.entry = u[2],
                               !.todo = IF u[2] = "batch" THEN Batch ELSE 1])
    BY <1>1 DEF Call
  <2> DEFINE next == [Rest EXCEPT !.at = "asking", !.policy = u[1], !.entry = u[2],
                                  !.todo = IF u[2] = "batch" THEN Batch ELSE 1]
  <2>1. u[1] \in Policies /\ u[2] \in Entries
    OBVIOUS
  <2>2. next \in Works /\ next.result = NoOutcome
    BY <2>1, Unreleased DEF Rest, Works
  <2> QED
    BY <2>2, EmptyHanded, Changed, Unreleased
<1>2. CASE ModelAnswers(p)
  <2> PICK c \in Confidences :
        Update(p, [w EXCEPT !.at = "logging", !.conf = c, !.result = NoOutcome])
    BY <1>2 DEF ModelAnswers
  <2> DEFINE next == [w EXCEPT !.at = "logging", !.conf = c, !.result = NoOutcome]
  <2>1. c \in Nat
    BY DEF Confidences
  <2>2. next \in Works /\ next.result = NoOutcome
    BY <1>0, <2>1, Unreleased DEF Works
  <2> QED
    BY <2>2, EmptyHanded, Changed, Unreleased
<1>3. CASE ModelFails(p) \/ RaisePolicy(p)
  BY <1>3, FailsSound DEF ModelFails, RaisePolicy
<1>4. CASE HookGoesOn(p) \/ Records(p)
  BY <1>4 DEF HookGoesOn, Records, AllSound, Sound, Judged, HandedOut
<1>5. CASE HookEnds(p)
  <2> DEFINE next == [w EXCEPT !.at = "judging"]
  <2>1. next \in Works /\ next.result = w.result /\ next.policy = w.policy
        /\ next.entry = w.entry /\ next.tooled = w.tooled
    BY <1>0 DEF Works
  <2>2. w.at = "logging" /\ next.at = "judging"
    BY <1>0, <1>5 DEF HookEnds, Works
  <2>3. Sound(next)
    BY <1>0, <2>1, <2>2 DEF Sound, HandedOut, AllSound
  <2> QED
    BY <1>5, <2>3, Changed DEF HookEnds
<1>6. CASE Passes(p)
  <2>1. Settle(p, TRUE, TRUE) /\ w.conf >= Threshold
    BY <1>6 DEF Passes, SureEnough
  <2> QED
    BY <2>1, SettleSound DEF Judged, Outcome
<1>7. CASE FallsThrough(p)
  BY <1>7, SettleSound DEF FallsThrough, Judged, Outcome
<1>8. CASE LetsThrough(p)
  <2>1. Settle(p, FALSE, TRUE) /\ ~(w.conf >= Threshold) /\ w.policy \in {"flag", "passthrough"}
    BY <1>8 DEF LetsThrough, SureEnough, First
  <2> QED
    BY <2>1, SettleSound DEF Judged, Outcome
<1>9. CASE AsksAgain(p)
  <2> DEFINE next == [w EXCEPT !.at = "asking", !.retry = TRUE, !.conf = 0]
  <2>1. next \in Works /\ next.result = w.result /\ next.policy = w.policy
        /\ next.entry = w.entry /\ next.tooled = w.tooled /\ next.at = "asking"
    BY <1>0 DEF Works
  <2>2. Sound(next)
    BY <1>0, <2>1 DEF Sound, HandedOut, AllSound
  <2> QED
    BY <1>9, <2>2, Changed DEF AsksAgain
<1>10. CASE ToolSkipped(p)
  <2>1. w.result \in Outcomes /\ w.result.conf >= Gate /\ Hands(p, w.result)
    BY <1>0, <1>10 DEF ToolSkipped, Works
  <2> QED
    BY <1>0, <2>1, HandsSound
<1>11. CASE ToolAnswers(p)
  <2> DEFINE next == [w EXCEPT !.at = "asking", !.retry = FALSE, !.tooled = TRUE]
  <2>1. next \in Works /\ next.result = w.result /\ next.policy = w.policy
        /\ next.entry = w.entry /\ next.tooled
    BY <1>0 DEF Works
  <2>2. Sound(next)
    BY <1>0, <2>1 DEF Sound, HandedOut
  <2> QED
    BY <1>11, <2>2, Changed DEF ToolAnswers
<1>12. CASE ToolFails(p)
  <2>1. w.result.conf \in Nat
    BY <1>0 DEF Works, Outcomes
  <2> QED
    BY <1>12, <2>1, HandsSound, Unreleased DEF ToolFails, Judged
<1>13. CASE Crash(p)
  <2>1. Rest \in Works /\ Rest.result = NoOutcome
    BY Unreleased DEF Rest, Works, Policies, Entries
  <2> QED
    BY <1>13, <2>1, EmptyHanded, Changed, Unreleased DEF Crash
<1> QED
  BY <1>1, <1>2, <1>3, <1>4, <1>5, <1>6, <1>7, <1>8, <1>9, <1>10, <1>11, <1>12, <1>13
  DEF GuardStep

LEMMA InitSound == Init => AllSound
<1>1. Rest \in Works /\ Rest.result = NoOutcome
  BY Unreleased DEF Rest, Works, Policies, Entries
<1>2. Sound(Rest)
  BY <1>1, EmptyHanded, Unreleased
<1> QED
  BY <1>2 DEF Init, GuardInit, AllSound

\* No way through UncertaintyGuard, second answers, failing tools and batches
\* included, hands out an answer its policy would not let out.
THEOREM OnlyEarnedAnswers == Spec => []AnswersAreEarned
<1>1. AllSound /\ [Next]_vars => AllSound'
  <2>1. ASSUME AllSound, UNCHANGED work
        PROVE  AllSound'
    BY <2>1 DEF AllSound, Sound, Judged, HandedOut
  <2> QED
    BY <2>1, GuardSound DEF Next, Cascades, Guards, vars, gvars
<1>2. AllSound => AnswersAreEarned
  BY DEF AllSound, Sound, Judged, AnswersAreEarned, HandedOut
<1> QED
  BY <1>1, <1>2, InitSound, PTL DEF Spec

---------------------------------------------------------------------------
(* The ledger *)

Rows == [table : Tables, id : Nat, ask : Nat, step : Nat, ref : Nat]
Calls == [at : {"out", "insert", "commit", "asleep", "returned", "raised"},
          ask : Nat, step : Nat, ref : Nat, attempt : Nat, id : Nat]

LedgerTyped ==
  /\ rows \in SUBSET Rows
  /\ lastId \in [Tables -> Nat]
  /\ open \in [Procs -> SUBSET Rows]
  /\ log \in [Procs -> Calls]
  /\ refused \in SUBSET [ask : Nat, step : Nat]
  /\ asks \in Nat

Out(p) == log[p].at = "out"

\* A transaction is open from the insert to the commit, and holds the lock.
Written(p) == [table |-> Table(log[p].step), id |-> log[p].id,
               ask |-> log[p].ask, step |-> log[p].step, ref |-> log[p].ref]
Transaction(p) ==
  IF log[p].at = "commit"
  THEN /\ lock = p /\ open[p] = {Written(p)}
       /\ log[p].id = lastId[Table(log[p].step)] + 1
  ELSE lock # p /\ open[p] = {}

\* A call is about an answer of its own, and nothing of what it has still to
\* write is stored.
Own(p) ==
  ~Out(p) =>
    /\ log[p].ask \in 1..asks /\ log[p].step > 0
    /\ \A q \in Procs : q # p /\ ~Out(q) => log[q].ask # log[p].ask
    /\ \A r \in rows : r.ask = log[p].ask =>
         r.step < log[p].step \/ (r.step = log[p].step /\ log[p].at = "returned")

Stored(p) ==
  log[p].at = "returned" =>
    \E r \in rows : /\ r.table = Table(log[p].step) /\ r.id = log[p].id
                    /\ r.ask = log[p].ask /\ r.step = log[p].step

\* What a row of this step is filed under.
ParentTable(step) == IF step = 2 THEN "queries" ELSE "answers"
Referred(p) ==
  ~Out(p) /\ log[p].step > 1 =>
    \E q \in rows : /\ q.table = ParentTable(log[p].step) /\ q.id = log[p].ref
                    /\ q.ask = log[p].ask

\* Of what is committed: one row for a step of an answer, one for an id.
RowsFit ==
  /\ \A r \in rows : r.ask \in 1..asks /\ r.id <= lastId[r.table]
  /\ \A r, s \in rows : r.ask = s.ask /\ r.step = s.step => r = s
  /\ \A r, s \in rows : r.table = s.table /\ r.id = s.id => r = s
  /\ \A r \in rows : r.step > 1 =>
       \E q \in rows : q.table = ParentTable(r.step) /\ q.id = r.ref /\ q.ask = r.ask

\* What raised is over.
Over ==
  \A c \in refused :
    /\ c.ask \in 1..asks
    /\ \A r \in rows : ~(r.ask = c.ask /\ r.step = c.step)
    /\ \A p \in Procs : ~Out(p) /\ log[p].ask = c.ask => log[p].at = "raised"

Orderly ==
  /\ LedgerTyped
  /\ \A p \in Procs : Transaction(p) /\ Own(p) /\ Stored(p) /\ Referred(p)
  /\ RowsFit /\ Over

LEMMA InitOrderly == Init => Orderly
BY LedgerAssumption
DEF Init, GuardInit, LedgerInit, Orderly, LedgerTyped, Transaction, Own, Stored, Referred,
    RowsFit, Over, Out, NoLog, Calls

LEMMA OrderlyGives == Orderly => StoredOnce /\ FiledWhereItBelongs
<1> SUFFICES ASSUME Orderly PROVE StoredOnce /\ FiledWhereItBelongs
  OBVIOUS
<1>1. StoredOnce
  BY DEF Orderly, Stored, RowsFit, Over, StoredOnce
<1>2. FiledWhereItBelongs
  BY DEF Orderly, RowsFit, FiledWhereItBelongs, Parents, ParentTable
<1> QED
  BY <1>1, <1>2

LEMMA TableTyped == ASSUME NEW step PROVE Table(step) \in Tables
BY DEF Table, Tables

---------------------------------------------------------------------------
(* The steps of a log_ method *)

\* One call moves, the others stay where they are.
Moves(p) == /\ log' \in [Procs -> Calls]
            /\ \A q \in Procs : q # p => log'[q] = log[q]

\* A step of a call that stores nothing: it may raise.
LEMMA UnwrittenMove ==
  ASSUME Orderly, NEW p \in Procs, Moves(p),
         rows' = rows, lastId' = lastId, asks' = asks,
         open' \in [Procs -> SUBSET Rows], \A q \in Procs : Transaction(q)',
         log[p].at \in {"insert", "commit", "asleep"},
         log'[p].at \in {"insert", "commit", "asleep", "raised"},
         log'[p].ask = log[p].ask, log'[p].step = log[p].step, log'[p].ref = log[p].ref,
         \/ refused' = refused
         \/ /\ refused' = refused \cup {[ask |-> log[p].ask, step |-> log[p].step]}
            /\ log'[p].at = "raised"
  PROVE  Orderly'
<1>1. LedgerTyped'
  BY DEF Orderly, LedgerTyped, Moves, Calls
<1>2. RowsFit'
  BY DEF Orderly, RowsFit
<1>3. \A q \in Procs : Own(q)' /\ Stored(q)' /\ Referred(q)'
  BY DEF Orderly, Own, Stored, Referred, Moves, Out
<1>4. Over'
  <2>1. ASSUME NEW c \in refused PROVE c.ask # log[p].ask
    BY DEF Orderly, Over, Out
  <2>2. \A c \in refused :
         /\ c.ask \in 1..asks
         /\ \A r \in rows : ~(r.ask = c.ask /\ r.step = c.step)
         /\ \A q \in Procs : log'[q].at # "out" /\ log'[q].ask = c.ask => log'[q].at = "raised"
    BY <2>1 DEF Orderly, Over, Out, Moves
  <2>3. /\ log[p].ask \in 1..asks
        /\ \A r \in rows : ~(r.ask = log[p].ask /\ r.step = log[p].step)
        /\ \A q \in Procs : q # p /\ log[q].at # "out" => log[q].ask # log[p].ask
    BY DEF Orderly, Own, Out, LedgerTyped, Rows, Calls
  <2> QED
    BY <2>2, <2>3 DEF Over, Out, Moves
<1> QED
  BY <1>1, <1>2, <1>3, <1>4 DEF Orderly

\* A call that is over, or whose process is.
LEMMA LeavesOrderly ==
  ASSUME Orderly, NEW p \in Procs, log' = [log EXCEPT ![p] = NoLog],
         rows' = rows, lastId' = lastId, asks' = asks, refused' = refused,
         open' \in [Procs -> SUBSET Rows], \A q \in Procs : Transaction(q)'
  PROVE  Orderly'
<1>1. LedgerTyped' /\ Moves(p) /\ Out(p)'
  BY DEF Orderly, LedgerTyped, Moves, NoLog, Calls, Out
<1>2. RowsFit'
  BY DEF Orderly, RowsFit
<1>3. \A q \in Procs : Own(q)' /\ Stored(q)' /\ Referred(q)'
  BY <1>1 DEF Orderly, Own, Stored, Referred, Moves, Out
<1>4. Over'
  BY <1>1 DEF Orderly, Over, Moves, Out
<1> QED
  BY <1>1, <1>2, <1>3, <1>4 DEF Orderly

LEMMA NextIdIsNew ==
  ASSUME Orderly, NEW p \in Procs, open[p] = {}
  PROVE  NextId(p) = lastId[Table(log[p].step)] + 1
<1>1. {r \in open[p] : r.table = Table(log[p].step)} = {}
  OBVIOUS
<1> QED
  BY <1>1, FS_EmptySet, TableTyped DEF NextId, OpenRows, Orderly, LedgerTyped

LEMMA InsertOrderly ==
  ASSUME Orderly, NEW p \in Procs, Insert(p), asks' = asks
  PROVE  Orderly'
<1>1. log[p].at = "insert" /\ lock \in {NoProc, p} /\ lock' = p /\ rows' = rows
      /\ lastId' = lastId /\ refused' = refused
      /\ log' = [log EXCEPT ![p].at = "commit", ![p].id = NextId(p)]
      /\ open' = [open EXCEPT ![p] = @ \cup {Row(p)}]
  BY DEF Insert
<1>2. open[p] = {} /\ NextId(p) = lastId[Table(log[p].step)] + 1
  BY <1>1, NextIdIsNew DEF Orderly, Transaction
<1>3. NextId(p) \in Nat /\ Row(p) \in Rows
  BY <1>2, TableTyped DEF Row, Rows, Orderly, LedgerTyped, Calls
<1>4. Moves(p) /\ log'[p].at = "commit" /\ log'[p].id = NextId(p)
      /\ log'[p].ask = log[p].ask /\ log'[p].step = log[p].step /\ log'[p].ref = log[p].ref
  BY <1>1, <1>3 DEF Moves, Orderly, LedgerTyped, Calls
<1>5. open' \in [Procs -> SUBSET Rows] /\ open'[p] = {Row(p)}
      /\ \A q \in Procs : q # p => open'[q] = open[q]
  BY <1>1, <1>2, <1>3 DEF Orderly, LedgerTyped
<1>6. Transaction(p)'
  BY <1>1, <1>2, <1>4, <1>5 DEF Transaction, Written, Row
<1>7. ASSUME NEW q \in Procs, q # p PROVE Transaction(q)'
  <2>1. log[q].at # "commit" /\ open[q] = {}
    BY <1>1, <1>7, LedgerAssumption DEF Orderly, Transaction
  <2> QED
    BY <1>1, <1>4, <1>5, <1>7, <2>1 DEF Transaction, Moves
<1> QED
  BY <1>1, <1>4, <1>5, <1>6, <1>7, UnwrittenMove

\* A transaction that is given up leaves nothing open.
LEMMA RolledBack ==
  ASSUME Orderly, NEW p \in Procs, Rollback(p), Moves(p), lastId' = lastId,
         log'[p].at # "commit"
  PROVE  open' \in [Procs -> SUBSET Rows] /\ \A q \in Procs : Transaction(q)'
<1>1. open' = [open EXCEPT ![p] = {}] /\ lock' = Unlocked(p)
  BY DEF Rollback
<1>2. Transaction(p)'
  BY <1>1, LedgerAssumption DEF Orderly, LedgerTyped, Transaction, Unlocked
<1>3. ASSUME NEW q \in Procs, q # p PROVE Transaction(q)'
  <2>1. log'[q] = log[q] /\ open'[q] = open[q]
    BY <1>1, <1>3 DEF Moves, Orderly, LedgerTyped
  <2>2. lock' = q <=> lock = q
    BY <1>1, <1>3, LedgerAssumption DEF Unlocked
  <2> QED
    BY <2>1, <2>2 DEF Orderly, Transaction, Written
<1> QED
  BY <1>1, <1>2, <1>3 DEF Orderly, LedgerTyped

LEMMA FailsOrderly ==
  ASSUME Orderly, NEW p \in Procs, log[p].at \in {"insert", "commit"}, asks' = asks,
         TryAgain(p) \/ Breaks(p)
  PROVE  Orderly'
<1>1. Rollback(p) /\ rows' = rows /\ lastId' = lastId
  BY DEF TryAgain, Breaks
<1>2. CASE Raise(p)
  <2>1. Moves(p) /\ log'[p].at = "raised"
        /\ log'[p].ask = log[p].ask /\ log'[p].step = log[p].step /\ log'[p].ref = log[p].ref
        /\ refused' = refused \cup {[ask |-> log[p].ask, step |-> log[p].step]}
    BY <1>2 DEF Raise, Moves, Orderly, LedgerTyped, Calls
  <2> QED
    BY <1>1, <2>1, RolledBack, UnwrittenMove
<1>3. CASE /\ log' = [log EXCEPT ![p].at = "asleep", ![p].attempt = @ + 1]
           /\ refused' = refused
  <2>1. Moves(p) /\ log'[p].at = "asleep"
        /\ log'[p].ask = log[p].ask /\ log'[p].step = log[p].step /\ log'[p].ref = log[p].ref
    BY <1>3 DEF Moves, Orderly, LedgerTyped, Calls
  <2> QED
    BY <1>1, <1>3, <2>1, RolledBack, UnwrittenMove
<1> QED
  BY <1>2, <1>3 DEF TryAgain, Breaks

LEMMA WakeUpOrderly ==
  ASSUME Orderly, NEW p \in Procs, WakeUp(p), asks' = asks
  PROVE  Orderly'
<1>1. log[p].at = "asleep" /\ log' = [log EXCEPT ![p].at = "insert"]
      /\ UNCHANGED <<rows, lastId, open, lock, refused>>
  BY DEF WakeUp
<1>2. Moves(p) /\ log'[p].at = "insert"
      /\ log'[p].ask = log[p].ask /\ log'[p].step = log[p].step /\ log'[p].ref = log[p].ref
  BY <1>1 DEF Moves, Orderly, LedgerTyped, Calls
<1>3. open' \in [Procs -> SUBSET Rows] /\ \A q \in Procs : Transaction(q)'
  BY <1>1, <1>2 DEF Orderly, LedgerTyped, Transaction, Written, Moves
<1> QED
  BY <1>1, <1>2, <1>3, UnwrittenMove

\* A commit stores one row, under the next id of its table.
LEMMA CommitFacts ==
  ASSUME Orderly, NEW p \in Procs, Commit(p)
  PROVE  /\ rows' = rows \cup {Written(p)} /\ Written(p) \in Rows
         /\ lastId' = [lastId EXCEPT ![Table(log[p].step)] = @ + 1]
         /\ Written(p).id = lastId[Table(log[p].step)] + 1
         /\ Moves(p) /\ log' = [log EXCEPT ![p].at = "returned"]
         /\ log'[p] = [log[p] EXCEPT !.at = "returned"]
         /\ open' \in [Procs -> SUBSET Rows]
         /\ \A q \in Procs : Transaction(q)'
<1> DEFINE n == Table(log[p].step)
<1>1. /\ log[p].at = "commit" /\ rows' = rows \cup open[p]
      /\ lastId' = [m \in Tables |-> lastId[m] + OpenRows(p, m)]
      /\ open' = [open EXCEPT ![p] = {}] /\ lock' = NoProc
      /\ log' = [log EXCEPT ![p].at = "returned"]
  BY DEF Commit
<1>2. open[p] = {Written(p)} /\ lock = p /\ log[p].id = lastId[n] + 1
  BY <1>1 DEF Orderly, Transaction
<1>3. Written(p) \in Rows /\ Written(p).table = n /\ Written(p).id = lastId[n] + 1
  BY <1>2, TableTyped DEF Orderly, LedgerTyped, Calls, Rows, Written
<1>4. OpenRows(p, n) = 1
  <2>1. {r \in open[p] : r.table = n} = {Written(p)}
    BY <1>2, <1>3
  <2> QED
    BY <2>1, FS_Singleton DEF OpenRows
<1>5. ASSUME NEW m \in Tables, m # n PROVE OpenRows(p, m) = 0
  <2>1. {r \in open[p] : r.table = m} = {}
    BY <1>2, <1>3, <1>5
  <2> QED
    BY <2>1, FS_EmptySet DEF OpenRows
<1>6. lastId' = [lastId EXCEPT ![n] = @ + 1]
  <2>1. n \in Tables /\ lastId \in [Tables -> Nat]
    BY TableTyped DEF Orderly, LedgerTyped
  <2>2. \A m \in Tables : lastId[m] + OpenRows(p, m) = IF m = n THEN lastId[n] + 1 ELSE lastId[m]
    BY <1>4, <1>5, <2>1
  <2>3. lastId' = [m \in Tables |-> IF m = n THEN lastId[n] + 1 ELSE lastId[m]]
    BY <1>1, <2>2
  <2> QED
    BY <2>1, <2>3
<1>7. Moves(p) /\ log'[p] = [log[p] EXCEPT !.at = "returned"]
  BY <1>1 DEF Moves, Orderly, LedgerTyped, Calls
<1>8. open' \in [Procs -> SUBSET Rows] /\ open'[p] = {}
      /\ \A q \in Procs : q # p => open'[q] = open[q]
  BY <1>1 DEF Orderly, LedgerTyped
<1>9. ASSUME NEW q \in Procs PROVE Transaction(q)'
  <2>1. log'[q].at # "commit"
    BY <1>1, <1>2, <1>7 DEF Orderly, LedgerTyped, Calls, Transaction, Moves
  <2>2. open'[q] = {}
    BY <1>2, <1>8 DEF Orderly, Transaction
  <2> QED
    BY <1>1, <2>1, <2>2, LedgerAssumption DEF Transaction
<1> QED
  BY <1>1, <1>2, <1>3, <1>6, <1>7, <1>8, <1>9

LEMMA CommitOrderly ==
  ASSUME Orderly, NEW p \in Procs, Commit(p), asks' = asks
  PROVE  Orderly'
<1> DEFINE w == Written(p)
           n == Table(log[p].step)
<1>1. /\ rows' = rows \cup {w} /\ w \in Rows /\ w.id = lastId[n] + 1
      /\ lastId' = [lastId EXCEPT ![n] = @ + 1]
      /\ Moves(p) /\ \A q \in Procs : Transaction(q)'
      /\ open' \in [Procs -> SUBSET Rows]
  BY CommitFacts
<1>2. refused' = refused /\ log[p].at = "commit"
  BY DEF Commit
<1>3. /\ log'[p].at = "returned" /\ log'[p].ask = log[p].ask /\ log'[p].step = log[p].step
      /\ log'[p].ref = log[p].ref /\ log'[p].id = log[p].id
  BY DEF Commit, Orderly, LedgerTyped, Calls
<1>4. w.table = n /\ w.id = log[p].id /\ w.ask = log[p].ask /\ w.step = log[p].step
      /\ w.ref = log[p].ref
  BY DEF Written
<1>5. n \in Tables /\ lastId \in [Tables -> Nat] /\ rows \in SUBSET Rows
      /\ log \in [Procs -> Calls] /\ asks \in Nat
  BY TableTyped DEF Orderly, LedgerTyped
<1>6. /\ log[p].ask \in 1..asks /\ log[p].step > 0
      /\ \A q \in Procs : q # p /\ log[q].at # "out" => log[q].ask # log[p].ask
      /\ \A r \in rows : r.ask = log[p].ask => r.step < log[p].step
  BY <1>2 DEF Orderly, Own, Out
<1>7. LedgerTyped'
  BY <1>1, <1>2, <1>5 DEF Orderly, LedgerTyped, Moves
<1>8. \A q \in Procs : Own(q)'
  <2>1. Own(p)'
    BY <1>1, <1>3, <1>4, <1>6 DEF Own, Out, Moves
  <2>2. ASSUME NEW q \in Procs, q # p PROVE Own(q)'
    <3>1. log'[q] = log[q] /\ Own(q)
      BY <1>1, <2>2 DEF Moves, Orderly
    <3>2. log[q].at # "out" => w.ask # log[q].ask
      BY <1>4, <1>6, <2>2
    <3>3. \A u \in Procs : log'[u].ask = log[u].ask /\ (log'[u].at = "out" <=> log[u].at = "out")
      BY <1>1, <1>2, <1>3 DEF Moves
    <3> QED
      BY <1>1, <3>1, <3>2, <3>3 DEF Own, Out
  <2> QED
    BY <2>1, <2>2
<1>9. \A q \in Procs : Stored(q)' /\ Referred(q)'
  <2>1. \A q \in Procs : q # p => Stored(q)' /\ Referred(q)'
    BY <1>1 DEF Orderly, Stored, Referred, Out, Moves
  <2>2. Stored(p)'
    BY <1>1, <1>3, <1>4 DEF Stored
  <2>3. Referred(p)'
    BY <1>1, <1>2, <1>3 DEF Orderly, Referred, Out
  <2> QED
    BY <2>1, <2>2, <2>3
<1>10. RowsFit'
  <2>1. \A r \in rows' : r.ask \in 1..asks' /\ r.id <= lastId'[r.table]
    BY <1>1, <1>4, <1>5, <1>6 DEF Orderly, RowsFit, Rows
  <2>2. \A r \in rows : ~(r.ask = w.ask /\ r.step = w.step)
    BY <1>4, <1>5, <1>6 DEF Rows
  <2>3. \A r \in rows : ~(r.table = w.table /\ r.id = w.id)
    BY <1>1, <1>4, <1>5 DEF Orderly, RowsFit, Rows
  <2>4. \A r, s \in rows' : r.ask = s.ask /\ r.step = s.step => r = s
    BY <1>1, <2>2 DEF Orderly, RowsFit
  <2>5. \A r, s \in rows' : r.table = s.table /\ r.id = s.id => r = s
    BY <1>1, <2>3 DEF Orderly, RowsFit
  <2>6. \A r \in rows' : r.step > 1 =>
          \E q \in rows' : q.table = ParentTable(r.step) /\ q.id = r.ref /\ q.ask = r.ask
    <3>1. Referred(p)
      BY DEF Orderly
    <3> QED
      BY <1>1, <1>2, <1>4, <3>1 DEF Orderly, RowsFit, Referred, Out
  <2> QED
    BY <2>1, <2>4, <2>5, <2>6 DEF RowsFit
<1>11. Over'
  <2>1. \A c \in refused : c.ask # log[p].ask
    BY <1>2 DEF Orderly, Over, Out
  <2>2. \A q \in Procs : log'[q].ask = log[q].ask /\ (q # p => log'[q].at = log[q].at)
    BY <1>1, <1>3 DEF Moves
  <2>3. ASSUME NEW c \in refused
        PROVE  /\ c.ask \in 1..asks
               /\ \A r \in rows' : ~(r.ask = c.ask /\ r.step = c.step)
               /\ \A q \in Procs : log'[q].at # "out" /\ log'[q].ask = c.ask =>
                                      log'[q].at = "raised"
    <3>1. /\ c.ask \in 1..asks
          /\ \A r \in rows : ~(r.ask = c.ask /\ r.step = c.step)
          /\ \A q \in Procs : log[q].at # "out" /\ log[q].ask = c.ask => log[q].at = "raised"
      BY DEF Orderly, Over, Out
    <3>2. c.ask # w.ask /\ c.ask # log[p].ask
      BY <1>4, <2>1
    <3>3. \A r \in rows' : ~(r.ask = c.ask /\ r.step = c.step)
      BY <1>1, <3>1, <3>2
    <3>4. ASSUME NEW q \in Procs, log'[q].at # "out", log'[q].ask = c.ask
          PROVE  log'[q].at = "raised"
      <4>1. log'[q].ask = log[q].ask
        BY <2>2
      <4>2. q # p
        BY <3>2, <3>4, <4>1
      <4>3. log'[q].at = log[q].at
        BY <2>2, <4>2
      <4> QED
        BY <3>1, <3>4, <4>1, <4>3
    <3> QED
      BY <3>1, <3>3, <3>4
  <2> QED
    BY <1>2, <2>3 DEF Over, Out
<1> QED
  BY <1>1, <1>7, <1>8, <1>9, <1>10, <1>11 DEF Orderly

---------------------------------------------------------------------------
(* The steps of the recording of an answer *)

\* A call that begins: of a new answer, or the next of the same.
LEMMA BeginsOrderly ==
  ASSUME Orderly, NEW p \in Procs, NEW ask \in Nat, NEW step \in Nat, NEW ref \in Nat,
         StartLog(p, ask, step, ref), step > 0, log[p].at # "commit",
         UNCHANGED <<rows, lastId, open, lock, refused>>,
         asks' \in Nat, asks <= asks', ask \in 1..asks',
         \A q \in Procs : q # p /\ log[q].at # "out" => log[q].ask # ask,
         \A r \in rows : r.ask = ask => r.step < step,
         \A c \in refused : c.ask # ask,
         step > 1 => \E q \in rows : /\ q.table = ParentTable(step) /\ q.id = ref
                                    /\ q.ask = ask
  PROVE  Orderly'
<1>1. /\ log'[p].at = "insert" /\ log'[p].ask = ask /\ log'[p].step = step
      /\ log'[p].ref = ref /\ Moves(p)
  BY DEF StartLog, Moves, Orderly, LedgerTyped, Calls
<1>2. LedgerTyped'
  BY <1>1 DEF Orderly, LedgerTyped, Moves
<1>3. \A q \in Procs : Transaction(q)'
  BY <1>1 DEF Orderly, Transaction, Written, Moves
<1>4. \A u \in Procs : u # p => log'[u] = log[u]
  BY <1>1 DEF Moves
<1>5. Own(p)'
  <2>1. log'[p].ask \in 1..asks' /\ log'[p].step > 0
    BY <1>1
  <2>2. \A u \in Procs : u # p /\ ~Out(u)' => log'[u].ask # log'[p].ask
    BY <1>1, <1>4 DEF Out
  <2>3. \A r \in rows' : r.ask = log'[p].ask => r.step < log'[p].step
    BY <1>1
  <2> QED
    BY <2>1, <2>2, <2>3, Zenon DEF Own
<1>6. ASSUME NEW q \in Procs, q # p PROVE Own(q)'
  <2>1. Own(q) /\ log'[q] = log[q]
    BY <1>4, <1>6 DEF Orderly
  <2>2. log[q].at # "out" => log[q].ask \in 1..asks'
    BY <2>1 DEF Own, Out, Orderly, LedgerTyped
  <2>3. \A u \in Procs : u # q /\ log'[u].at # "out" /\ log[q].at # "out" =>
          log'[u].ask # log[q].ask
    BY <1>1, <1>4, <1>6, <2>1 DEF Own, Out
  <2> QED
    BY <2>1, <2>2, <2>3 DEF Own, Out
<1>7. \A q \in Procs : Stored(q)' /\ Referred(q)'
  BY <1>1 DEF Orderly, Stored, Referred, Out, Moves
<1>8. RowsFit'
  BY DEF Orderly, LedgerTyped, RowsFit
<1>9. Over'
  BY <1>1 DEF Orderly, LedgerTyped, Over, Out, Moves
<1> QED
  BY <1>2, <1>3, <1>5, <1>6, <1>7, <1>8, <1>9 DEF Orderly

LEMMA ModelAnswersOrderly ==
  ASSUME Orderly, NEW p \in Procs, ModelAnswers(p), Out(p)
  PROVE  Orderly'
<1>1. /\ StartLog(p, asks + 1, 1, 0) /\ asks' = asks + 1 /\ asks \in Nat
      /\ UNCHANGED <<rows, lastId, open, lock, refused>>
  BY DEF ModelAnswers, Orderly, LedgerTyped
<1>2. \A q \in Procs : log[q].at # "out" => log[q].ask # asks + 1
  BY <1>1 DEF Orderly, Own, Out
<1>3. \A r \in rows : r.ask # asks + 1
  BY <1>1 DEF Orderly, RowsFit
<1>4. \A c \in refused : c.ask # asks + 1
  BY <1>1 DEF Orderly, Over
<1> DEFINE ask == asks + 1
<1>5. /\ StartLog(p, ask, 1, 0) /\ log[p].at # "commit"
      /\ asks' \in Nat /\ asks <= asks' /\ ask \in Nat /\ ask \in 1..asks'
  BY <1>1 DEF Out
<1>6. /\ \A q \in Procs : q # p /\ log[q].at # "out" => log[q].ask # ask
      /\ \A r \in rows : r.ask = ask => r.step < 1
      /\ \A c \in refused : c.ask # ask
  BY <1>2, <1>3, <1>4
<1> HIDE DEF ask
<1> QED
  BY <1>1, <1>5, <1>6, BeginsOrderly

LEMMA HookGoesOnOrderly ==
  ASSUME Orderly, NEW p \in Procs, HookGoesOn(p)
  PROVE  Orderly'
<1> DEFINE ask == log[p].ask
           step == log[p].step
<1>1. /\ log[p].at = "returned" /\ StartLog(p, ask, step + 1, NextRef(p))
      /\ UNCHANGED <<rows, lastId, open, lock, refused, asks>>
  BY DEF HookGoesOn
<1>2. /\ ask \in 1..asks /\ step \in Nat /\ step > 0 /\ NextRef(p) \in Nat /\ asks \in Nat
      /\ \A q \in Procs : q # p /\ log[q].at # "out" => log[q].ask # ask
      /\ \A r \in rows : r.ask = ask => r.step < step + 1
  BY <1>1 DEF Orderly, LedgerTyped, Calls, Rows, Own, Out, NextRef
<1>3. \A c \in refused : c.ask # ask
  BY <1>1 DEF Orderly, Over, Out
<1>4. \E q \in rows : /\ q.table = ParentTable(step + 1) /\ q.id = NextRef(p)
                     /\ q.ask = ask
  <2>1. CASE step <= 2
    <3>1. Table(step) = ParentTable(step + 1)
      BY <1>2, <2>1 DEF Table, ParentTable
    <3> QED
      BY <1>1, <2>1, <3>1 DEF Orderly, Stored, NextRef
  <2>2. CASE step > 2
    <3>1. ParentTable(step) = ParentTable(step + 1)
      BY <1>2, <2>2 DEF ParentTable
    <3> QED
      BY <1>1, <1>2, <2>2, <3>1 DEF Orderly, Referred, Out, NextRef
  <2> QED
    BY <1>2, <2>1, <2>2
<1> QED
  BY <1>1, <1>2, <1>3, <1>4, BeginsOrderly

\* A process is in a log_ method only while its hook runs.
Hooked == \A p \in Procs : ~Out(p) <=> work[p].at = "logging"

LEMMA CrashOrderly ==
  ASSUME Orderly, NEW p \in Procs, Crash(p)
  PROVE  Orderly'
<1>1. /\ log' = [log EXCEPT ![p] = NoLog] /\ Rollback(p)
      /\ UNCHANGED <<rows, lastId, refused, asks>>
  BY DEF Crash, Die, Rollback
<1>2. Moves(p) /\ log'[p].at # "commit"
  BY <1>1 DEF Moves, Orderly, LedgerTyped, NoLog, Calls
<1> QED
  BY <1>1, <1>2, RolledBack, LeavesOrderly

LEMMA HookEndsOrderly ==
  ASSUME Orderly, NEW p \in Procs, HookEnds(p)
  PROVE  Orderly'
<1>1. /\ log' = [log EXCEPT ![p] = NoLog] /\ log[p].at \in {"returned", "raised"}
      /\ UNCHANGED <<rows, lastId, open, lock, refused, asks>>
  BY DEF HookEnds
<1>2. Moves(p) /\ log'[p].at # "commit"
  BY <1>1 DEF Moves, Orderly, LedgerTyped, NoLog, Calls
<1>3. open' \in [Procs -> SUBSET Rows] /\ \A q \in Procs : Transaction(q)'
  BY <1>1, <1>2 DEF Orderly, LedgerTyped, Transaction, Written, Moves
<1> QED
  BY <1>1, <1>3, LeavesOrderly

---------------------------------------------------------------------------
(* The guard and the ledger together *)

\* p is not in its hook, before nor after.
Elsewhere(p) ==
  work'[p].at # "logging" /\ \A q \in Procs : q # p => work'[q] = work[q]

LEMMA UpdatesElsewhere ==
  ASSUME AllSound, NEW p \in Procs, NEW w, Update(p, w), w.at # "logging"
  PROVE  Elsewhere(p)
BY DEF AllSound, Update, Elsewhere

LEMMA HandsElsewhere ==
  ASSUME AllSound, NEW p \in Procs, NEW result, Hands(p, result)
  PROVE  Elsewhere(p)
<1> DEFINE w == work[p]
           next == [w EXCEPT !.at = "asking", !.todo = @ - 1, !.retry = FALSE,
                             !.conf = 0, !.result = result]
           last == [w EXCEPT !.at = "idle", !.todo = 0, !.conf = 0, !.result = result]
<1>1. next.at = "asking" /\ last.at = "idle"
  BY DEF AllSound, Sound, Works
<1> QED
  BY <1>1, UpdatesElsewhere DEF Hands

LEMMA FailsElsewhere ==
  ASSUME AllSound, NEW p \in Procs, NEW kind, Fails(p, kind)
  PROVE  Elsewhere(p)
<1> DEFINE next == [work[p] EXCEPT !.at = "idle", !.todo = 0, !.conf = 0, !.result = NoOutcome]
<1>1. next.at = "idle"
  BY DEF AllSound, Sound, Works
<1> QED
  BY <1>1, HandsElsewhere, UpdatesElsewhere DEF Fails

LEMMA SettleElsewhere ==
  ASSUME AllSound, NEW p \in Procs, NEW passed, NEW released, Settle(p, passed, released)
  PROVE  Elsewhere(p)
<1> DEFINE next == [work[p] EXCEPT !.at = "gating", !.conf = 0,
                                   !.result = Outcome(passed, released, work[p].conf)]
<1>1. next.at = "gating"
  BY DEF AllSound, Sound, Works
<1> QED
  BY <1>1, HandsElsewhere, UpdatesElsewhere DEF Settle

\* The steps of a guard that touch neither the ledger nor the hook.
Decides(p) ==
  \/ Call(p) \/ ModelFails(p) \/ Passes(p) \/ RaisePolicy(p) \/ AsksAgain(p)
  \/ FallsThrough(p) \/ LetsThrough(p) \/ ToolSkipped(p) \/ ToolAnswers(p) \/ ToolFails(p)

LEMMA DecidesElsewhere ==
  ASSUME AllSound, NEW p \in Procs, Decides(p)
  PROVE  /\ work[p].at # "logging" /\ Elsewhere(p)
         /\ UNCHANGED <<rows, lastId, open, lock, log, refused, asks>>
<1> DEFINE w == work[p]
<1>1. CASE Call(p)
  <2> PICK u \in Uses[p] :
        Update(p, [Rest EXCEPT !.at = "asking", !.policy = u[1], !.entry = u[2],
                               !.todo = IF u[2] = "batch" THEN Batch ELSE 1])
    BY <1>1 DEF Call
  <2>1. [Rest EXCEPT !.at = "asking", !.policy = u[1], !.entry = u[2],
                     !.todo = IF u[2] = "batch" THEN Batch ELSE 1].at = "asking"
    BY DEF Rest
  <2> QED
    BY <1>1, <2>1, UpdatesElsewhere DEF Call, lvars
<1>2. CASE ModelFails(p) \/ RaisePolicy(p)
  BY <1>2, FailsElsewhere DEF ModelFails, RaisePolicy, Judging, Quiet, lvars
<1>3. CASE Passes(p) \/ FallsThrough(p) \/ LetsThrough(p)
  BY <1>3, SettleElsewhere DEF Passes, FallsThrough, LetsThrough, Judging, Quiet, lvars
<1>4. CASE AsksAgain(p) \/ ToolAnswers(p)
  <2>1. /\ [w EXCEPT !.at = "asking", !.retry = TRUE, !.conf = 0].at = "asking"
        /\ [w EXCEPT !.at = "asking", !.retry = FALSE, !.tooled = TRUE].at = "asking"
    BY DEF AllSound, Sound, Works
  <2> QED
    BY <1>4, <2>1, UpdatesElsewhere
    DEF AsksAgain, ToolAnswers, Judging, Gated, Quiet, lvars
<1>5. CASE ToolSkipped(p) \/ ToolFails(p)
  BY <1>5, HandsElsewhere DEF ToolSkipped, ToolFails, Gated, Quiet, lvars
<1> QED
  BY <1>1, <1>2, <1>3, <1>4, <1>5 DEF Decides

\* A step of a log_ method moves one call, which does not end there.
LEMMA LedgerStepMoves ==
  ASSUME Orderly, NEW p \in Procs, LedgerStep(p)
  PROVE  Moves(p) /\ ~Out(p) /\ ~Out(p)'
<1>1. CASE Insert(p)
  <2>1. NextId(p) \in Nat
    <3>1. open[p] = {}
      BY <1>1 DEF Insert, Orderly, Transaction
    <3> QED
      BY <3>1, NextIdIsNew, TableTyped DEF Orderly, LedgerTyped
  <2> QED
    BY <1>1, <2>1 DEF Insert, Moves, Out, Orderly, LedgerTyped, Calls
<1>2. CASE Commit(p)
  BY <1>2 DEF Commit, Moves, Out, Orderly, LedgerTyped, Calls
<1>3. CASE Locked(p) \/ CommitBusy(p)
  BY <1>3 DEF Locked, CommitBusy, TryAgain, Raise, Moves, Out, Orderly, LedgerTyped, Calls
<1>4. CASE WakeUp(p)
  BY <1>4 DEF WakeUp, Moves, Out, Orderly, LedgerTyped, Calls
<1>5. CASE Breaks(p)
  BY <1>5 DEF Breaks, Raise, Moves, Out, Orderly, LedgerTyped, Calls
<1> QED
  BY <1>1, <1>2, <1>3, <1>4, <1>5 DEF LedgerStep

LEMMA LedgerStepOrderly ==
  ASSUME Orderly, NEW p \in Procs, LedgerStep(p), asks' = asks
  PROVE  Orderly'
BY InsertOrderly, CommitOrderly, FailsOrderly, WakeUpOrderly
DEF LedgerStep, Locked, CommitBusy, Breaks

Kept == AllSound /\ Orderly /\ Hooked

LEMMA HookedStep ==
  ASSUME Kept, NEW p \in Procs, GuardStep(p)
  PROVE  Hooked'
<1>1. CASE Decides(p)
  BY <1>1, DecidesElsewhere DEF Kept, Hooked, Elsewhere, Out
<1>2. CASE ModelAnswers(p)
  <2>1. work'[p].at = "logging" /\ \A q \in Procs : q # p => work'[q] = work[q]
    BY <1>2 DEF ModelAnswers, Update, Kept, AllSound, Sound, Works
  <2>2. log' = [log EXCEPT ![p] = [at |-> "insert", ask |-> asks + 1, step |-> 1,
                                   ref |-> 0, attempt |-> 1, id |-> 0]]
    BY <1>2 DEF ModelAnswers, StartLog
  <2> QED
    BY <2>1, <2>2 DEF Kept, Orderly, LedgerTyped, Hooked, Out
<1>3. CASE HookGoesOn(p)
  <2>1. log' = [log EXCEPT ![p] = [at |-> "insert", ask |-> log[p].ask, step |-> log[p].step + 1,
                                   ref |-> NextRef(p), attempt |-> 1, id |-> 0]]
    BY <1>3 DEF HookGoesOn, StartLog
  <2> QED
    BY <1>3, <2>1 DEF HookGoesOn, Kept, Orderly, LedgerTyped, Hooked, Out
<1>4. CASE HookEnds(p)
  <2>1. work'[p].at = "judging" /\ \A q \in Procs : q # p => work'[q] = work[q]
    BY <1>4 DEF HookEnds, Update, Kept, AllSound, Sound, Works
  <2> QED
    BY <1>4, <2>1 DEF HookEnds, Kept, Orderly, LedgerTyped, Hooked, Out, NoLog
<1>5. CASE Records(p)
  <2>1. Moves(p) /\ ~Out(p) /\ ~Out(p)' /\ work' = work
    BY <1>5, LedgerStepMoves DEF Records, Kept
  <2> QED
    BY <2>1 DEF Kept, Hooked, Moves, Out
<1>6. CASE Crash(p)
  <2>1. work'[p] = Rest /\ Rest.at = "idle" /\ \A q \in Procs : q # p => work'[q] = work[q]
    BY <1>6 DEF Crash, Update, Kept, AllSound, Rest
  <2> QED
    BY <1>6, <2>1 DEF Crash, Die, Kept, Orderly, LedgerTyped, Hooked, Out, NoLog
<1> QED
  BY <1>1, <1>2, <1>3, <1>4, <1>5, <1>6 DEF GuardStep, Decides

LEMMA OrderlyStep ==
  ASSUME Kept, NEW p \in Procs, GuardStep(p)
  PROVE  Orderly'
<1>1. CASE Decides(p)
  <2>1. UNCHANGED <<rows, lastId, open, lock, log, refused, asks>>
    BY <1>1, DecidesElsewhere DEF Kept
  <2> QED
    BY <2>1 DEF Kept, Orderly, LedgerTyped, Transaction, Written, Own, Stored, Referred,
                RowsFit, Over, Out
<1>2. CASE ModelAnswers(p)
  <2>1. work[p].at = "asking"
    BY <1>2 DEF ModelAnswers
  <2> QED
    BY <1>2, <2>1, ModelAnswersOrderly DEF Kept, Hooked
<1>3. CASE HookGoesOn(p) \/ HookEnds(p) \/ Crash(p)
  BY <1>3, HookGoesOnOrderly, HookEndsOrderly, CrashOrderly DEF Kept
<1>4. CASE Records(p)
  BY <1>4, LedgerStepOrderly DEF Records, Kept
<1> QED
  BY <1>1, <1>2, <1>3, <1>4 DEF GuardStep, Decides

LEMMA KeptAlways == Spec => []Kept
<1>1. Init => Kept
  <2>1. Init => Hooked
    BY DEF Init, GuardInit, LedgerInit, Hooked, Out, NoLog, Rest
  <2> QED
    BY <2>1, InitSound, InitOrderly DEF Kept
<1>2. Kept /\ [Next]_vars => Kept'
  <2>1. ASSUME Kept, UNCHANGED gvars
        PROVE  Kept'
    BY <2>1 DEF Kept, gvars, lvars, AllSound, Sound, Judged, HandedOut, Hooked,
                Orderly, LedgerTyped, Transaction, Written, Own, Stored, Referred,
                RowsFit, Over, Out
  <2>2. ASSUME Kept, NEW p \in Procs, GuardStep(p)
        PROVE  Kept'
    BY <2>2, GuardSound, OrderlyStep, HookedStep DEF Kept
  <2> QED
    BY <2>1, <2>2 DEF Next, Cascades, Guards, vars
<1> QED
  BY <1>1, <1>2, PTL DEF Spec

\* A write that _retry_on_transient tries again is stored once if it returned, and
\* not at all if it raised.
THEOREM WrittenOnce == Spec => []StoredOnce
BY KeptAlways, OrderlyGives, PTL DEF Kept

\* Whatever processes record at once, ledger_log_posthook files each row under one
\* row of its own answer.
THEOREM FiledRight == Spec => []FiledWhereItBelongs
BY KeptAlways, OrderlyGives, PTL DEF Kept

---------------------------------------------------------------------------
(* The cascades *)

Routers == {r \in Seq(Tier) : r # <<>>}

\* Every tier asks for as much as some tier of the router the caller configured.
Held(bar, router) == \A j \in DOMAIN router : Clears(bar, router[j].threshold)

Walking ==
  walk.at = "walking" =>
    /\ "path" \in DOMAIN walk
    /\ walk.bar \in Routers
    /\ walk.chain \in Seq(Routers)
    /\ \A i \in DOMAIN walk.chain : Held(walk.bar, walk.chain[i])
    /\ walk.i \in 1 .. Len(walk.chain)
    /\ walk.path \in Seq(Nat) /\ Len(walk.path) < Len(Here)

BarKept == Walking /\ FailoverKeepsTheBar

LEMMA ChainRouters ==
  ASSUME NEW chain \in Chains
  PROVE  chain \in Seq(Routers) /\ Len(chain) > 0 /\ chain[1] \in Routers
<1>1. chain \in Seq(Seq(Tier)) /\ chain # <<>> /\ \A i \in DOMAIN chain : chain[i] # <<>>
  BY CascadeAssumption
<1>2. \A i \in 1 .. Len(chain) : chain[i] \in Routers
  BY <1>1 DEF Routers
<1> QED
  BY <1>1, <1>2

LEMMA OwnBar == ASSUME NEW router \in Routers PROVE Held(router, router)
<1>1. ASSUME NEW j \in DOMAIN router
      PROVE  router[j].threshold >= router[j].threshold
  <2>1. router[j] \in Tier
    BY DEF Routers
  <2> QED
    BY <2>1 DEF Tier
<1> QED
  BY <1>1 DEF Held, Clears

LEMMA AcceptedHolds ==
  ASSUME NEW chain \in Chains, Accepted(chain)
  PROVE  \A i \in DOMAIN chain : Held(chain[1], chain[i])
<1>1. chain[1] \in Routers /\ DOMAIN chain = 1 .. Len(chain)
  BY ChainRouters
<1>2. Held(chain[1], chain[1])
  BY <1>1, OwnBar
<1>3. ASSUME NEW i \in DOMAIN chain, i > 1 PROVE Held(chain[1], chain[i])
  BY <1>3 DEF Accepted, AsStrict, Held
<1>4. \A i \in DOMAIN chain : i = 1 \/ i > 1
  BY <1>1
<1> QED
  BY <1>2, <1>3, <1>4

\* TierBudget.resolve always gives a range inside the router.
LEMMA ResolveInside ==
  ASSUME NEW range \in Int \X Int, NEW total \in Nat, total > 0
  PROVE  LET r == Resolve(range, total) IN
         r[1] \in 0 .. total - 1 /\ r[2] \in 0 .. total - 1 /\ r[1] <= r[2]
<1>1. \A n \in Int : Clamped(n, total) \in 0 .. total - 1
  BY DEF Clamped, FromStart
<1>2. range[1] \in Int /\ range[2] \in Int
  OBVIOUS
<1> DEFINE s == Clamped(range[1], total)
           e == Clamped(range[2], total)
<1>3. s \in 0 .. total - 1 /\ e \in 0 .. total - 1
  BY <1>1, <1>2
<1>4. Resolve(range, total) = IF s > e THEN <<e, s>> ELSE <<s, e>>
  BY DEF Resolve
<1> HIDE DEF s, e
<1> QED
  BY <1>3, <1>4

\* A slice is a router, and has no tiers but the router's.
LEMMA SliceHolds ==
  ASSUME NEW router \in Routers, NEW range \in Int \X Int
  PROVE  Slice(router, range) \in Routers /\ Held(router, Slice(router, range))
<1> DEFINE r == Resolve(range, Len(router))
           slice == SubSeq(router, r[1] + 1, r[2] + 1)
<1>1. router \in Seq(Tier) /\ Len(router) \in Nat /\ Len(router) > 0
  BY DEF Routers
<1>2. r[1] \in 0 .. Len(router) - 1 /\ r[2] \in 0 .. Len(router) - 1 /\ r[1] <= r[2]
  BY <1>1, ResolveInside
<1>3. slice = Slice(router, range)
  BY DEF Slice
<1> HIDE DEF r
<1>4. slice \in Seq(Tier) /\ Len(slice) = r[2] - r[1] + 1
      /\ \A j \in 1 .. Len(slice) : slice[j] = router[r[1] + j]
  <2>1. \A i \in r[1] + 1 .. r[2] + 1 : router[i] \in Tier
    BY <1>1, <1>2
  <2>2. /\ slice \in Seq(Tier)
        /\ Len(slice) = IF r[1] + 1 <= r[2] + 1 THEN (r[2] + 1) - (r[1] + 1) + 1 ELSE 0
        /\ \A j \in 1 .. (r[2] + 1) - (r[1] + 1) + 1 : slice[j] = router[(r[1] + 1) + j - 1]
    <3>1. r[1] + 1 \in Int /\ r[2] + 1 \in Int
      BY <1>2
    <3> QED
      BY <2>1, <3>1, SubSeqProperties
  <2> HIDE DEF slice
  <2>3. (r[2] + 1) - (r[1] + 1) + 1 = r[2] - r[1] + 1 /\ r[1] + 1 <= r[2] + 1
    BY <1>2
  <2>4. Len(slice) = r[2] - r[1] + 1
    BY <2>2, <2>3
  <2>5. ASSUME NEW j \in 1 .. Len(slice) PROVE slice[j] = router[r[1] + j]
    <3>1. slice[j] = router[(r[1] + 1) + j - 1]
      BY <2>2, <2>3, <2>4, <2>5
    <3>2. (r[1] + 1) + j - 1 = r[1] + j
      BY <1>2, <2>4
    <3> QED
      BY <3>1, <3>2
  <2> QED
    BY <2>2, <2>4, <2>5
<1> HIDE DEF slice
<1>5. slice # <<>>
  BY <1>2, <1>4
<1>6. \A j \in 1 .. Len(slice) : r[1] + j \in 1 .. Len(router)
  BY <1>1, <1>2, <1>4
<1>7. Held(router, slice)
  BY <1>1, <1>4, <1>6, OwnBar DEF Held
<1> QED
  BY <1>3, <1>4, <1>5, <1>7 DEF Routers

\* Where a walk begins, at the first router or at the next one.
LEMMA BeginsWalking ==
  ASSUME NEW bar \in Routers, NEW chain \in Seq(Routers), NEW i \in 1 .. Len(chain),
         \A k \in DOMAIN chain : Held(bar, chain[k]), walk' = Walk(bar, chain, i)
  PROVE  Walking'
<1>1. /\ walk'.bar = bar /\ walk'.chain = chain /\ walk'.i = i /\ walk'.path = <<>>
      /\ "path" \in DOMAIN walk'
  BY DEF Walk
<1>2. chain[i] \in Seq(Tier) /\ chain[i] # <<>>
  BY DEF Routers
<1>3. Len(<<>>) < Len(chain[i]) /\ <<>> \in Seq(Nat)
  BY <1>2
<1> QED
  BY <1>1, <1>3 DEF Walking, Here

LEMMA CascadeKeepsBar ==
  ASSUME BarKept, CascadeNext
  PROVE  BarKept'
<1> USE CascadeAssumption
<1> DEFINE k == Len(walk.path) + 1
<1>1. CASE AskChain
  <2> PICK chain \in Chains : Accepted(chain) /\ walk' = Walk(chain[1], chain, 1)
    BY <1>1 DEF AskChain
  <2>1. Walking'
    BY ChainRouters, AcceptedHolds, BeginsWalking
  <2> QED
    BY <1>1, <2>1 DEF AskChain, NotRouted, BarKept, FailoverKeepsTheBar, Abstain
<1>2. CASE AskScoped
  <2> PICK chain \in Chains, range \in Ranges :
        walk' = Walk(chain[1], <<Slice(chain[1], range)>>, 1)
    BY <1>2 DEF AskScoped
  <2> DEFINE slice == Slice(chain[1], range)
  <2>1. chain[1] \in Routers /\ range \in Int \X Int
    BY ChainRouters
  <2>2. slice \in Routers /\ Held(chain[1], slice)
    BY <2>1, SliceHolds
  <2> HIDE DEF slice
  <2>3. <<slice>> \in Seq(Routers) /\ 1 \in 1 .. Len(<<slice>>)
        /\ \A i \in DOMAIN <<slice>> : Held(chain[1], <<slice>>[i])
    BY <2>2
  <2>4. walk' = Walk(chain[1], <<slice>>, 1)
    BY DEF slice
  <2>5. Walking'
    BY <2>1, <2>3, <2>4, BeginsWalking
  <2> QED
    BY <1>2, <2>5 DEF AskScoped, NotRouted, BarKept, FailoverKeepsTheBar, Abstain
<1>3. CASE TierAnswers
  <2> PICK c \in Levels : TierPasses(c) \/ TierDeclines(c) \/ NoTierClears(c)
    BY <1>3 DEF TierAnswers
  <2>1. /\ walk.at = "walking" /\ walk.bar \in Routers /\ Here \in Routers
        /\ Held(walk.bar, Here) /\ walk.path \in Seq(Nat) /\ Len(walk.path) < Len(Here)
        /\ c \in Nat
    <3>1. walk.at = "walking" /\ walk.bar \in Routers /\ walk.chain \in Seq(Routers)
          /\ walk.i \in 1 .. Len(walk.chain) /\ c \in Nat
          /\ walk.path \in Seq(Nat) /\ Len(walk.path) < Len(Here)
          /\ \A i \in DOMAIN walk.chain : Held(walk.bar, walk.chain[i])
      BY <1>3 DEF TierAnswers, BarKept, Walking
    <3>2. walk.i \in DOMAIN walk.chain /\ walk.chain[walk.i] \in Routers
      BY <3>1
    <3> QED
      BY <3>1, <3>2 DEF Here
  <2>2. CASE TierPasses(c)
    <3>1. k \in DOMAIN Here /\ Here[k] \in Tier
      BY <2>1 DEF Routers
    <3>2. c >= Here[k].threshold /\ walk' = NoWalk
          /\ routed'.bar = walk.bar /\ routed'.conf = c
      BY <2>2 DEF TierPasses, Next1, Result
    <3>3. PICK j \in DOMAIN walk.bar : Here[k].threshold >= walk.bar[j].threshold
      BY <2>1, <3>1 DEF Held, Clears
    <3>4. walk.bar[j] \in Tier
      BY <2>1, <3>3 DEF Routers
    <3>5. c >= walk.bar[j].threshold
      BY <2>1, <3>1, <3>2, <3>3, <3>4 DEF Tier
    <3> QED
      BY <3>2, <3>5 DEF BarKept, Walking, NoWalk, FailoverKeepsTheBar, Clears
  <2>3. CASE TierDeclines(c)
    <3>1. /\ k < Len(Here) /\ routed' = routed
          /\ walk' = [walk EXCEPT !.path = Append(@, c), !.best = Best(c),
                                  !.cost = @ + Next1.cost]
      BY <2>3 DEF TierDeclines
    <3>2. /\ walk'.bar = walk.bar /\ walk'.chain = walk.chain /\ walk'.i = walk.i
      BY <3>1
    <3>3. "path" \in DOMAIN walk
      BY <1>3 DEF TierAnswers, BarKept, Walking
    <3>4. walk'.path = Append(walk.path, c) /\ "path" \in DOMAIN walk'
      BY <3>1, <3>3
    <3>5. walk'.path \in Seq(Nat) /\ Len(walk'.path) = k
      BY <2>1, <3>4
    <3>6. Here' = Here
      BY <3>2 DEF Here
    <3>7. walk.chain \in Seq(Routers) /\ walk.i \in 1 .. Len(walk.chain)
          /\ \A i \in DOMAIN walk.chain : Held(walk.bar, walk.chain[i])
      BY <1>3 DEF TierAnswers, BarKept, Walking
    <3>8. Walking'
      BY <2>1, <3>1, <3>2, <3>4, <3>5, <3>6, <3>7 DEF Walking
    <3>9. FailoverKeepsTheBar'
      BY <3>1 DEF BarKept, FailoverKeepsTheBar
    <3> QED
      BY <3>8, <3>9 DEF BarKept
  <2>4. CASE NoTierClears(c)
    BY <2>4 DEF NoTierClears, Result, BarKept, Walking, NoWalk, FailoverKeepsTheBar, Abstain
  <2> QED
    BY <2>2, <2>3, <2>4
<1>4. CASE FailOver
  <2>1. /\ walk.at = "walking" /\ walk.i < Len(walk.chain) /\ routed' = routed
        /\ walk' = Walk(walk.bar, walk.chain, walk.i + 1)
    BY <1>4 DEF FailOver
  <2>2. /\ walk.bar \in Routers /\ walk.chain \in Seq(Routers)
        /\ \A i \in DOMAIN walk.chain : Held(walk.bar, walk.chain[i])
        /\ walk.i + 1 \in 1 .. Len(walk.chain)
    BY <2>1 DEF BarKept, Walking
  <2>3. Walking'
    BY <2>1, <2>2, BeginsWalking
  <2> QED
    BY <2>1, <2>3 DEF BarKept, FailoverKeepsTheBar
<1>5. CASE GiveUp
  BY <1>5 DEF GiveUp, NoWalk, NotRouted, BarKept, Walking, FailoverKeepsTheBar, Abstain
<1> QED
  BY <1>1, <1>2, <1>3, <1>4, <1>5 DEF CascadeNext

\* An answer of a FailoverChain, or of a slice of the tiers, that is no abstention
\* clears a threshold of the router that was asked for.
THEOREM BarIsKept == Spec => []FailoverKeepsTheBar
<1>1. Init => BarKept
  BY DEF Init, CascadeInit, NoWalk, NotRouted, BarKept, Walking, FailoverKeepsTheBar, Abstain
<1>2. BarKept /\ [Next]_vars => BarKept'
  <2>1. ASSUME BarKept, UNCHANGED cvars
        PROVE  BarKept'
    BY <2>1 DEF cvars, BarKept, Walking, Here, FailoverKeepsTheBar
  <2> QED
    BY <2>1, CascadeKeepsBar DEF Next, Cascades, Guards, vars
<1>3. BarKept => FailoverKeepsTheBar
  BY DEF BarKept
<1> QED
  BY <1>1, <1>2, <1>3, PTL DEF Spec

---------------------------------------------------------------------------
(* What a cascade comes to. *)

\* A set of numbers has a least one.
LEMMA LeastNat ==
  ASSUME NEW T \in SUBSET Nat, T # {}
  PROVE  \E n \in T : \A m \in T : n <= m
<1> DEFINE R == OpToRel(<, Nat)
<1>1. IsWellFoundedOn(R, Nat)
  BY NatLessThanWellFounded
<1>2. \A x, y \in Nat : y < x => <<y, x>> \in R
  BY DEF OpToRel
<1> HIDE DEF R
<1>3. \E x \in T : \A y \in T : ~(<<y, x>> \in R)
  BY <1>1, WFMin
<1>4. PICK n \in T : \A m \in T : ~(<<m, n>> \in R)
  BY <1>3
<1>5. \A m \in T : n \in Nat /\ m \in Nat /\ ~(m < n)
  BY <1>2, <1>4
<1>6. \A m \in T : n <= m
  BY <1>5
<1> QED BY <1>6

\* The costs of the first n tiers, summed up.
Sums(tiers, g, n) == g = [k \in 0..n |-> IF k = 0 THEN 0 ELSE g[k - 1] + tiers[k].cost]

LEMMA CostOfSums ==
  ASSUME NEW tiers, NEW n
  PROVE  CostOf(tiers, n) = (CHOOSE g : Sums(tiers, g, n))[n]
BY DEF CostOf, Sums

LEMMA SumsExist ==
  ASSUME NEW tiers
  PROVE  \A n \in Nat : \E g : Sums(tiers, g, n)
<1> DEFINE T == {n \in Nat : ~(\E g : Sums(tiers, g, n))}
<1> SUFFICES ASSUME T # {} PROVE FALSE
  OBVIOUS
<1>1. PICK n \in T : \A m \in T : n <= m
  BY LeastNat
<1>2. n # 0
  <2> SUFFICES ASSUME n = 0 PROVE FALSE
    OBVIOUS
  <2>1. PICK g : g = [k \in 0..0 |-> 0]
    OBVIOUS
  <2>2. Sums(tiers, g, 0)
    BY <2>1 DEF Sums
  <2> QED BY <1>1, <2>2
<1>3. n - 1 \in Nat /\ n \in Nat /\ n - 1 \notin T
  BY <1>1, <1>2
<1>4. PICK g : Sums(tiers, g, n - 1)
  BY <1>3
<1>5. PICK c : c = g[n - 1] + tiers[n].cost
  OBVIOUS
<1>6. PICK h : h = [k \in 0..n |-> IF k = n THEN c ELSE g[k]]
  OBVIOUS
<1>7. \A k \in 0..n : h[k] = IF k = 0 THEN 0 ELSE h[k - 1] + tiers[k].cost
  <2> TAKE k \in 0..n
  <2>1. CASE k = n
    <3>1. h[n] = c /\ h[n - 1] = g[n - 1]
      BY <1>3, <1>6
    <3> QED BY <1>2, <1>5, <2>1, <3>1
  <2>2. CASE k # n
    <3>1. k \in 0..(n - 1) /\ h[k] = g[k]
      BY <1>3, <1>6, <2>2
    <3>2. g[k] = IF k = 0 THEN 0 ELSE g[k - 1] + tiers[k].cost
      BY <1>4, <3>1 DEF Sums
    <3>3. k # 0 => h[k - 1] = g[k - 1]
      BY <1>3, <1>6, <3>1
    <3> QED BY <3>1, <3>2, <3>3
  <2> QED BY <2>1, <2>2
<1>8. Sums(tiers, h, n)
  BY <1>6, <1>7 DEF Sums
<1> QED BY <1>1, <1>8

LEMMA SumsAgree ==
  ASSUME NEW tiers, NEW n \in Nat, NEW m \in Nat, n <= m,
         NEW g, Sums(tiers, g, n), NEW h, Sums(tiers, h, m)
  PROVE  \A k \in 0..n : g[k] = h[k]
<1> DEFINE T == {k \in 0..n : g[k] # h[k]}
<1> SUFFICES ASSUME T # {} PROVE FALSE
  OBVIOUS
<1>1. PICK k \in T : \A j \in T : k <= j
  <2>1. T \in SUBSET Nat
    OBVIOUS
  <2> QED BY <2>1, LeastNat
<1>2. k \in 0..n /\ k \in 0..m /\ g[k] # h[k]
  BY <1>1
<1>3. g[k] = IF k = 0 THEN 0 ELSE g[k - 1] + tiers[k].cost
  BY <1>2 DEF Sums
<1>4. h[k] = IF k = 0 THEN 0 ELSE h[k - 1] + tiers[k].cost
  BY <1>2 DEF Sums
<1>5. k # 0 => g[k - 1] = h[k - 1]
  <2> SUFFICES ASSUME k # 0 PROVE g[k - 1] = h[k - 1]
    OBVIOUS
  <2>1. k - 1 \in 0..n /\ ~(k <= k - 1)
    BY <1>2
  <2>2. k - 1 \notin T
    BY <1>1, <2>1
  <2> QED BY <2>1, <2>2
<1> QED BY <1>2, <1>3, <1>4, <1>5

\* One tier more costs what it costs.
LEMMA CostOfNext ==
  ASSUME NEW tiers, NEW n \in Nat
  PROVE  /\ CostOf(tiers, 0) = 0
         /\ CostOf(tiers, n + 1) = CostOf(tiers, n) + tiers[n + 1].cost
<1>1. PICK g : g = CHOOSE f : Sums(tiers, f, n)
  OBVIOUS
<1>2. PICK h : h = CHOOSE f : Sums(tiers, f, n + 1)
  OBVIOUS
<1>3. PICK z : z = CHOOSE f : Sums(tiers, f, 0)
  OBVIOUS
<1>4. Sums(tiers, g, n)
  BY <1>1, SumsExist
<1>5. Sums(tiers, h, n + 1)
  <2>1. n + 1 \in Nat
    OBVIOUS
  <2> QED BY <1>2, <2>1, SumsExist
<1>6. Sums(tiers, z, 0)
  BY <1>3, SumsExist
<1>7. z[0] = 0
  <2>1. 0 \in 0..0
    OBVIOUS
  <2> QED BY <1>6, <2>1 DEF Sums
<1>8. h[n + 1] = h[n] + tiers[n + 1].cost
  <2>1. n + 1 \in 0..(n + 1) /\ n + 1 # 0 /\ (n + 1) - 1 = n
    OBVIOUS
  <2>2. h[n + 1] = IF n + 1 = 0 THEN 0 ELSE h[(n + 1) - 1] + tiers[n + 1].cost
    BY <1>5, <2>1 DEF Sums
  <2> QED BY <2>1, <2>2
<1>9. g[n] = h[n]
  <2>1. n + 1 \in Nat /\ n <= n + 1 /\ n \in 0..n
    OBVIOUS
  <2> QED BY <1>4, <1>5, <2>1, SumsAgree
<1>10. CostOf(tiers, 0) = z[0] /\ CostOf(tiers, n) = g[n] /\ CostOf(tiers, n + 1) = h[n + 1]
  BY <1>1, <1>2, <1>3, CostOfSums
<1> QED BY <1>7, <1>8, <1>9, <1>10

\* A walk has met n confidences, all too low, and knows the highest of them and
\* what it has spent.
Met(w, tiers, n) ==
  /\ w.cost = CostOf(tiers, n)
  /\ \A j \in 1..n : w.path[j] < tiers[j].threshold
  /\ n > 0 => /\ \E j \in 1..n : w.best = w.path[j]
              /\ \A j \in 1..n : w.best >= w.path[j]
WalkMet ==
  walk.at = "walking" =>
    {"best", "cost"} \subseteq DOMAIN walk /\ Met(walk, Here, Len(walk.path))

\* What one more tier makes of it.
Meets(w, tiers, n, c, path, best) ==
  /\ path \in Seq(Nat) /\ Len(path) = n + 1 /\ path[n + 1] = c
  /\ w.cost + tiers[n + 1].cost = CostOf(tiers, n + 1)
  /\ \A j \in 1..n : path[j] < tiers[j].threshold
  /\ \E j \in 1..(n + 1) : best = path[j]
  /\ \A j \in 1..(n + 1) : best >= path[j]

LEMMA MeetsOne ==
  ASSUME NEW w, NEW tiers \in Routers, w.path \in Seq(Nat), NEW n \in Nat,
         n = Len(w.path), n < Len(tiers), Met(w, tiers, n), NEW c \in Nat,
         NEW path, path = Append(w.path, c),
         NEW best, best = IF w.path = <<>> \/ c > w.best THEN c ELSE w.best
  PROVE  Meets(w, tiers, n, c, path, best)
<1>1. /\ path \in Seq(Nat) /\ Len(path) = n + 1 /\ path[n + 1] = c
      /\ \A j \in 1..n : path[j] = w.path[j] /\ w.path[j] \in Nat
  BY AppendProperties, ElementOfSeq
<1>2. w.cost + tiers[n + 1].cost = CostOf(tiers, n + 1)
  BY CostOfNext DEF Met
<1>3. \A j \in 1..n : path[j] < tiers[j].threshold
  BY <1>1 DEF Met
<1>4. /\ n + 1 \in 1..(n + 1) /\ \A j \in 1..n : j \in 1..(n + 1)
      /\ \A j \in 1..(n + 1) : j # n + 1 => j \in 1..n
  OBVIOUS
<1>5. n = 0 <=> w.path = <<>>
  BY EmptySeq
<1>6. CASE n = 0
  <2>1. best = c
    BY <1>5, <1>6
  <2> QED BY <1>1, <1>2, <1>3, <1>4, <1>6, <2>1 DEF Meets
<1>7. CASE n # 0
  <2>1. PICK i \in 1..n : w.best = w.path[i]
    BY <1>7 DEF Met
  <2>2. \A j \in 1..n : w.best >= w.path[j]
    BY <1>7 DEF Met
  <2>3. PICK b \in Nat : b = w.best
    BY <1>1, <2>1
  <2>4. best = IF c > b THEN c ELSE b
    <3>1. w.path # <<>>
      BY <1>5, <1>7
    <3> QED BY <2>3, <3>1
  <2>5. \E j \in 1..(n + 1) : best = path[j]
    BY <1>1, <1>4, <2>1, <2>3, <2>4
  <2>6. ASSUME NEW j \in 1..(n + 1) PROVE best >= path[j]
    <3>1. CASE j = n + 1
      BY <1>1, <2>3, <2>4, <3>1
    <3>2. CASE j # n + 1
      <4>1. PICK d \in Nat : d = path[j] /\ b >= d
        BY <1>1, <1>4, <2>2, <2>3, <3>2
      <4>2. CASE c > b
        <5>1. c >= d
          BY <4>1, <4>2
        <5> QED BY <2>4, <4>1, <4>2, <5>1
      <4>3. CASE ~(c > b)
        BY <2>4, <4>1, <4>3
      <4> QED BY <4>2, <4>3
    <3> QED BY <3>1, <3>2
  <2> QED BY <1>1, <1>2, <1>3, <2>5, <2>6 DEF Meets
<1> QED BY <1>6, <1>7

\* The property, of any result.
Reference(r, n) ==
  /\ r.cost = CostOf(r.tiers, n)
  /\ \A j \in 1..(n - 1) : r.path[j] < r.tiers[j].threshold
  /\ IF r.path[n] < r.tiers[n].threshold
     THEN /\ r.tier = Abstain /\ n = Len(r.tiers)
          /\ \E j \in 1..n : r.conf = r.path[j]
          /\ \A j \in 1..n : r.conf >= r.path[j]
     ELSE r.tier = n /\ r.conf = r.path[n]

LEMMA ReferenceFacts ==
  RouteIsReference <=> (routed.tier # -1 => Reference(routed, Len(routed.path)))
BY DEF RouteIsReference, Reference

RouteKept == BarKept /\ WalkMet /\ RouteIsReference

\* A walk begins with nothing met.
LEMMA BeginsMet ==
  ASSUME NEW bar, NEW chain, NEW i, walk' = Walk(bar, chain, i)
  PROVE  WalkMet'
<1>1. PICK w : w = walk'
  OBVIOUS
<1>2. /\ {"best", "cost"} \subseteq DOMAIN w /\ w.path = <<>> /\ w.cost = 0
  BY <1>1 DEF Walk
<1>3. PICK tiers : tiers = w.chain[w.i]
  OBVIOUS
<1>4. Len(w.path) = 0 /\ w.cost = CostOf(tiers, 0)
  <2>1. CostOf(tiers, 0) = 0
    BY CostOfNext
  <2> QED BY <1>2, <2>1
<1>5. Met(w, tiers, 0)
  BY <1>4 DEF Met
<1> QED BY <1>1, <1>2, <1>3, <1>4, <1>5 DEF WalkMet, Here

LEMMA CascadeKeepsRoute ==
  ASSUME RouteKept, CascadeNext
  PROVE  WalkMet' /\ RouteIsReference'
<1> DEFINE n == Len(walk.path)
<1>1. routed' = NotRouted => RouteIsReference'
  BY DEF NotRouted, RouteIsReference
<1>2. routed' = routed => RouteIsReference'
  BY DEF RouteKept, RouteIsReference
<1>3. walk' = NoWalk => WalkMet'
  BY DEF NoWalk, WalkMet
<1>4. CASE AskChain
  BY <1>1, <1>4, BeginsMet DEF AskChain
<1>5. CASE AskScoped
  BY <1>1, <1>5, BeginsMet DEF AskScoped
<1>6. CASE FailOver
  BY <1>2, <1>6, BeginsMet DEF FailOver
<1>7. CASE GiveUp
  BY <1>1, <1>3, <1>7 DEF GiveUp
<1>8. CASE TierAnswers
  <2>1. PICK c \in Levels : TierPasses(c) \/ TierDeclines(c) \/ NoTierClears(c)
    BY <1>8 DEF TierAnswers
  <2>2. PICK tiers : tiers = Here
    OBVIOUS
  <2>3. PICK m : m = n
    OBVIOUS
  <2>4. /\ walk.at = "walking" /\ "path" \in DOMAIN walk /\ {"best", "cost"} \subseteq DOMAIN walk
        /\ tiers \in Routers /\ walk.path \in Seq(Nat) /\ m < Len(tiers) /\ c \in Nat
        /\ Met(walk, tiers, m) /\ m \in Nat /\ tiers = walk.chain[walk.i]
    <3>1. walk.at = "walking" /\ "path" \in DOMAIN walk /\ walk.chain \in Seq(Routers)
          /\ walk.i \in 1 .. Len(walk.chain) /\ c \in Nat
          /\ walk.path \in Seq(Nat) /\ Len(walk.path) < Len(Here)
      BY <1>8, CascadeAssumption DEF TierAnswers, RouteKept, BarKept, Walking
    <3>2. {"best", "cost"} \subseteq DOMAIN walk /\ Met(walk, Here, Len(walk.path))
      BY <3>1 DEF RouteKept, WalkMet
    <3>3. walk.chain[walk.i] \in Routers
      BY <3>1, ElementOfSeq
    <3>4. m \in Nat /\ m = Len(walk.path)
      BY <2>3, <3>1, LenProperties
    <3>5. tiers = walk.chain[walk.i]
      BY <2>2 DEF Here
    <3> QED BY <2>2, <3>1, <3>2, <3>3, <3>4, <3>5
  <2>5. PICK path : path = Append(walk.path, c)
    OBVIOUS
  <2>6. PICK best : best = Best(c)
    OBVIOUS
  <2>7. /\ path \in Seq(Nat) /\ Len(path) = m + 1 /\ path[m + 1] = c
        /\ walk.cost + tiers[m + 1].cost = CostOf(tiers, m + 1)
        /\ \A j \in 1..m : path[j] < tiers[j].threshold
        /\ \E j \in 1..(m + 1) : best = path[j]
        /\ \A j \in 1..(m + 1) : best >= path[j]
    <3>1. best = IF walk.path = <<>> \/ c > walk.best THEN c ELSE walk.best
      BY <2>6 DEF Best
    <3>2. m = Len(walk.path)
      BY <2>3
    <3>3. Meets(walk, tiers, m, c, path, best)
      BY <2>4, <2>5, <3>1, <3>2, MeetsOne
    <3> QED BY <3>3 DEF Meets
  <2>8. Next1 = tiers[m + 1] /\ (m + 1) - 1 = m
    BY <2>2, <2>3, <2>4 DEF Next1
  <2>9. PICK r : r = routed'
    OBVIOUS
  <2>10. CASE TierPasses(c)
    <3>1. /\ r.cost = walk.cost + tiers[m + 1].cost /\ r.path = path /\ r.tiers = tiers
          /\ r.conf = c /\ r.tier = m + 1 /\ c >= tiers[m + 1].threshold /\ walk' = NoWalk
      BY <2>2, <2>3, <2>5, <2>8, <2>9, <2>10 DEF TierPasses, Result
    <3>2. tiers[m + 1] \in Tier
      BY <2>4 DEF Routers
    <3>3. ~(c < tiers[m + 1].threshold)
      BY <2>4, <3>1, <3>2 DEF Tier
    <3>4. Reference(r, m + 1)
      BY <2>7, <2>8, <3>1, <3>3 DEF Reference
    <3>5. Reference(r, Len(r.path))
      BY <2>7, <3>1, <3>4
    <3> QED BY <1>3, <2>9, <3>1, <3>5, ReferenceFacts DEF RouteIsReference, Reference
  <2>11. CASE NoTierClears(c)
    <3>1. /\ r.cost = walk.cost + tiers[m + 1].cost /\ r.path = path /\ r.tiers = tiers
          /\ r.conf = best /\ r.tier = Abstain /\ c < tiers[m + 1].threshold
          /\ m + 1 = Len(tiers) /\ walk' = NoWalk
      BY <2>2, <2>3, <2>5, <2>6, <2>8, <2>9, <2>11 DEF NoTierClears, Result
    <3>2. Reference(r, m + 1)
      BY <2>7, <2>8, <3>1 DEF Reference
    <3>3. Reference(r, Len(r.path))
      BY <2>7, <3>1, <3>2
    <3> QED BY <1>3, <2>9, <3>1, <3>3, ReferenceFacts DEF RouteIsReference, Reference
  <2>12. CASE TierDeclines(c)
    <3>1. /\ c < tiers[m + 1].threshold /\ routed' = routed
          /\ walk' = [walk EXCEPT !.path = path, !.best = best,
                                  !.cost = walk.cost + tiers[m + 1].cost]
      BY <2>2, <2>3, <2>5, <2>6, <2>8, <2>12 DEF TierDeclines
    <3>2. PICK w : w = walk'
      OBVIOUS
    <3>3. /\ w.path = path /\ w.best = best /\ w.cost = walk.cost + tiers[m + 1].cost
          /\ w.chain = walk.chain /\ w.i = walk.i /\ {"best", "cost"} \subseteq DOMAIN w
      BY <2>4, <3>1, <3>2
    <3>4. \A j \in 1..(m + 1) : j = m + 1 \/ j \in 1..m
      BY <2>4
    <3>5. Met(w, tiers, m + 1)
      BY <2>7, <3>1, <3>3, <3>4 DEF Met
    <3>6. tiers = w.chain[w.i] /\ Len(w.path) = m + 1
      BY <2>4, <2>7, <3>3
    <3>7. WalkMet'
      BY <3>2, <3>3, <3>5, <3>6 DEF WalkMet, Here
    <3> QED BY <1>2, <3>1, <3>7
  <2> QED BY <2>1, <2>10, <2>11, <2>12
<1> QED BY <1>4, <1>5, <1>6, <1>7, <1>8 DEF CascadeNext

\* What a walk comes to is what its confidences say: the first tier that clears
\* its own threshold or an abstention with the highest of them, at the cost of
\* the tiers this router asked (router.py), for any tiers, slices and failovers.
THEOREM RoutesAsReferred == Spec => []RouteIsReference
<1>1. Init => RouteKept
  BY DEF Init, CascadeInit, NoWalk, NotRouted, RouteKept, BarKept, Walking,
     FailoverKeepsTheBar, Abstain, WalkMet, RouteIsReference
<1>2. RouteKept /\ [Next]_vars => RouteKept'
  <2>1. ASSUME RouteKept, UNCHANGED cvars
        PROVE  RouteKept'
    <3>1. BarKept'
      BY <2>1 DEF cvars, RouteKept, BarKept, Walking, Here, FailoverKeepsTheBar
    <3>2. WalkMet' /\ RouteIsReference'
      BY <2>1 DEF cvars, RouteKept, WalkMet, Met, Here, RouteIsReference
    <3> QED BY <3>1, <3>2 DEF RouteKept
  <2>2. ASSUME RouteKept, CascadeNext PROVE RouteKept'
    BY <2>2, CascadeKeepsBar, CascadeKeepsRoute DEF RouteKept
  <2> QED
    BY <2>1, <2>2 DEF Next, Cascades, Guards, vars
<1>3. RouteKept => RouteIsReference
  BY DEF RouteKept
<1> QED
  BY <1>1, <1>2, <1>3, PTL DEF Spec
=============================================================================
