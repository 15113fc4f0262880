-------------------------- MODULE UncertaintyGuard --------------------------
(***************************************************************************)
(* The uncertainty guard, src/lub/guard.py, over a pipeline whose answers  *)
(* a post-hook records in the ledger, src/lub/orchestration/hooks.py.      *)
(*                                                                         *)
(* A process calls its guard directly, through gated_tool_call or in a     *)
(* batch.  The guard holds the confidence of an answer against its         *)
(* threshold and, below it, does what its on_fail policy says.  A          *)
(* confidence is one of a few levels; prompts and answers are left out.    *)
(***************************************************************************)
EXTENDS UncertaintyLedger

CONSTANTS
  Top,         \* confidences are 0..Top
  Threshold,   \* of the guard
  Gate,        \* uncertainty_threshold of gated_tool_call
  Uses,        \* process -> the guards it calls, as <<on_fail, how it calls them>>
  Batch,       \* the length of a batch
  Scores,      \* how many scores an answer has, its confidence included
  MaxCalls     \* bound: calls each process makes of its guards

\* "noreask" is REASK with max_reask_retries = 0.
Policies == {"abstain", "flag", "raise", "passthrough", "reask", "noreask", "escalate"}
Entries == {"call", "tool", "batch"}

ASSUME GuardAssumption ==
  /\ Top \in Nat /\ Threshold \in 0..Top /\ Gate \in 0..Top
  /\ Uses \in [Procs -> SUBSET (Policies \X Entries)]
  /\ Batch \in Nat \ {0} /\ Scores \in Nat \ {0} /\ MaxCalls \in Nat

VARIABLES
  work,    \* process -> the guarded call it is in, and the last result it handed out
  asks,    \* answers a pipeline has given
  calls

gvars == <<lvars, work, asks, calls>>

Confidences == 0..Top
Outcome(passed, released, conf) == [passed |-> passed, released |-> released, conf |-> conf]
NoOutcome == Outcome(FALSE, FALSE, 0)
Abstained(conf) == Outcome(FALSE, FALSE, conf)
Rest ==
  [at |-> "idle", entry |-> "call", policy |-> "abstain", todo |-> 0, retry |-> FALSE,
   tooled |-> FALSE, conf |-> 0, result |-> NoOutcome]

GuardInit ==
  /\ LedgerInit
  /\ work = [p \in Procs |-> Rest]
  /\ asks = 0 /\ calls = [p \in Procs |-> 0]

Update(p, w) == work' = [work EXCEPT ![p] = w]
Quiet == UNCHANGED <<lvars, asks, calls>>

---------------------------------------------------------------------------

Call(p) ==
  /\ work[p].at = "idle"
  /\ calls[p] < MaxCalls /\ calls' = [calls EXCEPT ![p] = @ + 1]
  /\ \E u \in Uses[p] :
       Update(p, [Rest EXCEPT !.at = "asking", !.policy = u[1], !.entry = u[2],
                              !.todo = IF u[2] = "batch" THEN Batch ELSE 1])
  /\ UNCHANGED <<lvars, asks>>

\* The pipeline answers, and its post-hook begins to record the answer.
ModelAnswers(p) ==
  /\ work[p].at = "asking"
  /\ \E c \in Confidences :
       Update(p, [work[p] EXCEPT !.at = "logging", !.conf = c, !.result = NoOutcome])
  /\ asks' = asks + 1
  /\ StartLog(p, asks + 1, 1, 0)
  /\ UNCHANGED <<rows, lastId, open, lock, refused, faults, calls>>

\* Mutant: the scores are filed under the id of the query.
UnderTheQuery(p) == IF log[p].step = 1 THEN log[p].id ELSE log[p].ref

\* The answer is filed under the query's id, the scores under the answer's.
NextRef(p) == IF log[p].step <= 2 THEN log[p].id ELSE log[p].ref

LastStep == 2 + Scores

HookGoesOn(p) ==
  /\ work[p].at = "logging" /\ log[p].at = "returned"
  /\ log[p].step < LastStep
  /\ StartLog(p, log[p].ask, log[p].step + 1, NextRef(p))
  /\ UNCHANGED <<rows, lastId, open, lock, refused, faults, work, asks, calls>>

\* The hook is through, or has raised, which _safe_fire keeps to itself.
HookEnds(p) ==
  /\ work[p].at = "logging"
  /\ \/ log[p].at = "returned" /\ log[p].step = LastStep
     \/ log[p].at = "raised"
  /\ log' = [log EXCEPT ![p] = NoLog]
  /\ Update(p, [work[p] EXCEPT !.at = "judging"])
  /\ UNCHANGED <<rows, lastId, open, lock, refused, faults, asks, calls>>

\* The call, or this prompt of the batch, has its result.
Hands(p, result) ==
  IF work[p].todo > 1
  THEN Update(p, [work[p] EXCEPT !.at = "asking", !.todo = @ - 1, !.retry = FALSE,
                                 !.conf = 0, !.result = result])
  ELSE Update(p, [work[p] EXCEPT !.at = "idle", !.todo = 0, !.conf = 0, !.result = result])

\* What __call__ returns: to the caller, or to gated_tool_call.
Settle(p, passed, released) ==
  LET result == Outcome(passed, released, work[p].conf) IN
  IF work[p].entry = "tool" /\ ~work[p].tooled
  THEN Update(p, [work[p] EXCEPT !.at = "gating", !.conf = 0, !.result = result])
  ELSE Hands(p, result)

\* batch turns a RuntimeError into an abstention; other callers see it.
Fails(p, kind) ==
  IF work[p].entry = "batch" /\ kind = "RuntimeError"
  THEN Hands(p, Abstained(0))
  ELSE Update(p, [work[p] EXCEPT !.at = "idle", !.todo = 0, !.conf = 0, !.result = NoOutcome])

ModelFails(p) ==
  /\ work[p].at = "asking"
  /\ \E kind \in {"RuntimeError", "other"} : Fails(p, kind)
  /\ Quiet

Judging(p)    == work[p].at = "judging" /\ Quiet
SureEnough(p) == work[p].conf >= Threshold
First(p, policies) == ~work[p].retry /\ work[p].policy \in policies

Passes(p) ==
  /\ Judging(p) /\ SureEnough(p)
  /\ Settle(p, TRUE, TRUE)

RaisePolicy(p) ==
  /\ Judging(p) /\ ~SureEnough(p) /\ First(p, {"raise"})
  /\ Fails(p, "RuntimeError")

\* _handle_reask and _handle_escalate: one more answer, of the same pipeline or
\* of the stronger one.
AsksAgain(p) ==
  /\ Judging(p) /\ ~SureEnough(p) /\ First(p, {"reask", "escalate"})
  /\ Update(p, [work[p] EXCEPT !.at = "asking", !.retry = TRUE, !.conf = 0])

FallsThrough(p) ==
  /\ Judging(p) /\ ~SureEnough(p)
  /\ work[p].retry \/ First(p, {"abstain", "noreask"})
  /\ Settle(p, FALSE, FALSE)

\* FLAG, and PASSTHROUGH as a policy: the answer goes out as it is.
LetsThrough(p) ==
  /\ Judging(p) /\ ~SureEnough(p) /\ First(p, {"flag", "passthrough"})
  /\ Settle(p, FALSE, TRUE)

\* gated_tool_call, with the first pass's result in hand.
Gated(p) == work[p].at = "gating" /\ work[p].result.conf < Gate /\ Quiet

ToolSkipped(p) ==
  /\ work[p].at = "gating" /\ work[p].result.conf >= Gate
  /\ Hands(p, work[p].result)
  /\ Quiet

ToolAnswers(p) ==
  /\ Gated(p)
  /\ Update(p, [work[p] EXCEPT !.at = "asking", !.retry = FALSE, !.tooled = TRUE])

\* Mutant: the first pass's result stands when the tool has failed.
FirstPassStands(p) == Gated(p) /\ Hands(p, work[p].result)

ToolFails(p) == Gated(p) /\ Hands(p, Abstained(work[p].result.conf))

Records(p) == LedgerStep(p) /\ UNCHANGED <<work, asks, calls>>

Crash(p) ==
  /\ work[p].at # "idle"
  /\ Die(p) /\ Update(p, Rest)
  /\ UNCHANGED <<asks, calls>>

GuardStep(p) ==
  \/ Call(p) \/ ModelAnswers(p) \/ ModelFails(p)
  \/ HookGoesOn(p) \/ HookEnds(p) \/ Records(p)
  \/ Passes(p) \/ RaisePolicy(p) \/ AsksAgain(p) \/ FallsThrough(p) \/ LetsThrough(p)
  \/ ToolSkipped(p) \/ ToolAnswers(p) \/ ToolFails(p)
  \/ Crash(p)

---------------------------------------------------------------------------

\* What a process has in hand when its call, or a prompt of its batch, is over.
HandedOut(w) == w.result.released /\ (w.at = "idle" \/ w.entry = "batch")

\* No way through the guard, a second answer, a tool that failed or a batch that
\* swallowed an error, hands out an answer that is below the threshold, unless
\* the policy is to let it through; and a gated call hands out no answer that was
\* below the gate and had no help of the tool.
AnswersAreEarned ==
  \A p \in Procs :
    LET w == work[p] IN
    HandedOut(w) =>
      /\ w.result.conf >= Threshold \/ w.policy \in {"flag", "passthrough"}
      /\ w.entry = "tool" => w.tooled \/ w.result.conf >= Gate
      /\ w.result.passed <=> w.result.conf >= Threshold

\* Two processes that record at once never file a score under the answer of the
\* other, nor an answer under its query, whatever was tried again in between: the
\* id a row is filed under is that of one row, which records the same answer.
Parents(r) ==
  {q \in rows : q.table = (IF r.step = 2 THEN "queries" ELSE "answers") /\ q.id = r.ref}
FiledWhereItBelongs ==
  \A r \in rows : r.step > 1 =>
    Parents(r) # {} /\ \A q \in Parents(r) : q.ask = r.ask
=============================================================================
