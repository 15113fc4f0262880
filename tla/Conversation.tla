---------------------------- MODULE Conversation ----------------------------
(***************************************************************************)
(* One customer turn through lub/connectors/bridge/orchestrator.py, over   *)
(* the session manager of session.py with either of its stores, and the    *)
(* audit trail DecisionTrail.                                              *)
(*                                                                         *)
(* Threads handle messages, resolve sessions or sweep idle ones.  A step   *)
(* is a thread's work up to the next access to a store, the trail or the   *)
(* metrics: the manager's get and put take the store's lock one by one.    *)
(* The platform's dispatch is its outcome: which verdict, if any, and      *)
(* whether it escalates.  What the customer is told and what is recorded   *)
(* are taken from it apart, as in the code.  An idle session is any open   *)
(* one: the sweep's clock is not modelled.                                 *)
(***************************************************************************)
EXTENDS DecisionTrail, FiniteSets

CONSTANTS
  Threads, Sessions,
  NoSession, NoJob,
  MaxTurns,        \* bound: customer turns
  MaxResolutions   \* bound: sessions resolved or swept

\* What a session holds: its log, of turns by either side, and its flags.
Said     == {"customer", "reply"} \X Nat
Session  == [id : Nat, log : Seq(Said), resolved : BOOLEAN, escalated : BOOLEAN]

\* What a dispatch comes to: a guard's verdict, an "error" or a "cached" answer
\* without a verdict, or a raise.  "flag" stands for abstain and escalate too.
Verdicts == {"passthrough", "flag", "reask"}
Outcomes == Verdicts \cup {"error", "cached", "raise"}

Jobs ==
  [kind : {"message", "resolve", "sweep"}, sid : Sessions, turn : Nat,
   outcome : Outcomes \cup {"none"}, held : Session \cup {NoSession}]

ASSUME ConversationAssumption ==
  /\ MaxTurns \in Nat /\ MaxResolutions \in Nat /\ MaxFaults \in Nat
  /\ NoSession \notin Session

VARIABLES
  backend,    \* the store: InMemorySessionStore or SQLiteSessionStore
  store,      \* what it holds
  at, job,    \* where each thread is, and with what
  counted,    \* turns the metrics have recorded
  answered,   \* history: what customers were told
  turns, closings

vars == <<tvars, backend, store, at, job, counted, answered, turns, closings>>

\* A new session; the turn that opens it stands for its random id.
Fresh(n) == [id |-> n, log |-> <<>>, resolved |-> FALSE, escalated |-> FALSE]
Closed(session) == session.resolved \/ session.escalated

Init ==
  /\ TrailInit
  /\ backend \in {"memory", "sqlite"}
  /\ store = [s \in Sessions |-> NoSession]
  /\ at = [t \in Threads |-> "idle"] /\ job = [t \in Threads |-> NoJob]
  /\ counted = {} /\ answered = {}
  /\ turns = 0 /\ closings = 0

---------------------------------------------------------------------------

Goto(t, here, there) == at[t] = here /\ at' = [at EXCEPT ![t] = there]
Set(t, field, value) == job' = [job EXCEPT ![t] = [@ EXCEPT ![field] = value]]

Done(t) == at' = [at EXCEPT ![t] = "idle"] /\ job' = [job EXCEPT ![t] = NoJob]

Job(kind, s, turn) ==
  [kind |-> kind, sid |-> s, turn |-> turn, outcome |-> "none", held |-> NoSession]

\* Mutant: the store in memory hands out copies.
HeldCopy(t) == job[t].held

\* The session a thread has got: a copy from SQLite, the stored object itself
\* from memory.
Held(t) == IF backend = "memory" THEN store[job[t].sid] ELSE job[t].held
Put(t, session) == store' = [store EXCEPT ![job[t].sid] = session]

\* _resolve_or_open_session and _reject_if_closed: an unknown session is opened,
\* a closed one is ConversationClosedError.
Receive(t, s) ==
  /\ turns < MaxTurns /\ turns' = turns + 1
  /\ store[s] # NoSession => ~Closed(store[s])
  /\ Goto(t, "idle", "customer")
  /\ job' = [job EXCEPT ![t] = Job("message", s, turns + 1)]
  /\ store' = [store EXCEPT ![s] = IF @ = NoSession THEN Fresh(turns + 1) ELSE @]
  /\ UNCHANGED <<tvars, backend, counted, answered, closings>>

\* SessionManager.append, its get: a closed session is a ValueError, which
\* handle_message lets through.
Load(t) ==
  /\ at[t] \in {"customer", "reply"}
  /\ LET session == store[job[t].sid] IN
       IF Closed(session) THEN Done(t)
       ELSE /\ at' = [at EXCEPT ![t] = IF @ = "customer" THEN "put customer" ELSE "put reply"]
            /\ Set(t, "held", session)
  /\ UNCHANGED <<tvars, backend, store, counted, answered, turns, closings>>

WithTurn(t, who) == [Held(t) EXCEPT !.log = Append(@, <<who, job[t].turn>>)]

\* ... and its put.
StoreTurn(t, who, here, there) ==
  /\ Goto(t, here, there)
  /\ Put(t, WithTurn(t, who))
  /\ Set(t, "held", NoSession)
  /\ UNCHANGED <<tvars, backend, counted, answered, turns, closings>>

StoreCustomer(t) == StoreTurn(t, "customer", "put customer", "dispatch")
\* Whether the platform hands the turn to a human.
Escalated(outcome) == outcome \notin {"passthrough", "cached"}

StoreReply(t) ==
  StoreTurn(t, "reply", "put reply",
            IF Escalated(job[t].outcome) THEN "flag" ELSE "audit")

\* query_with_confidence returns a result, or raises.
Dispatch(t) ==
  /\ Goto(t, "dispatch", "reply")
  /\ \E outcome \in Outcomes : Set(t, "outcome", outcome)
  /\ UNCHANGED <<tvars, backend, store, counted, answered, turns, closings>>

\* resolve and escalate: get, and put with the flag set.
LoadFlag(t) ==
  /\ Goto(t, "flag", "put flag")
  /\ Set(t, "held", store[job[t].sid])
  /\ UNCHANGED <<tvars, backend, store, counted, answered, turns, closings>>

StoreFlag(t) ==
  /\ at[t] = "put flag"
  /\ IF job[t].kind = "resolve"
     THEN Put(t, [Held(t) EXCEPT !.resolved = TRUE])
     ELSE Put(t, [Held(t) EXCEPT !.escalated = TRUE])
  /\ IF job[t].kind = "message"
     THEN at' = [at EXCEPT ![t] = "audit"] /\ Set(t, "held", NoSession)
     ELSE Done(t)
  /\ UNCHANGED <<tvars, backend, counted, answered, turns, closings>>

\* _audit_decision_for, what the customer is told; a raise is told as an
\* escalation.
Decision(outcome) ==
  IF Escalated(outcome) THEN "escalate"
  ELSE IF outcome \in Verdicts THEN outcome ELSE "unknown"

\* _decision_label, what is recorded: the verdict goes before the escalation.  An
\* AuditEntry takes a label of AuditDecisions only.
Label(outcome) ==
  IF outcome \in Verdicts THEN outcome
  ELSE IF Escalated(outcome) THEN "escalate" ELSE "unknown"
AuditDecisions == {"passthrough", "flag", "escalate", "unknown"}

\* Mutant: the entry does not say that the turn was escalated.
EntryPlain(t) ==
  [turn |-> job[t].turn, decision |-> Label(job[t].outcome), escalated |-> FALSE]

Entry(t) ==
  [turn |-> job[t].turn, decision |-> Label(job[t].outcome),
   escalated |-> Escalated(job[t].outcome)]
Valid(entry) == entry.decision \in AuditDecisions

Tell(t) ==
  answered' = answered \cup
    {[turn |-> job[t].turn, session |-> store[job[t].sid].id,
      decision |-> Decision(job[t].outcome), escalated |-> Escalated(job[t].outcome)]}

\* _write_audit, and the audit write of _finalise_dispatch_failure, which
\* answers without recording metrics.
Audit(t) ==
  /\ at[t] = "audit" /\ Valid(Entry(t))
  /\ Log(Entry(t))
  /\ IF job[t].outcome = "raise"
     THEN Tell(t) /\ Done(t)
     ELSE Goto(t, "audit", "metrics") /\ UNCHANGED <<answered, job>>
  /\ UNCHANGED <<backend, store, counted, turns, closings>>

\* The verdict of a reask that passed makes no entry: a ValueError, which
\* _write_audit lets through.  No entry, no answer.
AuditInvalid(t) ==
  /\ at[t] = "audit" /\ ~Valid(Entry(t))
  /\ Done(t)
  /\ UNCHANGED <<tvars, backend, store, counted, answered, turns, closings>>

\* Mutant: a failed audit write is logged and passed over.
AuditFailsOpen(t) ==
  /\ Goto(t, "audit", "metrics") /\ Valid(Entry(t))
  /\ LogFails(Entry(t))
  /\ UNCHANGED <<backend, store, job, counted, answered, turns, closings>>

\* OrchestratorAuditError: no answer.
AuditFails(t) ==
  /\ at[t] = "audit" /\ Valid(Entry(t))
  /\ LogFails(Entry(t))
  /\ Done(t)
  /\ UNCHANGED <<backend, store, counted, answered, turns, closings>>

\* _record_metrics, which never raises, and the result.
Count(t) ==
  /\ at[t] = "metrics"
  /\ counted' \in {counted, counted \cup {job[t].turn}}
  /\ Tell(t) /\ Done(t)
  /\ UNCHANGED <<tvars, backend, store, turns, closings>>

\* resolve from a channel, and expire_idle over a snapshot of open sessions.
Close(t, s, kind) ==
  /\ closings < MaxResolutions /\ closings' = closings + 1
  /\ store[s] # NoSession
  /\ kind = "sweep" => ~Closed(store[s])
  /\ Goto(t, "idle", "flag")
  /\ job' = [job EXCEPT ![t] = Job(kind, s, 0)]
  /\ UNCHANGED <<tvars, backend, store, counted, answered, turns>>

\* The process dies and starts again: the metrics and the sessions in memory are
\* gone.
Restart ==
  /\ Reopen
  /\ at' = [t \in Threads |-> "idle"] /\ job' = [t \in Threads |-> NoJob]
  /\ counted' = {}
  /\ store' = IF backend = "memory" THEN [s \in Sessions |-> NoSession] ELSE store
  /\ UNCHANGED <<backend, answered, turns, closings>>

Next ==
  \/ \E t \in Threads, s \in Sessions :
       Receive(t, s) \/ Close(t, s, "resolve") \/ Close(t, s, "sweep")
  \/ \E t \in Threads :
       \/ Load(t) \/ StoreCustomer(t) \/ Dispatch(t) \/ StoreReply(t)
       \/ LoadFlag(t) \/ StoreFlag(t)
       \/ Audit(t) \/ AuditInvalid(t) \/ AuditFails(t) \/ Count(t)
  \/ Restart

Spec == Init /\ [][Next]_vars

---------------------------------------------------------------------------

\* Audit-first, also across restarts and failed writes of other turns: for what a
\* customer was told there is an entry that says whether the turn was escalated.
\* One that was not is recorded under the very decision told.  One that was is
\* told as "escalate" and may be recorded under the guard's verdict, but never
\* as an answer that passed.
AnswersHaveEvidence ==
  \A a \in answered : \E d \in AuditDecisions :
    /\ OnDisk([turn |-> a.turn, decision |-> d, escalated |-> a.escalated])
    /\ IF a.escalated THEN d \notin {"passthrough", "unknown"} ELSE d = a.decision

\* Metrics-after: no query is in the KPIs that is not in the audit trail.
KpisTrailEvidence ==
  \A n \in counted : \E i \in DOMAIN entries : entries[i].turn = n

\* A session is the unit of replay: no turn is in it twice, in either store, and
\* the one in memory holds an answered turn's message and then its reply.
TurnsInLog ==
  \A s \in Sessions : store[s] # NoSession =>
    LET log == store[s].log IN
      /\ Cardinality(Range(log)) = Len(log)
      /\ backend = "memory" => \A a \in answered : a.session = store[s].id =>
           (\E i, j \in DOMAIN log :
              i < j /\ log[i] = <<"customer", a.turn>> /\ log[j] = <<"reply", a.turn>>)

\* Who was told of an escalation has an escalated session.
EscalatedIsClosed ==
  \A a \in answered, s \in Sessions :
    a.escalated /\ store[s] # NoSession /\ store[s].id = a.session => store[s].escalated

\* In memory a session that is closed stays closed: no put takes back a flag that
\* another thread has set, while messages, resolutions and sweeps cross; and who
\* is told of an escalation has a session closed by it.
ClosuresStick ==
  [][backend = "memory" =>
       /\ EscalatedIsClosed'
       /\ \A s \in Sessions : store[s] # NoSession /\ store'[s] # NoSession =>
            /\ store[s].resolved => store'[s].resolved
            /\ store[s].escalated => store'[s].escalated]_vars
=============================================================================
