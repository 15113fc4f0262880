---------------------------- MODULE ModelBackend ----------------------------
(***************************************************************************)
(* The model server behind the bridge console: OllamaBackend.respond with  *)
(* its circuit breaker and its queue, bridge-ui/backend/backends.py.       *)
(*                                                                         *)
(* Pool threads call one model server that answers one call at a time.     *)
(* The breaker is consulted before the queue; a failing call reports to it *)
(* after it gave up the semaphore.  What is answered is left out.          *)
(***************************************************************************)
EXTENDS Pool

CONSTANTS
  Threshold,   \* _OLLAMA_BREAKER_THRESHOLD
  Window,      \* _OLLAMA_BREAKER_WINDOW_S
  Cooldown,    \* _OLLAMA_BREAKER_COOLDOWN_S
  NoThread

ASSUME BackendAssumption ==
  /\ IsFiniteSet(Threads) /\ NoThread \notin Threads
  /\ Threshold \in Nat \ {0} /\ Window \in Nat /\ Cooldown \in Nat

VARIABLES
  failures,   \* _OLLAMA_FAILURES: readings of the clock
  openUntil,  \* _OLLAMA_BREAKER_OPEN_UNTIL
  holder,     \* of _OLLAMA_SEMAPHORE
  depth,      \* _OLLAMA_QUEUE_DEPTH
  at,         \* where each thread is in respond
  failedAt,   \* the reading a failing call reports
  \* history
  opened,     \* how often the breaker opened
  reported,   \* failures reported to it
  asked       \* opened, when a thread last found the breaker closed

mvars == <<failures, openUntil, holder, depth, at, failedAt, opened, reported, asked>>

BackendInit ==
  /\ failures = <<>>
  /\ openUntil = 0
  /\ holder = NoThread
  /\ depth = 0
  /\ at = [t \in Threads |-> "out"]
  /\ failedAt = [t \in Threads |-> 0]
  /\ opened = 0 /\ reported = 0
  /\ asked = [t \in Threads |-> 0]

Move(t, here, there) == at[t] = here /\ at' = [at EXCEPT ![t] = there]

---------------------------------------------------------------------------

\* _ollama_breaker_open
BreakerOpen == clock < openUntil

\* An open breaker answers without a call.
Canned(t) ==
  /\ at[t] = "out" /\ BreakerOpen
  /\ UNCHANGED mvars

\* Mutant: the breaker is not looked at.
ConsultAnyway(t) ==
  /\ Move(t, "out", "enter")
  /\ asked' = [asked EXCEPT ![t] = opened]
  /\ UNCHANGED <<failures, openUntil, holder, depth, failedAt, opened, reported>>

Consult(t) ==
  /\ Move(t, "out", "enter")
  /\ ~BreakerOpen
  /\ asked' = [asked EXCEPT ![t] = opened]
  /\ UNCHANGED <<failures, openUntil, holder, depth, failedAt, opened, reported>>

\* _ollama_queue_enter
QueueEnter(t) ==
  /\ Move(t, "enter", "waiting")
  /\ depth' = depth + 1
  /\ UNCHANGED <<failures, openUntil, holder, failedAt, opened, reported, asked>>

Acquire(t) ==
  /\ Move(t, "waiting", "calling")
  /\ holder = NoThread
  /\ holder' = t
  /\ UNCHANGED <<failures, openUntil, depth, failedAt, opened, reported, asked>>

\* The call ends; the semaphore is given up before anything else is done.
Succeed(t) ==
  /\ Move(t, "calling", "leaving")
  /\ holder' = NoThread
  /\ UNCHANGED <<failures, openUntil, depth, failedAt, opened, reported, asked>>

\* Mutant: a failing call leaves with the semaphore.
FailHolding(t) ==
  /\ Move(t, "calling", "failed")
  /\ UNCHANGED <<failures, openUntil, holder, depth, failedAt, opened, reported, asked>>

\* Mutant: a failing call does not count itself out of the queue.
FailUncounted(t) ==
  /\ Move(t, "calling", "out")
  /\ holder' = NoThread
  /\ UNCHANGED <<failures, openUntil, depth, failedAt, opened, reported, asked>>

\* A refused connection, a timeout, an unreadable answer.
Fail(t) ==
  /\ Move(t, "calling", "failed")
  /\ holder' = NoThread
  /\ UNCHANGED <<failures, openUntil, depth, failedAt, opened, reported, asked>>

\* _ollama_record_failure reads the clock before it takes its lock.
ReadFailureClock(t) ==
  /\ Move(t, "failed", "recording")
  /\ failedAt' = [failedAt EXCEPT ![t] = clock]
  /\ UNCHANGED <<failures, openUntil, holder, depth, opened, reported, asked>>

LastFailures(now) ==
  Append(IF Len(failures) >= Threshold THEN Tail(failures) ELSE failures, now)

Trips(now) ==
  /\ Len(LastFailures(now)) >= Threshold
  /\ now - Head(LastFailures(now)) <= Window

TripUntil(now) == now + Cooldown

\* Mutant: the failures that opened the breaker are kept.
KeptFailures(now) == LastFailures(now)

\* A breaker that opens forgets the failures it opened for.
FailuresAfter(now) == IF Trips(now) THEN <<>> ELSE LastFailures(now)

RecordFailure(t) ==
  LET now == failedAt[t] IN
  /\ Move(t, "recording", "leaving")
  /\ failures' = FailuresAfter(now)
  /\ openUntil' = IF Trips(now) THEN TripUntil(now) ELSE openUntil
  /\ opened' = IF Trips(now) THEN opened + 1 ELSE opened
  /\ reported' = reported + 1
  /\ UNCHANGED <<holder, depth, failedAt, asked>>

\* _ollama_queue_exit
QueueExit(t) ==
  /\ Move(t, "leaving", "out")
  /\ depth' = AtLeast(0, depth - 1)
  /\ UNCHANGED <<failures, openUntil, holder, failedAt, opened, reported, asked>>

Inside(t) ==
  \/ QueueEnter(t) \/ Acquire(t) \/ Succeed(t) \/ Fail(t)
  \/ ReadFailureClock(t) \/ RecordFailure(t)

---------------------------------------------------------------------------

\* The queue depth the 429 guard and the console read counts exactly the
\* threads between entering and leaving, whatever way their call ended.
DepthCounts ==
  depth = Cardinality({t \in Threads :
            at[t] \in {"waiting", "calling", "failed", "recording", "leaving"}})

\* While the breaker is open the model is called only by threads that found it
\* closed before it opened: those the outage caught in the queue.
CallsInOutageAreOld ==
  \A t \in Threads : at[t] = "calling" /\ BreakerOpen => asked[t] < opened

\* Each opening of the breaker is paid for by failures of its own.
OpeningsArePaidFor == Threshold * opened <= reported
=============================================================================
