------------------------------ MODULE Admission ------------------------------
(***************************************************************************)
(* The way of a query to the model, bridge-ui/backend/server.py: the check *)
(* of the model's queue, the rate limiter, the model behind its breaker.   *)
(* Composes TokenBucket and ModelBackend; QueryPipeline is what the        *)
(* handler does around it.                                                 *)
(***************************************************************************)
EXTENDS TokenBucket, ModelBackend

CONSTANTS
  MaxQueue,     \* _OLLAMA_MAX_QUEUE
  MaxQueries    \* bound: queries

VARIABLES
  stage,     \* where each thread is: idle, at the limiter, at the model
  queries

avars == <<bvars, mvars, stage, queries>>

ASSUME AdmissionAssumption == MaxQueue \in Nat \ {0} /\ MaxQueries \in Nat

AdmissionInit ==
  /\ BucketInit /\ BackendInit
  /\ stage = [t \in Threads |-> "idle"]
  /\ queries = 0

Enter(t, here, there) == stage[t] = here /\ stage' = [stage EXCEPT ![t] = there]

\* _ollama_queue_depth() >= _OLLAMA_MAX_QUEUE answers 429
RoomInQueue == depth < MaxQueue

\* A query that finds the queue short enough goes on to the limiter.
Arrive(t) ==
  /\ Enter(t, "idle", "limiter")
  /\ RoomInQueue
  /\ queries < MaxQueries
  /\ queries' = queries + 1
  /\ ReadClock(t)
  /\ UNCHANGED mvars

Pass(t) ==
  /\ Enter(t, "limiter", "model")
  /\ \E b \in Buckets : Admit(t, b)
  /\ UNCHANGED <<mvars, queries>>

Refused(t) ==
  /\ Enter(t, "limiter", "idle")
  /\ \E b \in Buckets : Reject(t, b)
  /\ UNCHANGED <<mvars, queries>>

Spared(t) ==
  /\ Enter(t, "model", "idle")
  /\ Canned(t)
  /\ UNCHANGED <<clock, bvars, queries>>

Ask(t) ==
  /\ Enter(t, "model", "asking")
  /\ Consult(t)
  /\ UNCHANGED <<clock, bvars, queries>>

Wade(t) ==
  /\ stage[t] = "asking"
  /\ Inside(t)
  /\ UNCHANGED <<clock, bvars, stage, queries>>

Answer(t) ==
  /\ Enter(t, "asking", "idle")
  /\ QueueExit(t)
  /\ UNCHANGED <<clock, bvars, queries>>

\* wait() and prune() of the limiter, called from elsewhere: their reading and
\* their locked part are one step.
Janitor ==
  /\ \E t \in Threads :
       /\ stage[t] = "idle" /\ reading[t] # NoTime
       /\ Prune(t) \/ \E b \in Buckets : Wait(t, b)
  /\ UNCHANGED <<mvars, stage, queries>>

JanitorLooks ==
  /\ \E t \in Threads : stage[t] = "idle" /\ ReadClock(t)
  /\ UNCHANGED <<mvars, stage, queries>>

Passes == BucketTick /\ UNCHANGED <<mvars, stage, queries>>

Advance(t) ==
  Pass(t) \/ Refused(t) \/ Spared(t) \/ Ask(t) \/ Wade(t) \/ Answer(t)

AdmissionNext ==
  \/ \E t \in Threads : Arrive(t) \/ Advance(t)
  \/ Janitor \/ JanitorLooks
  \/ Passes

AdmissionSpec == AdmissionInit /\ [][AdmissionNext]_avars

\* The pool runs its threads, and a call to the model ends by its timeout.
FairAdmission == AdmissionSpec /\ \A t \in Threads : WF_avars(Advance(t))

---------------------------------------------------------------------------

\* Every query that gets past the queue check is answered: no failure of the
\* model leaves the semaphore taken, and the breaker lets go.
EveryQueryAnswered ==
  \A t \in Threads : stage[t] # "idle" ~> stage[t] = "idle"
=============================================================================
