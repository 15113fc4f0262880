----------------------------- MODULE TokenBucket -----------------------------
(***************************************************************************)
(* The per-customer rate limiter: lub/connectors/bridge/rate_limiter.py,   *)
(* one bucket per (customer, channel).                                     *)
(*                                                                         *)
(* Every call reads the clock first and takes the lock after, so calls     *)
(* reach a bucket out of the order of their readings.  Tokens are counted  *)
(* in fractions: a request costs Cost of them, Rate of them come back in a *)
(* unit of time.  The counters behind stats() are left out.                *)
(***************************************************************************)
EXTENDS Pool

CONSTANTS
  Buckets,            \* keys: (customer, channel)
  NoBucket, NoTime,
  Rate, Cost, Burst,  \* requests_per_minute, 60, burst_size
  IdleTTL             \* idle_ttl_seconds

Capacity == Cost * Burst

ASSUME BucketAssumption ==
  /\ Rate \in Nat \ {0} /\ Cost \in Nat \ {0} /\ Burst \in Nat \ {0}
  /\ IdleTTL \in Nat /\ MaxClock \in Nat
  /\ NoTime \notin Nat
  /\ NoBucket \notin [tokens : Nat, at : Nat]

VARIABLES
  reading,   \* the time a call read before it waits for the lock
  bucket,    \* _buckets
  \* history, per bucket:
  allowed,   \* requests admitted
  seen,      \* the reading it was last filled or pruned at
  lost,      \* time by which its readings have run backwards
  promise    \* when the last wait() said a token would be there

bvars == <<clock, reading, bucket, allowed, seen, lost, promise>>

BucketInit ==
  /\ clock = 0
  /\ reading = [t \in Threads |-> NoTime]
  /\ bucket = [b \in Buckets |-> NoBucket]
  /\ allowed = [b \in Buckets |-> 0]
  /\ seen = [b \in Buckets |-> 0]
  /\ lost = [b \in Buckets |-> 0]
  /\ promise = [b \in Buckets |-> NoTime]

---------------------------------------------------------------------------

\* The clock is read; the lock is not yet held.
ReadClock(t) ==
  /\ reading[t] = NoTime
  /\ reading' = [reading EXCEPT ![t] = clock]
  /\ UNCHANGED <<clock, bucket, allowed, seen, lost, promise>>

Elapsed(bk, now) == AtLeast(0, now - bk.at)
Filled(bk, now) == AtMost(Capacity, bk.tokens + Elapsed(bk, now) * Rate)

\* The bucket of a key at a reading, a full one if it has none.
TokensAt(b, now) == IF bucket[b] = NoBucket THEN Capacity ELSE Filled(bucket[b], now)

\* Every use sets last_refill, be the reading older than the last one or not.
Use(b, now, tokens) ==
  /\ bucket' = [bucket EXCEPT ![b] = [tokens |-> tokens, at |-> now]]
  /\ seen' = [seen EXCEPT ![b] = now]
  /\ lost' = [lost EXCEPT ![b] = @ + AtLeast(0, seen[b] - now)]

Done(t) == reading' = [reading EXCEPT ![t] = NoTime]

Permits(b, now) == TokensAt(b, now) >= Cost

\* allow: refill, then spend a token if there is one.
Admit(t, b) ==
  LET now == reading[t] IN
  /\ now # NoTime
  /\ Permits(b, now)
  /\ Use(b, now, TokensAt(b, now) - Cost)
  /\ allowed' = [allowed EXCEPT ![b] = @ + 1]
  /\ promise' = [promise EXCEPT ![b] = NoTime]
  /\ Done(t)
  /\ UNCHANGED clock

Reject(t, b) ==
  LET now == reading[t] IN
  /\ now # NoTime
  /\ ~Permits(b, now)
  /\ Use(b, now, TokensAt(b, now))
  /\ Done(t)
  /\ UNCHANGED <<clock, allowed, promise>>

\* Mutant: the deficit is divided as integers.
ShortDelay(tokens) == IF tokens >= Cost THEN 0 ELSE (Cost - tokens) \div Rate

\* seconds_until_token, in whole units of time
Delay(tokens) == IF tokens >= Cost THEN 0 ELSE (Cost - tokens + Rate - 1) \div Rate

\* wait: refills too, and says when to come back.
Wait(t, b) ==
  LET now == reading[t] IN
  /\ now # NoTime
  /\ IF bucket[b] = NoBucket
       THEN /\ promise' = [promise EXCEPT ![b] = now]
            /\ UNCHANGED <<bucket, seen, lost>>
       ELSE /\ Use(b, now, TokensAt(b, now))
            /\ promise' = [promise EXCEPT ![b] = now + Delay(TokensAt(b, now))]
  /\ Done(t)
  /\ UNCHANGED <<clock, allowed>>

\* Mutant: idle buckets are reaped, full or not.
StaleEvenIfSpent(b, now) ==
  bucket[b] # NoBucket /\ Elapsed(bucket[b], now) >= IdleTTL

\* _stale_keys
Stale(b, now) ==
  /\ bucket[b] # NoBucket
  /\ Filled(bucket[b], now) >= Capacity
  /\ Elapsed(bucket[b], now) >= IdleTTL

\* prune deletes from the map it is walking: the walk breaks off with an error
\* after the first stale bucket it reaches, whichever that is.
Prune(t) ==
  LET now == reading[t] IN
  /\ now # NoTime
  /\ IF \E b \in Buckets : Stale(b, now)
       THEN \E b \in Buckets :
              /\ Stale(b, now)
              /\ bucket' = [bucket EXCEPT ![b] = NoBucket]
              /\ seen' = [seen EXCEPT ![b] = now]
              /\ lost' = [lost EXCEPT ![b] = @ + AtLeast(0, seen[b] - now)]
       ELSE UNCHANGED <<bucket, seen, lost>>
  /\ Done(t)
  /\ UNCHANGED <<clock, allowed, promise>>

\* reset, for tests: the history starts over as well.
Reset ==
  /\ bucket' = [b \in Buckets |-> NoBucket]
  /\ allowed' = [b \in Buckets |-> 0]
  /\ seen' = [b \in Buckets |-> 0]
  /\ lost' = [b \in Buckets |-> 0]
  /\ promise' = [b \in Buckets |-> NoTime]
  /\ UNCHANGED <<clock, reading>>

BucketTick ==
  /\ ClockTicks
  /\ UNCHANGED <<reading, bucket, allowed, seen, lost, promise>>

BucketNext ==
  \/ \E t \in Threads :
       \/ ReadClock(t)
       \/ \E b \in Buckets : Admit(t, b) \/ Reject(t, b) \/ Wait(t, b)
       \/ Prune(t)
  \/ Reset
  \/ BucketTick

BucketSpec == BucketInit /\ [][BucketNext]_bvars

---------------------------------------------------------------------------

BucketTypeOK ==
  /\ clock \in Nat
  /\ reading \in [Threads -> Nat \cup {NoTime}]
  /\ bucket \in [Buckets -> [tokens : 0..Capacity, at : Nat] \cup {NoBucket}]
  /\ allowed \in [Buckets -> Nat]
  /\ seen \in [Buckets -> Nat]
  /\ lost \in [Buckets -> Nat]
  /\ promise \in [Buckets -> Nat \cup {NoTime}]

\* "bursts up to burst_size are permitted, while the long-run rate is capped":
\* no key is admitted more often than the burst and what came back since the
\* start pay for.  A reading that is older than the last one moves last_refill
\* back, so the envelope stretches by the time the readings of a key ran
\* backwards, and by no more; pruning, waiting and refilling give nothing away.
EnvelopeUpToLostTime ==
  \A b \in Buckets : Cost * allowed[b] <= Capacity + Rate * (clock + lost[b])

\* Coming back when wait() said, with no other request on the key in between,
\* is enough to be admitted.
WaitIsEnough ==
  \A b \in Buckets :
    promise[b] # NoTime => TokensAt(b, promise[b]) >= Cost
=============================================================================
