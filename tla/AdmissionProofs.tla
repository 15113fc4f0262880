---------------------------- MODULE AdmissionProofs ----------------------------
(***************************************************************************)
(* Theorems about Admission and what it composes, for any threads, for     *)
(* every rate, cost, burst and idle time of the limiter, every order in    *)
(* which readings of the clock reach a bucket, every threshold, window and *)
(* cooldown of the breaker and every way the calls to the model end.       *)
(***************************************************************************)
EXTENDS Admission, FiniteSetTheorems, SequenceTheorems, TLAPS

(* The limiter *)

\* Products with an unknown factor, the one thing the solver needs told.
LEMMA Spread ==
  ASSUME NEW k \in Nat, NEW x \in Int, NEW y \in Int
  PROVE  k * (x + y) = k * x + k * y
OBVIOUS

LEMMA Grows ==
  ASSUME NEW k \in Nat, NEW x \in Int, NEW y \in Int, x <= y
  PROVE  k * x <= k * y
OBVIOUS

LEMMA WholeProduct ==
  ASSUME NEW k \in Nat, NEW x \in Int
  PROVE  k * x \in Int /\ (x >= 0 => k * x \in Nat)
OBVIOUS

LEMMA DelaySuffices ==
  ASSUME NEW tokens \in 0..Capacity
  PROVE  Delay(tokens) \in Nat /\ tokens + Delay(tokens) * Rate >= Cost
<1>1. CASE tokens >= Cost
  BY <1>1, BucketAssumption DEF Delay, Capacity
<1>2. CASE ~(tokens >= Cost)
  <2> DEFINE short == Cost - tokens + Rate - 1
             q == short \div Rate
  <2>1. Cost \in Nat /\ Rate \in Nat \ {0} /\ tokens \in Nat
    BY BucketAssumption DEF Capacity
  <2>2. short \in Nat 
    BY <2>1, <1>2
  <2>3. q \in Nat /\ short < q * Rate + Rate
    <3> HIDE DEF short
    <3> QED BY <2>1, <2>2
  <2> QED BY <2>1, <2>2, <2>3, <1>2 DEF Delay
<1> QED BY <1>1, <1>2

\* A full bucket pays for a request at least.
LEMMA FullPays == Capacity \in Nat /\ Cost <= Capacity
BY Grows, WholeProduct, BucketAssumption DEF Capacity

---------------------------------------------------------------------------
\* The envelope as an invariant.  What a key was admitted and what its bucket
\* still holds is paid for by the burst and by what came back up to the last
\* reading; time lost to readings that run backwards is paid on top, because a
\* bucket set back refills over the same time twice.

Level(b) == IF bucket[b] = NoBucket THEN Capacity ELSE bucket[b].tokens

Paid(b) ==
  /\ seen[b] <= clock
  /\ bucket[b] # NoBucket => bucket[b].at = seen[b]
  /\ Cost * allowed[b] + Level(b) <= Capacity + Rate * (seen[b] + lost[b])

ReadingsArePast == \A t \in Threads : reading[t] # NoTime => reading[t] <= clock

Typed == BucketTypeOK /\ ReadingsArePast

IInv == Typed /\ \A b \in Buckets : Paid(b)

\* What is known of one bucket, typed.
LEMMA BucketFacts ==
  ASSUME BucketTypeOK, NEW b \in Buckets
  PROVE  /\ clock \in Nat /\ allowed[b] \in Nat /\ seen[b] \in Nat /\ lost[b] \in Nat
         /\ bucket[b] # NoBucket => bucket[b] \in [tokens : 0..Capacity, at : Nat]
         /\ \A n \in 0..Capacity, m \in Nat : [tokens |-> n, at |-> m] # NoBucket
<1>1. ASSUME NEW n \in 0..Capacity, NEW m \in Nat
      PROVE  [tokens |-> n, at |-> m] # NoBucket
  <2>1. n \in Nat
    BY FullPays
  <2>2. [tokens |-> n, at |-> m] \in [tokens : Nat, at : Nat]
    BY <2>1
  <2> QED BY <2>2, BucketAssumption
<1> QED BY <1>1 DEF BucketTypeOK

\* Refilling gives no more than the time since the last reading pays for.
LEMMA Refill ==
  ASSUME BucketTypeOK, NEW b \in Buckets, NEW now \in Nat
  PROVE  TokensAt(b, now) \in 0..Capacity
<1>1. CASE bucket[b] = NoBucket
  BY <1>1, FullPays DEF TokensAt
<1>2. CASE bucket[b] # NoBucket
  <2> DEFINE back == Elapsed(bucket[b], now) * Rate
  <2>1. /\ bucket[b].tokens \in 0..Capacity /\ bucket[b].at \in Nat
        /\ Elapsed(bucket[b], now) \in Nat
    BY <1>2, BucketFacts DEF Elapsed, AtLeast
  <2>2. back \in Nat
    BY <2>1, BucketAssumption
  <2> HIDE DEF back
  <2>3. AtMost(Capacity, bucket[b].tokens + back) \in 0..Capacity
    BY <2>1, <2>2, FullPays DEF AtMost
  <2> QED BY <1>2, <2>3 DEF TokensAt, Filled, back
<1> QED BY <1>1, <1>2

LEMMA RefillIsPaid ==
  ASSUME BucketTypeOK, NEW b \in Buckets, NEW now \in Nat, Paid(b)
  PROVE  Cost * allowed[b] + TokensAt(b, now)
           <= Capacity + Rate * (now + (lost[b] + AtLeast(0, seen[b] - now)))
<1> DEFINE before == seen[b] + lost[b]
           after  == now + (lost[b] + AtLeast(0, seen[b] - now))
           spent  == Cost * allowed[b]
<1>1. /\ allowed[b] \in Nat /\ seen[b] \in Nat /\ lost[b] \in Nat
      /\ Rate \in Nat /\ Cost \in Nat
  BY BucketFacts, BucketAssumption
<1>2. spent \in Nat
  BY <1>1
<1>3. before \in Nat /\ after \in Nat /\ before <= after
  BY <1>1 DEF AtLeast
<1>4. CASE bucket[b] = NoBucket
  <2>1. spent + Capacity <= Capacity + Rate * before
    BY <1>4 DEF Paid, Level
  <2>2. Rate * before <= Rate * after /\ Rate * before \in Nat /\ Rate * after \in Nat
    BY <1>1, <1>3, Grows, WholeProduct
  <2> HIDE DEF before, after, spent
  <2>3. spent + Capacity <= Capacity + Rate * after
    BY <1>2, <2>1, <2>2, FullPays
  <2> QED BY <1>4, <2>3 DEF TokensAt, after, spent
<1>5. CASE bucket[b] # NoBucket
  <2> DEFINE gone == Elapsed(bucket[b], now)
  <2>1. /\ bucket[b].at = seen[b] /\ bucket[b].tokens \in Nat
        /\ spent + bucket[b].tokens <= Capacity + Rate * before
    BY <1>5, BucketFacts, FullPays DEF Paid, Level
  <2>2. gone \in Nat /\ after = before + gone
    BY <1>1, <2>1 DEF Elapsed, AtLeast
  <2>3. /\ Rate * after = Rate * before + gone * Rate
        /\ Rate * before \in Nat /\ gone * Rate \in Nat
    BY <1>1, <1>3, <2>2, Spread, WholeProduct
  <2>4. TokensAt(b, now) <= bucket[b].tokens + gone * Rate
    <3> DEFINE back == gone * Rate
    <3>1. TokensAt(b, now) = AtMost(Capacity, bucket[b].tokens + back)
      BY <1>5 DEF TokensAt, Filled
    <3> HIDE DEF back
    <3> QED BY <3>1, <2>1, <2>3, FullPays DEF AtMost, back
  <2>5. TokensAt(b, now) \in Nat
    BY Refill, FullPays
  <2> HIDE DEF before, after, spent, gone
  <2>6. spent + TokensAt(b, now) <= Capacity + Rate * after
    BY <1>2, <2>1, <2>3, <2>4, <2>5, FullPays
  <2> QED BY <2>6 DEF after, spent
<1> QED BY <1>4, <1>5

---------------------------------------------------------------------------
\* Every action that touches a bucket uses it at its reading, or drops it full.

\* A bucket set to no more than what is paid for stays paid for.
LEMMA UsePays ==
  ASSUME BucketTypeOK, BucketTypeOK', NEW b \in Buckets, NEW now \in Nat,
         NEW tokens \in 0..Capacity, NEW n \in Nat, Paid(b),
         clock' = clock, now <= clock, Use(b, now, tokens),
         allowed' = [allowed EXCEPT ![b] = @ + n],
         Cost * n + tokens <= TokensAt(b, now)
  PROVE  Paid(b)'
<1> DEFINE paid == Capacity + Rate * (now + (lost[b] + AtLeast(0, seen[b] - now)))
<1>1. /\ seen'[b] = now /\ lost'[b] = lost[b] + AtLeast(0, seen[b] - now)
      /\ allowed'[b] = allowed[b] + n
      /\ bucket'[b] = [tokens |-> tokens, at |-> now] /\ bucket'[b] # NoBucket
  BY BucketFacts DEF Use, BucketTypeOK
<1>2. /\ Cost * allowed'[b] = Cost * allowed[b] + Cost * n
      /\ Cost * allowed[b] \in Nat /\ Cost * n \in Nat
  BY <1>1, BucketFacts, Spread, WholeProduct, BucketAssumption
<1>3. Cost * allowed[b] + TokensAt(b, now) <= paid
  BY RefillIsPaid
<1>4. paid \in Int /\ TokensAt(b, now) \in Nat /\ tokens \in Nat
  BY Refill, BucketFacts, FullPays, WholeProduct, BucketAssumption DEF AtLeast
<1>5. Cost * allowed'[b] + tokens <= paid
  <2> HIDE DEF paid
  <2> QED BY <1>2, <1>3, <1>4
<1>6. Level(b)' = tokens
  BY <1>1 DEF Level
<1> QED BY <1>1, <1>5, <1>6 DEF Paid

\* A bucket an action leaves alone stays paid for.
LEMMA AloneStaysPaid ==
  ASSUME BucketTypeOK, NEW b \in Buckets, Paid(b), clock' \in Nat, clock' >= clock,
         bucket'[b] = bucket[b], seen'[b] = seen[b], lost'[b] = lost[b],
         allowed'[b] = allowed[b]
  PROVE  Paid(b)'
BY BucketFacts DEF Paid, Level

\* The initial state.
LEMMA InitPaid == BucketInit => IInv
<1> SUFFICES ASSUME BucketInit PROVE IInv
  OBVIOUS
<1>1. BucketTypeOK
  BY BucketAssumption DEF BucketInit, BucketTypeOK
<1>2. ReadingsArePast
  BY DEF BucketInit, ReadingsArePast
<1>3. ASSUME NEW b \in Buckets PROVE Paid(b)
  <2>1. /\ seen[b] = 0 /\ lost[b] = 0 /\ allowed[b] = 0 /\ clock = 0
        /\ bucket[b] = NoBucket
    BY DEF BucketInit
  <2>2. Cost * 0 = 0 /\ Rate * 0 = 0
    BY BucketAssumption
  <2> QED BY <2>1, <2>2, FullPays DEF Paid, Level
<1> QED BY <1>1, <1>2, <1>3 DEF IInv, Typed

\* Every step keeps the types and takes readings from the past.
LEMMA TypedStep == Typed /\ [BucketNext]_bvars => Typed'
<1> SUFFICES ASSUME Typed, [BucketNext]_bvars PROVE Typed'
  OBVIOUS
<1> USE DEF Typed
<1>1. ASSUME NEW t \in Threads, ReadClock(t) PROVE Typed'
  <2>1. BucketTypeOK'
    BY <1>1 DEF ReadClock, BucketTypeOK
  <2> QED BY <1>1, <2>1, BucketAssumption DEF ReadClock, ReadingsArePast, BucketTypeOK
<1>2. ASSUME NEW t \in Threads, Done(t), UNCHANGED clock, BucketTypeOK' PROVE Typed'
  BY <1>2 DEF Done, ReadingsArePast, BucketTypeOK
<1>3. ASSUME NEW t \in Threads, reading[t] # NoTime
      PROVE  reading[t] \in Nat
  BY <1>3 DEF BucketTypeOK
<1>4. ASSUME NEW b \in Buckets, NEW now \in Nat, NEW tokens \in 0..Capacity,
             Use(b, now, tokens)
      PROVE  /\ bucket' \in [Buckets -> [tokens : 0..Capacity, at : Nat] \cup {NoBucket}]
             /\ seen' \in [Buckets -> Nat] /\ lost' \in [Buckets -> Nat]
  BY <1>4 DEF Use, BucketTypeOK, AtLeast
<1>5. ASSUME NEW t \in Threads, NEW b \in Buckets, Admit(t, b) PROVE Typed'
  <2> DEFINE now == reading[t]
  <2>1. now \in Nat /\ TokensAt(b, now) \in 0..Capacity
    BY <1>3, <1>5, Refill DEF Admit
  <2>2. TokensAt(b, now) - Cost \in 0..Capacity
    BY <1>5, <2>1, FullPays, BucketAssumption DEF Admit, Permits
  <2>3. BucketTypeOK'
    BY <1>4, <1>5, <2>1, <2>2 DEF Admit, Done, BucketTypeOK
  <2> QED BY <1>2, <1>5, <2>3 DEF Admit
<1>6. ASSUME NEW t \in Threads, NEW b \in Buckets, Reject(t, b) PROVE Typed'
  <2> DEFINE now == reading[t]
  <2>1. now \in Nat /\ TokensAt(b, now) \in 0..Capacity
    BY <1>3, <1>6, Refill DEF Reject
  <2>2. BucketTypeOK'
    BY <1>4, <1>6, <2>1 DEF Reject, Done, BucketTypeOK
  <2> QED BY <1>2, <1>6, <2>2 DEF Reject
<1>7. ASSUME NEW t \in Threads, NEW b \in Buckets, Wait(t, b) PROVE Typed'
  <2> DEFINE now == reading[t]
  <2>1. now \in Nat /\ TokensAt(b, now) \in 0..Capacity
    BY <1>3, <1>7, Refill DEF Wait
  <2>2. Delay(TokensAt(b, now)) \in Nat
    BY <2>1, DelaySuffices
  <2>3. BucketTypeOK'
    BY <1>4, <1>7, <2>1, <2>2 DEF Wait, Done, BucketTypeOK
  <2> QED BY <1>2, <1>7, <2>3 DEF Wait
<1>8. ASSUME NEW t \in Threads, Prune(t) PROVE Typed'
  <2>1. reading[t] \in Nat
    BY <1>3, <1>8 DEF Prune
  <2>2. BucketTypeOK'
    BY <1>8, <2>1 DEF Prune, Done, BucketTypeOK, AtLeast
  <2> QED BY <1>2, <1>8, <2>2 DEF Prune
<1>9. CASE Reset
  BY <1>9 DEF Reset, BucketTypeOK, ReadingsArePast
<1>10. CASE BucketTick
  BY <1>10 DEF BucketTick, ClockTicks, BucketTypeOK, ReadingsArePast
<1>11. CASE UNCHANGED bvars
  BY <1>11 DEF bvars, BucketTypeOK, ReadingsArePast
<1> QED BY <1>1, <1>5, <1>6, <1>7, <1>8, <1>9, <1>10, <1>11 DEF BucketNext

\* No step takes a key past what is paid for.
LEMMA PaidStep == IInv /\ BucketTypeOK' /\ [BucketNext]_bvars => \A b \in Buckets : Paid(b)'
<1> SUFFICES ASSUME IInv, BucketTypeOK', [BucketNext]_bvars, NEW b \in Buckets
             PROVE  Paid(b)'
  OBVIOUS
<1>1. Typed /\ BucketTypeOK /\ Paid(b) /\ clock \in Nat
  BY BucketFacts DEF IInv, Typed
<1>2. ASSUME NEW t \in Threads, reading[t] # NoTime
      PROVE  reading[t] \in Nat /\ reading[t] <= clock
  BY <1>1, <1>2 DEF Typed, ReadingsArePast, BucketTypeOK
<1>3. ASSUME NEW c \in Buckets, NEW now, NEW tokens, Use(c, now, tokens), c # b,
             UNCHANGED clock, allowed'[b] = allowed[b]
      PROVE  Paid(b)'
  <2>1. bucket'[b] = bucket[b] /\ seen'[b] = seen[b] /\ lost'[b] = lost[b]
    BY <1>1, <1>3 DEF Use, BucketTypeOK
  <2> QED BY <1>1, <1>3, <2>1, AloneStaysPaid
<1>4. ASSUME NEW t \in Threads, NEW c \in Buckets, Admit(t, c) PROVE Paid(b)'
  <2> DEFINE now == reading[t]
  <2>1. now \in Nat /\ now <= clock /\ TokensAt(c, now) \in 0..Capacity
    BY <1>1, <1>2, <1>4, Refill DEF Admit
  <2>2. TokensAt(c, now) - Cost \in 0..Capacity
    BY <1>4, <2>1, FullPays, BucketAssumption DEF Admit, Permits
  <2>3. CASE c = b
    <3>1. Cost * 1 + (TokensAt(b, now) - Cost) <= TokensAt(b, now)
      BY <2>1, <2>3, FullPays, BucketAssumption
    <3> QED BY <1>1, <1>4, <2>1, <2>2, <2>3, <3>1, UsePays DEF Admit
  <2>4. CASE c # b
    BY <1>1, <1>3, <1>4, <2>4 DEF Admit, BucketTypeOK
  <2> QED BY <2>3, <2>4
<1>5. ASSUME NEW c \in Buckets, NEW now \in Nat, now <= clock,
             Use(c, now, TokensAt(c, now)), UNCHANGED <<clock, allowed>>
      PROVE  Paid(b)'
  <2>1. TokensAt(c, now) \in 0..Capacity
    BY <1>1, Refill
  <2>2. CASE c = b
    <3>1. allowed' = [allowed EXCEPT ![b] = @ + 0]
      BY <1>1, <1>5 DEF BucketTypeOK
    <3>2. Cost * 0 + TokensAt(b, now) <= TokensAt(b, now)
      BY <2>1, <2>2, FullPays, BucketAssumption
    <3> QED BY <1>1, <1>5, <2>1, <2>2, <3>1, <3>2, UsePays
  <2>3. CASE c # b
    BY <1>3, <1>5, <2>3
  <2> QED BY <2>2, <2>3
<1>6. ASSUME NEW t \in Threads, NEW c \in Buckets, Reject(t, c) PROVE Paid(b)'
  BY <1>2, <1>5, <1>6 DEF Reject
<1>7. ASSUME NEW t \in Threads, NEW c \in Buckets, Wait(t, c) PROVE Paid(b)'
  <2>1. CASE bucket[c] = NoBucket
    BY <1>1, <1>7, <2>1, AloneStaysPaid DEF Wait
  <2>2. CASE bucket[c] # NoBucket
    BY <1>2, <1>5, <1>7, <2>2 DEF Wait
  <2> QED BY <2>1, <2>2
<1>8. ASSUME NEW t \in Threads, Prune(t) PROVE Paid(b)'
  <2> DEFINE now == reading[t]
             paid == Capacity + Rate * (now + (lost[b] + AtLeast(0, seen[b] - now)))
  <2>1. now \in Nat /\ now <= clock
    BY <1>2, <1>8 DEF Prune
  <2>2. CASE /\ Stale(b, now)
             /\ bucket' = [bucket EXCEPT ![b] = NoBucket]
             /\ seen' = [seen EXCEPT ![b] = now]
             /\ lost' = [lost EXCEPT ![b] = @ + AtLeast(0, seen[b] - now)]
    <3>1. /\ bucket'[b] = NoBucket /\ seen'[b] = now
          /\ lost'[b] = lost[b] + AtLeast(0, seen[b] - now)
      BY <1>1, <2>2 DEF BucketTypeOK
    <3>2. TokensAt(b, now) = Capacity
      <4>1. TokensAt(b, now) >= Capacity
        BY <2>2 DEF Stale, TokensAt
      <4> QED BY <1>1, <2>1, <4>1, Refill, FullPays
    <3>3. Cost * allowed[b] + Capacity <= paid
      BY <1>1, <2>1, <3>2, RefillIsPaid
    <3> QED BY <1>8, <2>1, <3>1, <3>3 DEF Prune, Paid, Level
  <2>3. CASE /\ bucket'[b] = bucket[b] /\ seen'[b] = seen[b] /\ lost'[b] = lost[b]
    BY <1>1, <1>8, <2>3, AloneStaysPaid DEF Prune
  <2> QED BY <1>1, <1>8, <2>2, <2>3 DEF Prune, BucketTypeOK
<1>9. CASE Reset
  <2>1. /\ seen'[b] = 0 /\ lost'[b] = 0 /\ allowed'[b] = 0 /\ clock' = clock
        /\ bucket'[b] = NoBucket
    BY <1>9 DEF Reset
  <2>2. Cost * 0 = 0 /\ Rate * 0 = 0
    BY BucketAssumption
  <2> QED BY <1>1, <2>1, <2>2, FullPays DEF Paid, Level
<1>10. CASE BucketTick
  BY <1>1, <1>10, AloneStaysPaid DEF BucketTick, ClockTicks
<1>11. ASSUME NEW t \in Threads, ReadClock(t) PROVE Paid(b)'
  BY <1>1, <1>11, AloneStaysPaid DEF ReadClock
<1>12. CASE UNCHANGED bvars
  BY <1>1, <1>12, AloneStaysPaid DEF bvars
<1> QED BY <1>4, <1>6, <1>7, <1>8, <1>9, <1>10, <1>11, <1>12 DEF BucketNext

LEMMA IInvAlways == BucketSpec => []IInv
<1>1. IInv /\ [BucketNext]_bvars => IInv'
  BY TypedStep, PaidStep DEF IInv, Typed
<1> QED BY <1>1, InitPaid, PTL DEF BucketSpec

\* Type correctness: in particular no bucket holds less than nothing or more
\* than its burst, whatever order the readings come in.
THEOREM BucketTypeCorrect == BucketSpec => []BucketTypeOK
BY IInvAlways, PTL DEF IInv, Typed

\* The envelope: a key is never admitted more often than the burst, the time
\* passed and the time lost to readings out of order pay for.
THEOREM NoKeyOverEnvelope == BucketSpec => []EnvelopeUpToLostTime
<1>1. IInv => EnvelopeUpToLostTime
  <2> SUFFICES ASSUME IInv, NEW b \in Buckets
               PROVE  Cost * allowed[b] <= Capacity + Rate * (clock + lost[b])
    BY DEF EnvelopeUpToLostTime
  <2>1. BucketTypeOK /\ Paid(b)
    BY DEF IInv, Typed
  <2>2. Level(b) \in Nat
    BY <2>1, BucketFacts, FullPays DEF Level
  <2>3. Rate * (seen[b] + lost[b]) <= Rate * (clock + lost[b])
    BY <2>1, BucketFacts, Grows, BucketAssumption DEF Paid
  <2>4. /\ Cost * allowed[b] \in Int /\ Rate * (seen[b] + lost[b]) \in Int
        /\ Rate * (clock + lost[b]) \in Int
    BY <2>1, BucketFacts, WholeProduct, BucketAssumption
  <2> QED BY <2>1, <2>2, <2>3, <2>4, FullPays DEF Paid
<1> QED BY <1>1, IInvAlways, PTL

---------------------------------------------------------------------------
\* wait() keeps its word: a use of a bucket in between costs its promise
\* nothing, because refilling in two steps gives as much as in one.

\* TokensAt, of the bucket instead of its key.
Holds(bk, now) == IF bk = NoBucket THEN Capacity ELSE Filled(bk, now)

Kept(b) == promise[b] # NoTime => Holds(bucket[b], promise[b]) >= Cost

LEMMA TwoStepsGiveNoLess ==
  ASSUME BucketTypeOK, NEW b \in Buckets, NEW now \in Nat, NEW then \in Nat
  PROVE  TokensAt(b, then) <= Filled([tokens |-> TokensAt(b, now), at |-> now], then)
<1> DEFINE full == TokensAt(b, now)
           next == Elapsed([tokens |-> full, at |-> now], then)
<1>1. Filled([tokens |-> full, at |-> now], then) = AtMost(Capacity, full + next * Rate)
  BY DEF Filled
<1>2. full \in 0..Capacity /\ next \in Nat /\ next * Rate \in Nat
  BY Refill, BucketAssumption DEF Elapsed, AtLeast
<1>3. CASE bucket[b] = NoBucket
  <2>1. full = Capacity /\ TokensAt(b, then) = Capacity
    BY <1>3 DEF TokensAt
  <2> HIDE DEF full, next
  <2> QED BY <1>1, <1>2, <2>1, FullPays DEF AtMost, full
<1>4. CASE bucket[b] # NoBucket
  <2> DEFINE tokens == bucket[b].tokens
             first  == Elapsed(bucket[b], now)
             whole  == Elapsed(bucket[b], then)
  <2>1. /\ tokens \in Nat /\ bucket[b].at \in Nat
        /\ first \in Nat /\ whole \in Nat /\ whole <= first + next
    BY <1>4, BucketFacts, FullPays DEF Elapsed, AtLeast
  <2>2. /\ full = AtMost(Capacity, tokens + first * Rate)
        /\ TokensAt(b, then) = AtMost(Capacity, tokens + whole * Rate)
    BY <1>4 DEF TokensAt, Filled
  <2> HIDE DEF full, next, tokens, first, whole
  <2>3. Rate * whole <= Rate * first + Rate * next
    BY <1>2, <2>1, Grows, Spread, BucketAssumption
  <2>4. /\ whole * Rate <= first * Rate + next * Rate
        /\ whole * Rate \in Nat /\ first * Rate \in Nat
    BY <1>2, <2>1, <2>3, BucketAssumption
  <2>5. AtMost(Capacity, tokens + whole * Rate) <= AtMost(Capacity, full + next * Rate)
    <3> DEFINE w == whole * Rate
               f == first * Rate
               n == next * Rate
    <3>1. w \in Nat /\ f \in Nat /\ n \in Nat /\ w <= f + n
          /\ full = AtMost(Capacity, tokens + f)
      BY <1>2, <2>2, <2>4
    <3> HIDE DEF w, f, n
    <3>2. AtMost(Capacity, tokens + w) <= AtMost(Capacity, full + n)
      BY <2>1, <3>1, FullPays DEF AtMost
    <3> QED BY <3>2 DEF w, n
  <2> QED BY <1>1, <2>2, <2>5 DEF full
<1> QED BY <1>3, <1>4

\* A bucket used for nothing keeps the promises made for it.
LEMMA UseKeeps ==
  ASSUME BucketTypeOK, NEW b \in Buckets, NEW now \in Nat, NEW then \in Nat,
         Use(b, now, TokensAt(b, now))
  PROVE  /\ Holds(bucket'[b], then) = Filled([tokens |-> TokensAt(b, now), at |-> now], then)
         /\ Holds(bucket'[b], then) \in Int
         /\ Holds(bucket'[b], then) >= TokensAt(b, then)
<1>1. bucket'[b] = [tokens |-> TokensAt(b, now), at |-> now] /\ bucket'[b] # NoBucket
  BY Refill, BucketFacts DEF Use, BucketTypeOK
<1>2. Holds(bucket'[b], then) = Filled(bucket'[b], then)
  BY <1>1 DEF Holds
<1>3. TokensAt(b, then) <= Filled([tokens |-> TokensAt(b, now), at |-> now], then)
  BY TwoStepsGiveNoLess
<1>4. Filled([tokens |-> TokensAt(b, now), at |-> now], then) \in Int
  BY Refill, FullPays, BucketAssumption DEF Filled, Elapsed, AtMost, AtLeast
<1> QED BY <1>1, <1>2, <1>3, <1>4, Refill

LEMMA KeptStep ==
  BucketTypeOK /\ BucketTypeOK' /\ (\A b \in Buckets : Kept(b)) /\ [BucketNext]_bvars
    => \A b \in Buckets : Kept(b)'
<1> SUFFICES ASSUME BucketTypeOK, BucketTypeOK', \A c \in Buckets : Kept(c),
                    [BucketNext]_bvars, NEW b \in Buckets, promise'[b] # NoTime
             PROVE  Holds(bucket'[b], promise'[b]) >= Cost
  BY DEF Kept
<1>1. promise'[b] \in Nat
  BY DEF BucketTypeOK
<1>2. CASE promise'[b] = promise[b] /\ bucket'[b] = bucket[b]
  BY <1>2 DEF Kept
<1>3. CASE bucket'[b] = NoBucket
  BY <1>3, FullPays, BucketAssumption DEF Holds
<1>4. ASSUME NEW now \in Nat, Use(b, now, TokensAt(b, now)), promise'[b] = promise[b]
      PROVE  Holds(bucket'[b], promise'[b]) >= Cost
  <2>1. TokensAt(b, promise'[b]) >= Cost /\ TokensAt(b, promise'[b]) \in 0..Capacity
    BY <1>1, <1>4, Refill DEF Kept, Holds, TokensAt
  <2>2. /\ Holds(bucket'[b], promise'[b]) >= TokensAt(b, promise'[b])
        /\ Holds(bucket'[b], promise'[b]) \in Int
    BY <1>1, <1>4, UseKeeps
  <2> QED BY <2>1, <2>2, FullPays, BucketAssumption
<1>5. ASSUME NEW t \in Threads, reading[t] # NoTime PROVE reading[t] \in Nat
  BY <1>5 DEF BucketTypeOK
<1>6. ASSUME NEW t \in Threads, NEW c \in Buckets, Admit(t, c)
      PROVE  Holds(bucket'[b], promise'[b]) >= Cost
  <2>1. c # b
    BY <1>6 DEF Admit, BucketTypeOK
  <2> QED BY <1>2, <1>6, <2>1 DEF Admit, Use, BucketTypeOK
<1>7. ASSUME NEW t \in Threads, NEW c \in Buckets, Reject(t, c)
      PROVE  Holds(bucket'[b], promise'[b]) >= Cost
  <2>1. CASE c = b
    BY <1>4, <1>5, <1>7, <2>1 DEF Reject
  <2>2. CASE c # b
    BY <1>2, <1>7, <2>2 DEF Reject, Use, BucketTypeOK
  <2> QED BY <2>1, <2>2
<1>8. ASSUME NEW t \in Threads, NEW c \in Buckets, Wait(t, c)
      PROVE  Holds(bucket'[b], promise'[b]) >= Cost
  <2>1. CASE c # b
    BY <1>2, <1>8, <2>1 DEF Wait, Use, BucketTypeOK
  <2>2. CASE c = b /\ bucket[b] = NoBucket
    BY <1>3, <1>8, <2>2 DEF Wait
  <2>3. CASE c = b /\ bucket[b] # NoBucket
    <3> DEFINE now == reading[t]
               tokens == TokensAt(b, now)
    <3>1. now \in Nat /\ tokens \in 0..Capacity /\ Use(b, now, tokens)
      BY <1>5, <1>8, <2>3, Refill DEF Wait
    <3>2. promise'[b] = now + Delay(tokens)
      BY <1>8, <2>3 DEF Wait, BucketTypeOK
    <3>3. Holds(bucket'[b], promise'[b]) = Filled([tokens |-> tokens, at |-> now], promise'[b])
      BY <1>1, <3>1, UseKeeps
    <3>4. Delay(tokens) \in Nat /\ tokens + Delay(tokens) * Rate >= Cost
      BY <3>1, DelaySuffices
    <3> HIDE DEF tokens
    <3>5. Elapsed([tokens |-> tokens, at |-> now], promise'[b]) = Delay(tokens)
      BY <3>1, <3>2, <3>4 DEF Elapsed, AtLeast
    <3>6. Delay(tokens) * Rate \in Nat
      BY <3>4, BucketAssumption
    <3>7. AtMost(Capacity, tokens + Delay(tokens) * Rate) >= Cost
      BY <3>1, <3>4, <3>6, FullPays, BucketAssumption DEF AtMost
    <3> QED BY <3>3, <3>5, <3>7 DEF Filled
  <2> QED BY <2>1, <2>2, <2>3
<1>9. ASSUME NEW t \in Threads, Prune(t) PROVE Holds(bucket'[b], promise'[b]) >= Cost
  BY <1>2, <1>3, <1>9 DEF Prune, BucketTypeOK
<1>10. CASE Reset
  BY <1>10 DEF Reset
<1>11. ASSUME NEW t \in Threads, ReadClock(t) PROVE Holds(bucket'[b], promise'[b]) >= Cost
  BY <1>2, <1>11 DEF ReadClock
<1>12. CASE BucketTick \/ UNCHANGED bvars
  BY <1>2, <1>12 DEF BucketTick, bvars
<1> QED BY <1>6, <1>7, <1>8, <1>9, <1>10, <1>11, <1>12 DEF BucketNext

\* Coming back when wait() said is enough: the delay it computes, rounded, is
\* never too short, and no refill, rejection or prune in between takes it back.
THEOREM WaitKeepsItsWord == BucketSpec => []WaitIsEnough
<1> DEFINE AllKept == \A b \in Buckets : Kept(b)
<1>1. BucketInit => AllKept
  BY DEF BucketInit, Kept
<1>2. AllKept => WaitIsEnough
  BY DEF Kept, WaitIsEnough, Holds, TokensAt
<1>3. BucketTypeOK /\ BucketTypeOK' /\ AllKept /\ [BucketNext]_bvars => AllKept'
  BY KeptStep
<1> QED BY <1>1, <1>2, <1>3, BucketTypeCorrect, PTL DEF BucketSpec

---------------------------------------------------------------------------
(* The model behind its breaker *)

Queued == {"waiting", "calling", "failed", "recording", "leaving"}
Places == {"out", "enter"} \cup Queued

\* On the way to the call: the breaker was found closed.
Bound == {"enter", "waiting", "calling"}

BackendTyped ==
  /\ failures \in Seq(Nat) /\ openUntil \in Nat /\ depth \in Nat
  /\ at \in [Threads -> Places]
  /\ failedAt \in [Threads -> Nat] /\ asked \in [Threads -> Nat]
  /\ opened \in Nat /\ reported \in Nat

InQueue == {t \in Threads : at[t] \in Queued}
Counted == depth = Cardinality(InQueue)

\* The breaker has opened since for whoever is on the way while it is open.
Caught ==
  \A t \in Threads : at[t] \in Bound =>
    asked[t] <= opened /\ (BreakerOpen => asked[t] < opened)

\* The failures remembered now are not those of an earlier opening.
PaidFor == Threshold * opened + Len(failures) <= reported

BackendInv == clock \in Nat /\ BackendTyped /\ Counted /\ Caught /\ PaidFor

\* Everything a step may do to the backend: a thread moves, and of the rest ...
BackendStep ==
  \/ \E t \in Threads :
       (Inside(t) \/ Consult(t) \/ QueueExit(t)) /\ UNCHANGED clock
  \/ clock \in Nat /\ clock' \in Nat /\ clock <= clock' /\ UNCHANGED mvars

LEMMA QueueCounts ==
  ASSUME NEW t \in Threads
  PROVE  /\ Cardinality(InQueue) \in Nat
         /\ t \notin InQueue => Cardinality(InQueue \cup {t}) = Cardinality(InQueue) + 1
         /\ t \in InQueue => /\ Cardinality(InQueue) >= 1
                             /\ Cardinality(InQueue \ {t}) = Cardinality(InQueue) - 1
<1>1. IsFiniteSet(InQueue)
  <2>1. InQueue \subseteq Threads
    BY DEF InQueue
  <2> QED BY <2>1, FS_Subset, BackendAssumption
<1>2. t \in InQueue => Cardinality(InQueue \ {t}) \in Nat
                       /\ Cardinality(InQueue \ {t}) = Cardinality(InQueue) - 1
  BY <1>1, FS_RemoveElement, FS_CardinalityType
<1> QED BY <1>1, <1>2, FS_AddElement, FS_CardinalityType

LEMMA MovesCounted ==
  ASSUME BackendTyped, Counted, NEW t \in Threads, NEW here, NEW there \in Places,
         Move(t, here, there),
         \/ (here \in Queued <=> there \in Queued) /\ depth' = depth
         \/ here \notin Queued /\ there \in Queued /\ depth' = depth + 1
         \/ here \in Queued /\ there \notin Queued /\ depth' = AtLeast(0, depth - 1)
  PROVE  Counted' /\ depth' \in Nat
<1>1. \A u \in Threads : at'[u] = IF u = t THEN there ELSE at[u]
  BY DEF Move, BackendTyped
<1>2. at[t] = here
  BY DEF Move
<1>3. CASE (here \in Queued <=> there \in Queued) /\ depth' = depth
  <2>1. InQueue' = InQueue
    BY <1>1, <1>2, <1>3 DEF InQueue
  <2> QED BY <1>3, <2>1 DEF Counted, BackendTyped
<1>4. CASE here \notin Queued /\ there \in Queued /\ depth' = depth + 1
  <2>1. InQueue' = InQueue \cup {t} /\ t \notin InQueue
    BY <1>1, <1>2, <1>4 DEF InQueue
  <2> QED BY <1>4, <2>1, QueueCounts DEF Counted, BackendTyped
<1>5. CASE here \in Queued /\ there \notin Queued /\ depth' = AtLeast(0, depth - 1)
  <2>1. InQueue' = InQueue \ {t} /\ t \in InQueue
    BY <1>1, <1>2, <1>5 DEF InQueue
  <2> QED BY <1>5, <2>1, QueueCounts DEF Counted, BackendTyped, AtLeast
<1> QED BY <1>3, <1>4, <1>5

\* A move that reports nothing, away from the breaker or on to the call.
LEMMA MovesCaught ==
  ASSUME BackendTyped, Caught, NEW t \in Threads, NEW here, NEW there,
         Move(t, here, there), there \in Bound => here \in Bound,
         UNCHANGED <<clock, openUntil, opened, asked>>
  PROVE  Caught'
BY DEF Move, BackendTyped, Caught, BreakerOpen

LEMMA TypedMove ==
  ASSUME BackendTyped, NEW t \in Threads, NEW here, NEW there \in Places,
         Move(t, here, there)
  PROVE  at' \in [Threads -> Places]
BY DEF Move, BackendTyped

\* One failure more is remembered, the oldest making room at the threshold.
LEMMA RemembersOne ==
  ASSUME BackendTyped, NEW now \in Nat
  PROVE  /\ LastFailures(now) \in Seq(Nat)
         /\ Len(LastFailures(now)) \in Nat /\ Len(failures) \in Nat
         /\ Len(LastFailures(now)) <= Len(failures) + 1
<1> DEFINE rest == IF Len(failures) >= Threshold THEN Tail(failures) ELSE failures
<1>1. Len(failures) \in Nat /\ (Len(failures) >= Threshold => failures # <<>>)
  BY BackendAssumption DEF BackendTyped
<1>2. rest \in Seq(Nat) /\ Len(rest) <= Len(failures) /\ Len(rest) \in Nat
  BY <1>1, HeadTailProperties DEF BackendTyped
<1> HIDE DEF rest
<1>3. Append(rest, now) \in Seq(Nat) /\ Len(Append(rest, now)) = Len(rest) + 1
  BY <1>2, AppendProperties
<1> QED BY <1>1, <1>2, <1>3 DEF LastFailures, rest

LEMMA RecordPays ==
  ASSUME BackendTyped, Caught, PaidFor, clock \in Nat, NEW t \in Threads,
         RecordFailure(t), UNCHANGED clock
  PROVE  Caught' /\ PaidFor' /\ failures' \in Seq(Nat) /\ openUntil' \in Nat
         /\ opened' \in Nat /\ reported' \in Nat
<1> DEFINE now == failedAt[t]
           last == LastFailures(now)
<1>1. now \in Nat
  BY DEF BackendTyped
<1>2. last \in Seq(Nat) /\ Len(last) \in Nat /\ Len(failures) \in Nat
      /\ Len(last) <= Len(failures) + 1
  BY <1>1, RemembersOne
<1>3. opened \in Nat /\ reported \in Nat /\ Threshold \in Nat \ {0} /\ Cooldown \in Nat
      /\ openUntil \in Nat
  BY BackendAssumption DEF BackendTyped
<1>4. \A u \in Threads : at'[u] \in Bound => at[u] \in Bound
  BY DEF RecordFailure, Move, BackendTyped, Bound
<1>5. reported' = reported + 1 /\ UNCHANGED asked
  BY DEF RecordFailure
<1>6. CASE Trips(now)
  <2>1. failures' = <<>> /\ openUntil' = now + Cooldown /\ opened' = opened + 1
    BY <1>6 DEF RecordFailure, FailuresAfter, TripUntil
  <2>2. Caught'
    BY <1>3, <1>4, <1>5, <2>1 DEF Caught, BackendTyped
  <2>3. Len(last) >= Threshold
    BY <1>6 DEF Trips
  <2>4. Threshold * opened' = Threshold * opened + Threshold * 1
        /\ Threshold * 1 = Threshold /\ Threshold * opened \in Int
    BY <1>3, <2>1, Spread, WholeProduct
  <2>5. PaidFor'
    <3> DEFINE paid == Threshold * opened
    <3>1. paid + Len(failures) <= reported /\ Len(failures') = 0
      BY <2>1 DEF PaidFor
    <3>2. paid \in Int /\ Threshold * opened' = paid + Threshold
      BY <2>4
    <3> HIDE DEF paid
    <3>3. paid + Threshold + 0 <= reported + 1
      BY <1>2, <1>3, <2>3, <3>1, <3>2
    <3> QED BY <1>5, <3>1, <3>2, <3>3 DEF PaidFor
  <2> QED BY <1>1, <1>3, <1>5, <2>1, <2>2, <2>5
<1>7. CASE ~Trips(now)
  <2>1. failures' = last /\ openUntil' = openUntil /\ opened' = opened
    BY <1>7 DEF RecordFailure, FailuresAfter
  <2>2. Caught'
    BY <1>4, <1>5, <2>1 DEF Caught, BreakerOpen
  <2>3. PaidFor'
    <3> DEFINE paid == Threshold * opened
    <3>1. paid + Len(failures) <= reported /\ paid \in Int
      BY <1>3, WholeProduct DEF PaidFor
    <3>2. Threshold * opened' = paid
      BY <2>1
    <3> HIDE DEF paid, last
    <3>3. paid + Len(last) <= reported + 1
      BY <1>2, <1>3, <3>1
    <3> QED BY <1>5, <2>1, <3>2, <3>3 DEF PaidFor
  <2> QED BY <1>2, <1>3, <1>5, <2>1, <2>2, <2>3
<1> QED BY <1>6, <1>7

LEMMA InsideKeeps ==
  ASSUME BackendInv, NEW t \in Threads, Inside(t), UNCHANGED clock
  PROVE  BackendInv'
<1> USE DEF BackendInv
<1>1. CASE QueueEnter(t)
  <2>1. Counted' /\ depth' \in Nat
    BY <1>1, MovesCounted DEF QueueEnter, Queued, Places
  <2>2. Caught'
    BY <1>1, MovesCaught DEF QueueEnter, Bound
  <2> QED BY <1>1, <2>1, <2>2, TypedMove DEF QueueEnter, BackendTyped, PaidFor, Places, Queued
<1>2. CASE Acquire(t)
  <2>1. Counted' /\ depth' \in Nat
    BY <1>2, MovesCounted DEF Acquire, Queued, Places
  <2>2. Caught'
    BY <1>2, MovesCaught DEF Acquire, Bound
  <2> QED BY <1>2, <2>1, <2>2, TypedMove DEF Acquire, BackendTyped, PaidFor, Places, Queued
<1>3. CASE Succeed(t)
  <2>1. Counted' /\ depth' \in Nat
    BY <1>3, MovesCounted DEF Succeed, Queued, Places
  <2>2. Caught'
    BY <1>3, MovesCaught DEF Succeed, Bound
  <2> QED BY <1>3, <2>1, <2>2, TypedMove DEF Succeed, BackendTyped, PaidFor, Places, Queued
<1>4. CASE Fail(t)
  <2>1. Counted' /\ depth' \in Nat
    BY <1>4, MovesCounted DEF Fail, Queued, Places
  <2>2. Caught'
    BY <1>4, MovesCaught DEF Fail, Bound
  <2> QED BY <1>4, <2>1, <2>2, TypedMove DEF Fail, BackendTyped, PaidFor, Places, Queued
<1>5. CASE ReadFailureClock(t)
  <2>1. Counted' /\ depth' \in Nat
    BY <1>5, MovesCounted DEF ReadFailureClock, Queued, Places
  <2>2. Caught'
    BY <1>5, MovesCaught DEF ReadFailureClock, Bound
  <2> QED BY <1>5, <2>1, <2>2, TypedMove
          DEF ReadFailureClock, BackendTyped, PaidFor, Places, Queued
<1>6. CASE RecordFailure(t)
  <2>1. Counted' /\ depth' \in Nat
    BY <1>6, MovesCounted DEF RecordFailure, Queued, Places
  <2>2. /\ Caught' /\ PaidFor' /\ failures' \in Seq(Nat) /\ openUntil' \in Nat
        /\ opened' \in Nat /\ reported' \in Nat
    BY <1>6, RecordPays
  <2> QED BY <1>6, <2>1, <2>2, TypedMove DEF RecordFailure, BackendTyped, Places, Queued
<1> QED BY <1>1, <1>2, <1>3, <1>4, <1>5, <1>6 DEF Inside

LEMMA BackendKeeps == BackendInv /\ BackendStep => BackendInv'
<1> SUFFICES ASSUME BackendInv, BackendStep PROVE BackendInv'
  OBVIOUS
<1>1. ASSUME NEW t \in Threads, Inside(t), UNCHANGED clock PROVE BackendInv'
  BY <1>1, InsideKeeps
<1>2. ASSUME NEW t \in Threads, Consult(t), UNCHANGED clock PROVE BackendInv'
  <2>1. Counted' /\ depth' \in Nat
    BY <1>2, MovesCounted DEF Consult, Queued, Places, BackendInv
  <2>2. Caught'
    BY <1>2 DEF Consult, Move, Caught, BreakerOpen, BackendInv, BackendTyped
  <2> QED BY <1>2, <2>1, <2>2, TypedMove DEF Consult, BackendInv, BackendTyped, PaidFor, Places
<1>3. ASSUME NEW t \in Threads, QueueExit(t), UNCHANGED clock PROVE BackendInv'
  <2>1. Counted' /\ depth' \in Nat
    BY <1>3, MovesCounted DEF QueueExit, Queued, Places, BackendInv
  <2>2. Caught'
    BY <1>3, MovesCaught DEF QueueExit, Bound, BackendInv
  <2> QED BY <1>3, <2>1, <2>2, TypedMove DEF QueueExit, BackendInv, BackendTyped, PaidFor, Places
<1>4. CASE clock' \in Nat /\ clock <= clock' /\ UNCHANGED mvars
  <2>1. BreakerOpen' => BreakerOpen
    BY <1>4 DEF BreakerOpen, mvars, BackendInv, BackendTyped
  <2> QED BY <1>4, <2>1
          DEF mvars, BackendInv, BackendTyped, Counted, InQueue, Caught, PaidFor
<1> QED BY <1>1, <1>2, <1>3, <1>4 DEF BackendStep

---------------------------------------------------------------------------
(* The two together *)

\* Admission adds to the limiter who calls it when, and nothing it does: every
\* step of a query is a step of the limiter or none.
LEMMA QueriesStepTheLimiter == [AdmissionNext]_avars => [BucketNext]_bvars
<1> SUFFICES ASSUME [AdmissionNext]_avars PROVE [BucketNext]_bvars
  OBVIOUS
<1>1. ASSUME NEW t \in Threads, Arrive(t) PROVE BucketNext
  BY <1>1 DEF Arrive, BucketNext
<1>2. ASSUME NEW t \in Threads, Pass(t) \/ Refused(t) PROVE BucketNext
  BY <1>2 DEF Pass, Refused, BucketNext
<1>3. ASSUME NEW t \in Threads, Spared(t) \/ Ask(t) \/ Wade(t) \/ Answer(t)
      PROVE  UNCHANGED bvars
  BY <1>3 DEF Spared, Ask, Wade, Answer
<1>4. CASE Janitor
  BY <1>4 DEF Janitor, BucketNext
<1>5. CASE JanitorLooks
  BY <1>5 DEF JanitorLooks, BucketNext
<1>6. CASE Passes
  BY <1>6 DEF Passes, BucketNext
<1>7. CASE UNCHANGED avars
  BY <1>7 DEF avars
<1> QED BY <1>1, <1>2, <1>3, <1>4, <1>5, <1>6, <1>7 DEF AdmissionNext, Advance

\* ... and of the backend, or time passes for it.
LEMMA QueriesStepTheBackend ==
  clock \in Nat /\ [AdmissionNext]_avars => BackendStep
<1> SUFFICES ASSUME clock \in Nat, [AdmissionNext]_avars PROVE BackendStep
  OBVIOUS
<1> DEFINE Rests == clock' = clock /\ UNCHANGED mvars
<1>1. Rests => BackendStep
  BY DEF BackendStep
<1>2. ASSUME NEW t \in Threads, Arrive(t) \/ Pass(t) \/ Refused(t) \/ Spared(t)
      PROVE  Rests
  BY <1>2 DEF Arrive, ReadClock, Pass, Admit, Refused, Reject, Spared, Canned
<1>3. ASSUME NEW t \in Threads, Ask(t) \/ Wade(t) \/ Answer(t) PROVE BackendStep
  BY <1>3 DEF Ask, Wade, Answer, BackendStep
<1>4. CASE Janitor
  <2>1. Rests
    BY <1>4 DEF Janitor, Prune, Wait
  <2> QED BY <1>1, <2>1
<1>5. CASE JanitorLooks
  BY <1>1, <1>5 DEF JanitorLooks, ReadClock
<1>6. CASE Passes
  BY <1>6 DEF Passes, BucketTick, ClockTicks, BackendStep
<1>7. CASE UNCHANGED avars
  BY <1>1, <1>7 DEF avars, bvars
<1> HIDE DEF Rests
<1> QED BY <1>1, <1>2, <1>3, <1>4, <1>5, <1>6, <1>7 DEF AdmissionNext, Advance

LEMMA BackendStarts == AdmissionInit => BackendInv
<1> SUFFICES ASSUME AdmissionInit PROVE BackendInv
  OBVIOUS
<1> USE DEF AdmissionInit, BackendInit
<1>1. clock \in Nat
  BY DEF BucketInit
<1>2. BackendTyped
  BY DEF BackendTyped, Places
<1>3. InQueue = {}
  BY DEF InQueue, Queued
<1>4. Counted
  BY <1>3, FS_EmptySet DEF Counted
<1>5. Caught
  BY DEF Caught, Bound
<1>6. Threshold * opened = 0 /\ Len(failures) = 0
  BY BackendAssumption
<1>7. PaidFor
  BY <1>6 DEF PaidFor
<1> QED BY <1>1, <1>2, <1>4, <1>5, <1>7 DEF BackendInv

LEMMA BackendAlways == AdmissionSpec => []BackendInv
<1>1. BackendInv /\ [AdmissionNext]_avars => BackendInv'
  BY QueriesStepTheBackend, BackendKeeps DEF BackendInv
<1> QED BY <1>1, BackendStarts, PTL DEF AdmissionSpec

\* Refinement: whatever queries, the queue and the breaker do around it, the
\* limiter keeps to its own specification, and to all that follows from it.
THEOREM LimiterImplemented == AdmissionSpec => BucketSpec
<1>1. AdmissionInit => BucketInit
  BY DEF AdmissionInit
<1> QED BY <1>1, QueriesStepTheLimiter, PTL DEF AdmissionSpec, BucketSpec

\* The envelope of every key, on the way of a query to the model.
THEOREM AdmittedWithinEnvelope == AdmissionSpec => []EnvelopeUpToLostTime
BY LimiterImplemented, NoKeyOverEnvelope, PTL

\* The delay told to a caller, on the way of a query to the model.
THEOREM AdmittedAfterWaiting == AdmissionSpec => []WaitIsEnough
BY LimiterImplemented, WaitKeepsItsWord, PTL

\* The depth read by the 429 guard is the number of calls in the queue, in
\* whatever ways calls end and however their entering and leaving interleave.
THEOREM QueueIsCounted == AdmissionSpec => []DepthCounts
<1>1. BackendInv => DepthCounts
  BY DEF BackendInv, Counted, InQueue, Queued, DepthCounts
<1> QED BY <1>1, BackendAlways, PTL

\* Whoever calls the model while the breaker is open was let on its way before
\* it opened; nobody who asks the breaker during the outage calls.
THEOREM OutageCallsAreOld == AdmissionSpec => []CallsInOutageAreOld
<1>1. BackendInv => CallsInOutageAreOld
  BY DEF BackendInv, Caught, Bound, CallsInOutageAreOld
<1> QED BY <1>1, BackendAlways, PTL

\* Every opening took Threshold failures that no other opening had counted.
THEOREM OpeningsPaid == AdmissionSpec => []OpeningsArePaidFor
<1>1. BackendInv => OpeningsArePaidFor
  <2> SUFFICES ASSUME BackendInv PROVE OpeningsArePaidFor
    OBVIOUS
  <2> DEFINE paid == Threshold * opened
  <2>1. paid + Len(failures) <= reported /\ Len(failures) \in Nat /\ reported \in Nat
    BY DEF BackendInv, PaidFor, BackendTyped
  <2>2. paid \in Int
    BY WholeProduct, BackendAssumption DEF BackendInv, BackendTyped
  <2> HIDE DEF paid
  <2>3. paid <= reported
    BY <2>1, <2>2
  <2> QED BY <2>3 DEF paid, OpeningsArePaidFor
<1> QED BY <1>1, BackendAlways, PTL

=============================================================================
