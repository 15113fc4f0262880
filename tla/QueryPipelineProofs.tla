------------------------- MODULE QueryPipelineProofs -------------------------
(***************************************************************************)
(* Theorems about QueryPipeline, for any threads, customers, channels,     *)
(* queries, policies, allow lists, thresholds, lifetimes and cache size.   *)
(*                                                                         *)
(* The one idea: a request is judged by what it carries, not by what it is *)
(* answered from.  What a request in progress holds is Held at every stage: *)
(* the answer is the customer's own (Subject), a release kept every rule   *)
(* that applied to it (Verdict), its history covers the present (Present), *)
(* and it was told the policies in force unless it asked too early (Told). *)
(* A response is Sincere when it was made of such a request.  Around them  *)
(* the cache has nobody else's answers (CacheClean) and the overlay tells  *)
(* what was applied before it was read (OverlayHonest).                    *)
(***************************************************************************)
EXTENDS QueryPipeline, SequenceTheorems, FiniteSetTheorems, TLAPS

FreshPath == {"admit", "classify", "fetched1", "decide", "fetched2", "store", "append",
              "respond"}
Decided == {"store", "append", "respond"}
Fetched == {"fetched1", "fetched2"}
Released(w) == w.decision \in Releasing

\* Whom a request is from and about what, and whose answer it carries.
Subject(w, stage) ==
  /\ w.answer.customer = w.customer
  /\ stage \in FreshPath => w.answer.query = w.query
  /\ stage \in FreshPath /\ Protected(w.query.intent) => w.intent = w.query.intent
  /\ stage \in {"recall", "relay"} => ~w.answer.query.badAnswer

\* What was decided of it.
Verdict(w, stage) ==
  /\ stage \in Decided \cup {"relay"} =>
       /\ w.decision \in Decisions
       /\ Released(w) => w.intent \in w.permitted
       /\ Released(w) /\ ~w.ruled =>
            w.conf >= w.lowest /\ (ClassOf[w.intent] = "money" => w.query.amount < CoafLine)
  /\ stage \in Decided =>
       /\ w.blocked = w.query.badAnswer
       /\ Protected(w.query.intent) => ~Released(w)
       /\ w.blocked => w.decision = "ESCALATE"
  /\ stage = "append" => Released(w)

\* The history it carries covers the present.
Present(w) ==
  /\ \A i \in Intents : ~Blocks(allow[w.channel], i) => i \in w.permitted
  /\ w.lowest <= settings.threshold

\* The policies it was told.
Told(w, stage) ==
  /\ w.asked <= clock
  /\ stage \in Fetched => w.view # NoResponse
  /\ /\ w.view # NoResponse /\ w.readOk /\ w.asked > applied.at
     /\ stage \in Fetched \/ w.asked >= applied.at + OverlayTTL
     => w.view = applied.set

Held(w, stage) ==
  w \in Work /\ Subject(w, stage) /\ Verdict(w, stage) /\ Present(w) /\ Told(w, stage)

AllHeld ==
  /\ pc \in [Threads -> Stages]
  /\ work \in [Threads -> Work \cup {NoResponse}]
  /\ \A t \in Threads : pc[t] = "idle" => work[t] = NoResponse
  /\ \A t \in Threads : pc[t] # "idle" => Held(work[t], pc[t])

LEMMA Moves ==
  ASSUME AllHeld, NEW t \in Threads, NEW here, NEW there \in Stages \ {"idle"}, NEW v,
         Goto(t, here, there), work' = [work EXCEPT ![t] = v],
         UNCHANGED <<clock, settings, allow, applied>>, Held(v, there)
  PROVE  AllHeld'
<1>1. pc' \in [Threads -> Stages] /\ work' \in [Threads -> Work \cup {NoResponse}]
  BY DEF AllHeld, Goto, Held
<1>2. \A u \in Threads : pc'[u] # "idle" => Held(work'[u], pc'[u])
  BY DEF AllHeld, Goto
<1>3. \A w, s : Held(w, s) => Held(w, s)'
  BY DEF Held, Subject, Verdict, Present, Told
<1> QED BY <1>1, <1>2, <1>3 DEF AllHeld, Goto

\* Threads that were broken off, or moved on by themselves, with what they hold.
LEMMA Breaks ==
  ASSUME AllHeld, NEW t \in Threads, NEW there \in Stages \ {"idle"},
         NEW broken \in SUBSET Threads, pc[t] # "idle", Held(work[t], there),
         Break(broken, [pc EXCEPT ![t] = there]),
         UNCHANGED <<clock, settings, allow, applied>>
  PROVE  AllHeld'
<1>1. pc' \in [Threads -> Stages] /\ work' \in [Threads -> Work \cup {NoResponse}]
  BY DEF AllHeld, Break, Stages
<1>2. \A u \in Threads : pc'[u] # "idle" => Held(work'[u], pc'[u])
  BY DEF AllHeld, Break
<1>3. \A u \in Threads : pc'[u] = "idle" => work'[u] = NoResponse
  BY DEF AllHeld, Break
<1>4. \A w, s : Held(w, s) => Held(w, s)'
  BY DEF Held, Subject, Verdict, Present, Told
<1> QED BY <1>1, <1>2, <1>3, <1>4 DEF AllHeld

LEMMA Leaves ==
  ASSUME AllHeld, NEW t \in Threads, NEW here, NEW r,
         Goto(t, here, "idle"), Reply(t, r),
         UNCHANGED <<clock, settings, allow, applied>>
  PROVE  AllHeld'
<1>1. pc' \in [Threads -> Stages] /\ work' \in [Threads -> Work \cup {NoResponse}]
  BY DEF AllHeld, Goto, Reply, Stages
<1>2. \A u \in Threads : pc'[u] # "idle" => Held(work'[u], pc'[u])
  BY DEF AllHeld, Goto, Reply
<1>3. \A w, s : Held(w, s) => Held(w, s)'
  BY DEF Held, Subject, Verdict, Present, Told
<1> QED BY <1>1, <1>2, <1>3 DEF AllHeld, Goto, Reply

\* The clock and the operators' settings.
Scalars ==
  /\ clock \in 0..MaxClock
  /\ settings \in [threshold : 10..95, cacheOn : BOOLEAN]
  /\ allow \in [Channels -> AllowLists]
  /\ applied \in [set : Policies, at : 0..clock]
  /\ overlay \in [set : Policies, at : (-OverlayTTL)..clock, ok : BOOLEAN]
  /\ requests \in 0..MaxRequests /\ changes \in 0..MaxChanges

\* The overlay as it was kept tells what was applied before it was read.
OverlayHonest == overlay.ok /\ overlay.at > applied.at => overlay.set = applied.set

CacheClean ==
  /\ cache \in Seq(Entries)
  /\ \A i \in DOMAIN cache :
       cache[i].answer.customer = cache[i].scope /\ ~cache[i].answer.query.badAnswer

LEMMA Entered ==
  ASSUME AllHeld, Scalars,
         NEW t \in Threads, NEW customer \in Customers, NEW channel \in Channels,
         NEW key \in Keys \cup {NoKey}, NEW q \in Queries,
         Receive(t, customer, channel, key, q)
  PROVE  AllHeld'
<1>1. CASE UNCHANGED <<pc, work>>
  <2>1. \A w, s : Held(w, s) => Held(w, s)'
    BY DEF Held, Subject, Verdict, Present, Told, Receive, operators
  <2> QED BY <1>1, <2>1 DEF AllHeld
<1>2. CASE Goto(t, "idle", "admit") /\ work' = [work EXCEPT ![t] = Request(customer, channel, key, q)]
  <2> DEFINE v == Request(customer, channel, key, q)
  <2>1. q.intent \in Intents /\ q.conf \in 0..100
    BY QueryAssumption DEF Query
  <2>2. v \in Work
    BY <2>1, QueryAssumption DEF Work, Request, Answers, Answer, Scalars
  <2>3. Subject(v, "admit") /\ Verdict(v, "admit")
    BY DEF Request, Answer, Subject, Verdict, Decided
  <2>4. Present(v)
    <3>1. v.lowest <= settings.threshold
      BY DEF Request, Scalars
    <3>2. v.channel = channel /\ v.permitted = {i \in Intents : ~Blocks(allow[channel], i)}
      BY DEF Request
    <3> QED BY <3>1, <3>2 DEF Present
  <2>5. Told(v, "admit")
    BY DEF Request, Told, Scalars, Fetched
  <2>6. Held(v, "admit")
    BY <2>2, <2>3, <2>4, <2>5 DEF Held
  <2>7. "admit" \in Stages \ {"idle"}
    BY DEF Stages
  <2> QED BY <1>2, <2>6, <2>7, Moves DEF Receive, operators
<1> QED BY <1>1, <1>2 DEF Receive

LEMMA RefuseHeld ==
  ASSUME AllHeld, NEW t \in Threads, Refuse(t)
  PROVE  AllHeld'
BY Leaves DEF Refuse, operators

LEMMA MissHeld ==
  ASSUME AllHeld, NEW t \in Threads, Miss(t)
  PROVE  AllHeld'
<1>1. Held(work[t], "classify") /\ work \in [Threads -> Work \cup {NoResponse}]
  BY DEF AllHeld, Miss, Goto, Held, Subject, Verdict, Present, Told, Decided, Fetched, FreshPath
<1>2. "classify" \in Stages \ {"idle"} /\ work' = [work EXCEPT ![t] = work[t]]
  BY <1>1 DEF Stages, Miss
<1> QED BY <1>1, <1>2, Moves DEF Miss, operators

LEMMA HitHeld ==
  ASSUME AllHeld, CacheClean, NEW t \in Threads, Hit(t)
  PROVE  AllHeld'
<1> DEFINE w == work[t]
<1>1. Held(w, "admit")
  BY DEF AllHeld, Hit, Goto
<1>2. PICK i \in Hits(w.customer, w.query) :
        work' = [work EXCEPT ![t] = [w EXCEPT !.intent = cache[i].intent,
                  !.conf = cache[i].conf, !.answer = cache[i].answer]]
  BY DEF Hit
<1> DEFINE v == [w EXCEPT !.intent = cache[i].intent, !.conf = cache[i].conf,
                          !.answer = cache[i].answer]
<1>3. /\ cache[i] \in Entries /\ cache[i].scope = w.customer
      /\ cache[i].answer.customer = w.customer /\ ~cache[i].answer.query.badAnswer
  BY <1>2 DEF CacheClean, Hits
<1>4. v \in Work
  BY <1>1, <1>3 DEF Held, Work, Entries
<1>5. Held(v, "recall")
  BY <1>1, <1>3, <1>4 DEF Held, Work, Subject, Verdict, Present, Told, Decided, Fetched, FreshPath
<1> HIDE DEF v
<1>6. "recall" \in Stages \ {"idle"} /\ work' = [work EXCEPT ![t] = v]
  BY <1>2 DEF Stages, v
<1> QED BY <1>5, <1>6, Moves DEF Hit, operators

---------------------------------------------------------------------------
\* apply_guard, for every confidence, threshold, risk and amount: a decision,
\* and what must be the case for one that releases.

LEMMA GuardDecides ==
  ASSUME NEW conf \in 0..100, NEW threshold \in 0..100, NEW risk \in 0..100,
         NEW class \in Classes, NEW amount \in Int
  PROVE  LET d == Decide(conf, threshold, class, risk, amount) IN
         /\ d \in Decisions
         /\ d \in Releasing =>
              /\ class \in {"money", "info"}
              /\ threshold <= 99 => conf >= threshold
              /\ class = "money" => amount < CoafLine
<1> DEFINE e == Effective(threshold, risk)
           level == Confidence(conf, e)
<1>1. e \in Int /\ (threshold <= 99 => e >= threshold)
  <2>1. risk \div 5 \in Nat
    OBVIOUS
  <2> QED BY <2>1 DEF Effective
<1>2. level \in {"confident", "unsure", "lost"} /\ (level = "confident" => conf >= e)
  BY <1>1 DEF Confidence
<1>3. ByAmount(amount) \in {"ESCALATE", "FLAG", "PASSTHROUGH"}
  BY DEF ByAmount, NoAmount, CoafLine, ReviewLine
<1>4. ByAmount(amount) # "ESCALATE" => amount < CoafLine
  BY DEF ByAmount, NoAmount, CoafLine, ReviewLine
<1> HIDE DEF level, e
<1>5. CASE class \in {"safety", "fraud", "foreign"}
  BY <1>5 DEF Decide, Decisions, Releasing
<1>6. CASE class = "info"
  BY <1>1, <1>2, <1>6 DEF Decide, Decisions, Releasing, level, e
<1>7. CASE class = "money"
  BY <1>1, <1>2, <1>3, <1>4, <1>7 DEF Decide, Decisions, Releasing, level, e
<1> QED BY <1>5, <1>6, <1>7 DEF Classes

LEMMA WorkTypes ==
  ASSUME NEW w \in Work
  PROVE  /\ w.customer \in Customers /\ w.channel \in Channels /\ w.query \in Queries
         /\ w.intent \in Intents /\ w.conf \in 0..100 /\ w.lowest \in 10..95
         /\ w.conf \in Int /\ w.lowest \in Int
<1>1. /\ w.customer \in Customers /\ w.channel \in Channels /\ w.query \in Queries
      /\ w.intent \in Intents /\ w.conf \in 0..100 /\ w.lowest \in 10..95
  BY DEF Work
<1>2. \A n \in 0..100 : n \in Int
  OBVIOUS
<1>3. \A n \in 10..95 : n \in Int
  OBVIOUS
<1> QED BY <1>1, <1>2, <1>3

LEMMA GuardSaysSo ==
  ASSUME NEW w \in Work, NEW threshold \in 0..100, NEW risk \in {0, 85}
  PROVE  /\ GuardSays(w, threshold, risk) \in Decisions
         /\ GuardSays(w, threshold, risk) \in Releasing =>
              /\ ~Protected(w.intent)
              /\ threshold <= 99 => w.conf >= threshold
              /\ ClassOf[w.intent] = "money" => w.query.amount < CoafLine
<1>1. w.conf \in 0..100 /\ w.query.amount \in Int /\ ClassOf[w.intent] \in Classes
  BY QueryAssumption DEF Work, Query
<1>2. risk \in 0..100
  OBVIOUS
<1>3. ClassOf[w.intent] \in {"money", "info"} => ~Protected(w.intent)
  BY DEF Protected
<1> DEFINE conf == w.conf
           amount == w.query.amount
           class == ClassOf[w.intent]
<1>4. GuardSays(w, threshold, risk) = Decide(conf, threshold, class, risk, amount)
  BY DEF GuardSays
<1>5. conf \in 0..100 /\ amount \in Int /\ class \in Classes
  BY <1>1
<1> HIDE DEF conf, amount, class
<1>6. LET d == Decide(conf, threshold, class, risk, amount) IN
      /\ d \in Decisions
      /\ d \in Releasing =>
           /\ class \in {"money", "info"}
           /\ threshold <= 99 => conf >= threshold
           /\ class = "money" => amount < CoafLine
  BY <1>2, <1>5, GuardDecides
<1> QED BY <1>3, <1>4, <1>6 DEF conf, amount, class

\* A governed policy may pin or loosen what the guard says, but of the intents
\* it governs only.
LEMMA RulingDecides ==
  ASSUME NEW w \in Work, w.view # NoResponse, NEW risk \in {0, 85},
         settings.threshold \in 10..95
  PROVE  /\ Ruling(w, risk) \in Decisions
         /\ (\A p \in w.view : p.intent # w.intent) =>
              Ruling(w, risk) = GuardSays(w, settings.threshold, risk)
<1> DEFINE rules == {p \in w.view : p.intent = w.intent}
           p == CHOOSE r \in rules : TRUE
<1>1. w.view \in SUBSET Policy
  BY QueryAssumption DEF Work
<1>2. settings.threshold \in 0..100
  OBVIOUS
<1>3. CASE rules = {}
  BY <1>2, <1>3, GuardSaysSo DEF Ruling
<1>4. CASE rules # {}
  <2>1. p \in w.view /\ p.intent = w.intent
    BY <1>4
  <2>2. p.pin \in Decisions \cup {"none"} /\ p.threshold \in 0..100
    BY <2>1, <1>1 DEF Policy
  <2> HIDE DEF p
  <2>3. Ruling(w, risk) \in {p.pin} \/ p.pin = "none"
    BY <1>4 DEF Ruling, p
  <2>4. p.pin = "none" => Ruling(w, risk) \in
          {GuardSays(w, p.threshold, risk), GuardSays(w, settings.threshold, risk)}
    BY <1>4, <2>2 DEF Ruling, p
  <2>5. p.pin # "none" => Ruling(w, risk) \in Decisions
    BY <2>2, <2>3
  <2>6. p.pin = "none" => Ruling(w, risk) \in Decisions
    BY <2>2, <2>4, <1>2, GuardSaysSo
  <2> QED BY <2>1, <2>5, <2>6
<1> QED BY <1>3, <1>4

LEMMA FirewallStops ==
  ASSUME NEW w, NEW d \in Decisions, Firewalled(w, d) \in Releasing
  PROVE  ~Blocks(allow[w.channel], w.intent) /\ Firewalled(w, d) = d
BY DEF Firewalled, Releasing

LEMMA FirewallType ==
  ASSUME NEW w, NEW d \in Decisions
  PROVE  Firewalled(w, d) \in Decisions
BY DEF Firewalled, Decisions

LEMMA RecallHeld ==
  ASSUME AllHeld, Scalars, NEW t \in Threads, Recall(t)
  PROVE  AllHeld'
<1> DEFINE w == work[t]
           d == GuardSays(w, settings.threshold, 0)
           e == IF w.answer.query.badAnswer THEN "ESCALATE" ELSE Firewalled(w, d)
           v == [w EXCEPT !.decision = e]
<1>1. Held(w, "recall") /\ w \in Work /\ settings.threshold \in 10..95
  BY DEF AllHeld, Recall, Goto, Held, Scalars
<1>2. settings.threshold \in 0..100 /\ settings.threshold <= 99 /\ 0 \in {0, 85}
  BY <1>1
<1>3. d \in Decisions
  BY <1>1, <1>2, GuardSaysSo
<1>4. d \in Releasing => /\ w.conf >= settings.threshold
                         /\ ClassOf[w.intent] = "money" => w.query.amount < CoafLine
  BY <1>1, <1>2, GuardSaysSo
<1> HIDE DEF d
<1>5. e \in Decisions /\ (e \in Releasing =>
                            e = d /\ ~Blocks(allow[w.channel], w.intent))
  BY <1>3, FirewallStops, FirewallType DEF Decisions, Releasing
<1>6. work' = [work EXCEPT ![t] = v]
  BY <1>1 DEF Recall, AllHeld, d
<1> HIDE DEF e
<1>7. v \in Work
  BY <1>1, <1>5 DEF Work
<1>8. w.conf \in Int /\ w.lowest \in Int /\ w.intent \in Intents
  BY <1>1, WorkTypes
<1>9. Verdict(v, "relay")
  <2>1. v.decision = e /\ v.intent = w.intent /\ v.conf = w.conf /\ v.lowest = w.lowest
        /\ v.permitted = w.permitted /\ v.query = w.query
    BY <1>1 DEF Work
  <2>2. e \in Releasing => w.intent \in w.permitted /\ w.conf >= w.lowest
                           /\ (ClassOf[w.intent] = "money" => w.query.amount < CoafLine)
    BY <1>1, <1>4, <1>5, <1>8 DEF Held, Present
  <2> QED BY <1>5, <2>1, <2>2 DEF Verdict, Released, Decided
<1>10. Held(v, "relay")
  <2>1. w.answer = v.answer /\ w.customer = v.customer /\ w.query = v.query
        /\ w.intent = v.intent /\ w.channel = v.channel /\ w.permitted = v.permitted
        /\ w.lowest = v.lowest /\ w.asked = v.asked /\ w.view = v.view /\ w.readOk = v.readOk
    BY <1>1 DEF Work
  <2> HIDE DEF v, w
  <2>2. Subject(v, "relay")
    BY <1>1, <2>1 DEF Held, Subject, FreshPath
  <2>3. Present(v) /\ Told(v, "relay")
    BY <1>1, <2>1 DEF Held, Present, Told, Fetched
  <2> QED BY <1>7, <1>9, <2>2, <2>3 DEF Held
<1>11. "relay" \in Stages \ {"idle"}
  BY DEF Stages
<1> HIDE DEF v
<1> QED BY <1>6, <1>10, <1>11, Moves DEF Recall, operators

\* A thread that has read the policies, or is done with them, holds the same
\* request.
LEMMA Rereads ==
  ASSUME NEW w, NEW stage, NEW next, Held(w, stage),
         stage \in FreshPath \ Decided, next \in FreshPath \ Decided,
         NEW view \in Policies \cup {NoResponse}, NEW asked \in -1..MaxClock,
         NEW ok \in BOOLEAN,
         LET v == [w EXCEPT !.view = view, !.asked = asked, !.readOk = ok]
         IN Told(v, next)
  PROVE  LET v == [w EXCEPT !.view = view, !.asked = asked, !.readOk = ok]
         IN Held(v, next)
<1> DEFINE v == [w EXCEPT !.view = view, !.asked = asked, !.readOk = ok]
<1>1. w \in Work
  BY DEF Held
<1>2. v \in Work
  BY <1>1 DEF Work
<1>3. w.answer = v.answer /\ w.customer = v.customer /\ w.query = v.query
      /\ w.intent = v.intent /\ w.channel = v.channel /\ w.permitted = v.permitted
      /\ w.lowest = v.lowest
  BY <1>1 DEF Work
<1> HIDE DEF v
<1>4. stage \notin {"recall", "relay", "append"} /\ next \notin {"recall", "relay", "append"}
  BY DEF FreshPath, Decided
<1>5. Subject(v, next)
  BY <1>3, <1>4 DEF Held, Subject
<1>6. Verdict(v, next)
  BY <1>4 DEF Verdict
<1>7. Present(v)
  BY <1>3 DEF Held, Present
<1> QED BY <1>2, <1>5, <1>6, <1>7 DEF Held, v

LEMMA ReadHeld ==
  ASSUME AllHeld, Scalars, OverlayHonest, NEW t \in Threads, ReadOverlay(t)
  PROVE  AllHeld'
<1> DEFINE w == work[t]
           v == [w EXCEPT !.view = overlay.set, !.asked = clock, !.readOk = overlay.ok]
<1>1. pc[t] \in {"classify", "decide"} /\ Held(w, pc[t]) /\ w \in Work
  BY DEF AllHeld, Held, ReadOverlay, Consulting
<1>2. /\ overlay.set \in Policies \cup {NoResponse} /\ overlay.ok \in BOOLEAN
      /\ clock \in Int /\ overlay.at \in Int /\ applied.at \in Int /\ OverlayTTL \in Int
      /\ clock \in -1..MaxClock
  BY QueryAssumption DEF Scalars
<1>3. v.view = overlay.set /\ v.asked = clock /\ v.readOk = overlay.ok
  BY <1>1 DEF Work
<1>4. pc[t] \in FreshPath \ Decided /\ pc[t] \notin Fetched
  BY <1>1 DEF FreshPath, Decided, Fetched
<1>5. clock - overlay.at < OverlayTTL
  BY DEF ReadOverlay, OverlayFresh
<1>6. Told(v, pc[t])
  <2> HIDE DEF v, w
  <2>1. v.asked >= applied.at + OverlayTTL => overlay.at > applied.at
    BY <1>2, <1>3, <1>5
  <2> QED BY <1>2, <1>3, <1>4, <2>1 DEF Told, OverlayHonest
<1>7. Held(v, pc[t])
  BY <1>1, <1>2, <1>4, <1>6, Rereads
<1>8. work' = [work EXCEPT ![t] = v]
  BY <1>1 DEF ReadOverlay
<1>9. Goto(t, pc[t], pc[t]) /\ pc[t] \in Stages \ {"idle"}
  BY <1>1 DEF Goto, ReadOverlay, AllHeld
<1> HIDE DEF v
<1> QED BY <1>7, <1>8, <1>9, Moves DEF ReadOverlay, operators

LEMMA FetchHeld ==
  ASSUME AllHeld, Scalars, NEW t \in Threads, FetchOverlay(t)
  PROVE  AllHeld'
<1> DEFINE w == work[t]
           there == IF pc[t] = "classify" THEN "fetched1" ELSE "fetched2"
<1>1. pc[t] \in {"classify", "decide"} /\ Held(w, pc[t]) /\ w \in Work
  BY DEF AllHeld, Held, FetchOverlay, Consulting
<1>2. PICK ok \in {TRUE} \cup ReadFails :
        work' = [work EXCEPT ![t].view = IF ok THEN applied.set ELSE {},
                             ![t].asked = clock, ![t].readOk = ok]
  BY DEF FetchOverlay
<1> DEFINE view == IF ok THEN applied.set ELSE {}
           v == [w EXCEPT !.view = view, !.asked = clock, !.readOk = ok]
<1>3. /\ ok \in BOOLEAN /\ view \in Policies \cup {NoResponse} /\ clock \in -1..MaxClock
      /\ view # NoResponse /\ clock <= clock
  <2>1. ok \in BOOLEAN
    BY <1>2, QueryAssumption
  <2>2. applied.set \in Policies /\ {} \in Policies /\ NoResponse \notin Policies
    BY QueryAssumption DEF Scalars
  <2>3. clock \in -1..MaxClock /\ clock <= clock
    BY DEF Scalars
  <2> QED BY <2>1, <2>2, <2>3
<1>4. v.view = view /\ v.asked = clock /\ v.readOk = ok
  BY <1>1 DEF Work
<1>5. Told(v, there)
  <2> HIDE DEF v
  <2> QED BY <1>3, <1>4 DEF Told
<1>6. pc[t] \in FreshPath \ Decided /\ there \in FreshPath \ Decided
      /\ there \in Stages \ {"idle"}
  BY <1>1 DEF FreshPath, Decided, Stages
<1>7. work' = [work EXCEPT ![t] = v]
  BY <1>1, <1>2
<1> HIDE DEF there, view
<1>8. Held(v, there)
  BY <1>1, <1>3, <1>5, <1>6, Rereads
<1>9. Goto(t, pc[t], there)
  BY DEF FetchOverlay, there
<1> HIDE DEF v
<1> QED BY <1>6, <1>7, <1>8, <1>9, Moves DEF FetchOverlay, operators

LEMMA KeepHeld ==
  ASSUME AllHeld, Scalars, NEW t \in Threads, KeepOverlay(t)
  PROVE  AllHeld' /\ OverlayHonest'
<1> DEFINE w == work[t]
           there == IF pc[t] = "fetched1" THEN "classify" ELSE "decide"
<1>1. pc[t] \in Fetched /\ Held(w, pc[t]) /\ w \in Work
  BY DEF AllHeld, Held, KeepOverlay, Fetched
<1>2. Held(w, there)
  BY <1>1 DEF Held, Subject, Verdict, Present, Told, FreshPath, Decided, Fetched
<1>3. Goto(t, pc[t], there) /\ there \in Stages \ {"idle"}
      /\ work' = [work EXCEPT ![t] = w]
  BY DEF KeepOverlay, Stages, AllHeld
<1>4. OverlayHonest'
  <2> QED BY <1>1 DEF OverlayHonest, KeepOverlay, Held, Told, Fetched, operators
<1> QED BY <1>2, <1>3, <1>4, Moves DEF KeepOverlay, operators

LEMMA UnreadHeld ==
  ASSUME NEW w, NEW stage \in {"classify", "decide"}, Held(w, stage), Scalars
  PROVE  Held(Unread(w), "decide")
<1>1. w \in Work /\ clock \in Nat /\ -1 \in -1..MaxClock
  BY QueryAssumption DEF Held, Scalars
<1> DEFINE v == [w EXCEPT !.view = NoResponse, !.asked = -1, !.readOk = TRUE]
<1>2. v.view = NoResponse /\ v.asked = -1
  BY <1>1 DEF Work
<1>3. Told(v, "decide")
  <2> HIDE DEF v
  <2> QED BY <1>1, <1>2 DEF Told, Fetched
<1>4. stage \in FreshPath \ Decided /\ "decide" \in FreshPath \ Decided
  BY DEF FreshPath, Decided
<1>5. Held(v, "decide")
  BY <1>1, <1>3, <1>4, Rereads
<1> QED BY <1>5 DEF Unread

LEMMA ClassifyHeld ==
  ASSUME AllHeld, Scalars, NEW t \in Threads, Classify(t)
  PROVE  AllHeld'
<1> DEFINE w == work[t]
<1>1. Held(w, "classify") /\ w \in Work /\ Goto(t, "classify", "decide")
  BY DEF AllHeld, Held, Classify, Goto
<1>2. "decide" \in Stages \ {"idle"} /\ UNCHANGED <<clock, settings, allow, applied>>
  BY DEF Stages, Classify, operators
<1>3. CASE Protected(w.intent)
  <2>1. Held(w, "decide")
    BY <1>1 DEF Held, Subject, Verdict, Present, Told, FreshPath, Decided, Fetched
  <2>2. work' = [work EXCEPT ![t] = w]
    BY <1>3 DEF Classify, AllHeld
  <2> QED BY <1>1, <1>2, <2>1, <2>2, Moves
<1>4. CASE ~Protected(w.intent) /\ work' = [work EXCEPT ![t] = Unread(w)]
  <2>1. Held(Unread(w), "decide")
    BY <1>1, UnreadHeld
  <2> QED BY <1>1, <1>2, <1>4, <2>1, Moves
<1>5. ASSUME ~Protected(w.intent), w.view # NoResponse, NEW p \in Matching(w.query, w.view),
             work' = [work EXCEPT ![t] = [Unread(w) EXCEPT !.intent = p.intent,
                               !.conf = IF w.conf > 90 THEN w.conf ELSE 90]]
      PROVE  AllHeld'
  <2> DEFINE u == Unread(w)
             conf == IF w.conf > 90 THEN w.conf ELSE 90
             v == [u EXCEPT !.intent = p.intent, !.conf = conf]
  <2>1. p.intent \in Intents
    <3>1. w.view \in Policies
      BY <1>1, <1>5 DEF Work
    <3>2. p \in Policy
      BY <1>5, <3>1, QueryAssumption DEF Matching
    <3> QED BY <3>2 DEF Policy
  <2>2. conf \in 0..100
    BY <1>1, WorkTypes
  <2>3. Held(u, "decide") /\ u \in Work
    BY <1>1, UnreadHeld DEF Held
  <2>4. ~Protected(w.query.intent) /\ u.query = w.query
    BY <1>1, <1>5 DEF Held, Subject, FreshPath, Unread, Work
  <2> HIDE DEF u, conf
  <2>5. v \in Work
    BY <2>1, <2>2, <2>3 DEF Work
  <2>6. u.answer = v.answer /\ u.customer = v.customer /\ u.query = v.query
        /\ u.channel = v.channel /\ u.permitted = v.permitted
        /\ u.lowest = v.lowest /\ u.asked = v.asked /\ u.view = v.view /\ u.readOk = v.readOk
    BY <2>3 DEF Work
  <2>7. Held(v, "decide")
    <3> HIDE DEF v
    <3>1. Subject(v, "decide")
      BY <2>3, <2>4, <2>6 DEF Held, Subject
    <3>2. Verdict(v, "decide")
      BY DEF Verdict, Decided
    <3>3. Present(v) /\ Told(v, "decide")
      BY <2>3, <2>6 DEF Held, Present, Told
    <3> QED BY <2>5, <3>1, <3>2, <3>3 DEF Held
  <2>8. work' = [work EXCEPT ![t] = v]
    BY <1>5 DEF u, conf
  <2> HIDE DEF v
  <2> QED BY <1>1, <1>2, <2>7, <2>8, Moves
<1> QED BY <1>3, <1>4, <1>5 DEF Classify

\* The verdict of the fresh path, for the request as it was before the policies
\* were put away.
LEMMA Judges ==
  ASSUME NEW w, Held(w, "decide"), Scalars, NEW risk \in {0, 85},
         Protected(w.intent) \/ w.view # NoResponse
  PROVE  LET d == IF w.query.badAnswer THEN "ESCALATE"
                  ELSE Firewalled(w, GuardOrRuling(w, risk))
         IN /\ d \in Decisions
            /\ w.query.badAnswer => d = "ESCALATE"
            /\ d \in Releasing =>
                 /\ w.intent \in w.permitted
                 /\ ~Protected(w.query.intent)
                 /\ ~(w.view # NoResponse /\ \E p \in w.view : p.intent = w.intent) =>
                      w.conf >= w.lowest
                      /\ (ClassOf[w.intent] = "money" => w.query.amount < CoafLine)
<1> DEFINE g == GuardOrRuling(w, risk)
           s == GuardSays(w, settings.threshold, risk)
           d == IF w.query.badAnswer THEN "ESCALATE" ELSE Firewalled(w, g)
<1>1. w \in Work /\ settings.threshold \in 10..95
  BY DEF Held, Scalars
<1>2. w.conf \in Int /\ w.lowest \in Int /\ w.intent \in Intents
  BY <1>1, WorkTypes
<1>3. settings.threshold \in 0..100 /\ settings.threshold <= 99
  BY <1>1
<1>4. s \in Decisions /\ (s \in Releasing =>
         /\ ~Protected(w.intent) /\ w.conf >= settings.threshold
         /\ ClassOf[w.intent] = "money" => w.query.amount < CoafLine)
  BY <1>1, <1>3, GuardSaysSo
<1> HIDE DEF s
<1>5. g \in Decisions
  <2>1. CASE Protected(w.intent)
    BY <1>4, <2>1 DEF GuardOrRuling, s
  <2>2. CASE ~Protected(w.intent)
    BY <1>1, <2>2, RulingDecides DEF GuardOrRuling
  <2> QED BY <2>1, <2>2
<1>6. g \in Releasing => ~Protected(w.intent)
  BY <1>4 DEF GuardOrRuling, s
<1>7. ~Protected(w.intent) /\ (\A p \in w.view : p.intent # w.intent) => g = s
  BY <1>1, RulingDecides DEF GuardOrRuling, s
<1> HIDE DEF g
<1>8. d \in Decisions /\ (w.query.badAnswer => d = "ESCALATE")
  BY <1>5, FirewallType DEF Decisions
<1>9. d \in Releasing => g = d /\ ~Blocks(allow[w.channel], w.intent)
  BY <1>5, FirewallStops DEF Releasing
<1> HIDE DEF d
<1>10. ASSUME d \in Releasing
       PROVE  /\ w.intent \in w.permitted
              /\ ~Protected(w.query.intent)
  BY <1>2, <1>6, <1>9, <1>10 DEF Held, Present, Subject, FreshPath
<1>11. ASSUME d \in Releasing,
              ~(w.view # NoResponse /\ \E p \in w.view : p.intent = w.intent)
       PROVE  w.conf >= w.lowest /\ (ClassOf[w.intent] = "money" => w.query.amount < CoafLine)
  <2>1. ~Protected(w.intent)
    BY <1>6, <1>9, <1>11
  <2>2. g = s
    BY <1>7, <1>11, <2>1
  <2>3. w.lowest <= settings.threshold
    BY DEF Held, Present
  <2>4. s \in Releasing
    BY <1>9, <1>11, <2>2
  <2> QED BY <1>1, <1>2, <1>4, <2>3, <2>4
<1> QED BY <1>8, <1>10, <1>11 DEF d, g

LEMMA DecideHeld ==
  ASSUME AllHeld, Scalars, NEW t \in Threads, DecideFresh(t)
  PROVE  AllHeld'
<1> DEFINE w == work[t]
           u == Unread(w)
           ruled == w.view # NoResponse /\ \E p \in w.view : p.intent = w.intent
           D(risk) == IF w.query.badAnswer THEN "ESCALATE"
                      ELSE Firewalled(w, GuardOrRuling(w, risk))
<1>1. Held(w, "decide") /\ w \in Work /\ Goto(t, "decide", "store")
  BY DEF AllHeld, Held, DecideFresh, Goto
<1>2. PICK risk \in {0, 85} :
        work' = [work EXCEPT ![t] = [u EXCEPT !.decision = D(risk), !.ruled = ruled,
                                              !.blocked = w.query.badAnswer]]
  BY DEF DecideFresh
<1> DEFINE d == D(risk)
           v == [u EXCEPT !.decision = d, !.ruled = ruled, !.blocked = w.query.badAnswer]
<1>3. /\ d \in Decisions
      /\ w.query.badAnswer => d = "ESCALATE"
      /\ d \in Releasing =>
           /\ w.intent \in w.permitted
           /\ ~Protected(w.query.intent)
           /\ ~ruled => w.conf >= w.lowest
                        /\ (ClassOf[w.intent] = "money" => w.query.amount < CoafLine)
  BY <1>1, <1>2, Judges DEF DecideFresh
<1>4. Held(u, "decide") /\ u \in Work
  BY <1>1, UnreadHeld DEF Held
<1>5. /\ u.query = w.query /\ u.intent = w.intent /\ u.permitted = w.permitted
      /\ u.conf = w.conf /\ u.lowest = w.lowest
  BY <1>1 DEF Unread, Work
<1>6. ruled \in BOOLEAN /\ w.query.badAnswer \in BOOLEAN
  BY <1>1, QueryAssumption, WorkTypes DEF Query
<1>7. work' = [work EXCEPT ![t] = v]
  BY <1>2
<1> HIDE DEF d, D, u, ruled
<1>8. v \in Work
  BY <1>3, <1>4, <1>6 DEF Work
<1>9. /\ u.answer = v.answer /\ u.customer = v.customer /\ u.query = v.query
      /\ u.intent = v.intent /\ u.channel = v.channel /\ u.permitted = v.permitted
      /\ u.lowest = v.lowest /\ u.asked = v.asked /\ u.view = v.view /\ u.readOk = v.readOk
      /\ u.conf = v.conf /\ v.decision = d /\ v.ruled = ruled /\ v.blocked = w.query.badAnswer
  BY <1>4 DEF Work
<1> HIDE DEF v
<1>10. Verdict(v, "store")
  BY <1>3, <1>5, <1>9 DEF Verdict, Decided, Released, Releasing
<1>11. Subject(v, "store") /\ Present(v) /\ Told(v, "store")
  BY <1>4, <1>9 DEF Held, Subject, Present, Told, FreshPath, Fetched
<1>12. Held(v, "store")
  BY <1>8, <1>10, <1>11 DEF Held
<1>13. "store" \in Stages \ {"idle"} /\ UNCHANGED <<clock, settings, allow, applied>>
  BY DEF Stages, DecideFresh, operators
<1> QED BY <1>1, <1>7, <1>12, <1>13, Moves

LEMMA WalkersWalk == Walking \in SUBSET Threads /\ \A t \in Walking : pc[t] = "admit"
BY DEF Walking

LEMMA EvictHeld ==
  ASSUME AllHeld, NEW t \in Threads, Evict(t)
  PROVE  AllHeld'
<1> DEFINE keeps == Cacheable(work[t])
           full == keeps /\ Len(cache) >= CacheSize
           there == IF keeps THEN "append" ELSE "respond"
<1>1. Held(work[t], "store")
  BY DEF AllHeld, Evict
<1>2. Held(work[t], there)
  BY <1>1 DEF Held, Subject, Verdict, Told, FreshPath, Decided, Fetched, Cacheable, Released
<1>3. PICK broken \in SUBSET (IF full THEN Walking ELSE {}) :
        Break(broken, [pc EXCEPT ![t] = there])
  BY DEF Evict
<1>4. broken \in SUBSET Threads /\ there \in Stages \ {"idle"} /\ pc[t] # "idle"
  BY <1>3, WalkersWalk DEF Stages, Evict
<1> HIDE DEF there
<1> QED BY <1>2, <1>3, <1>4, Breaks DEF Evict, operators

LEMMA RememberHeld ==
  ASSUME AllHeld, NEW t \in Threads, Remember(t)
  PROVE  AllHeld'
<1>1. Held(work[t], "append")
  BY DEF AllHeld, Remember
<1>2. Held(work[t], "respond")
  BY <1>1 DEF Held, Subject, Verdict, Told, FreshPath, Decided, Fetched
<1>3. PICK broken \in SUBSET Walking : Break(broken, [pc EXCEPT ![t] = "respond"])
  BY DEF Remember
<1>4. broken \in SUBSET Threads /\ "respond" \in Stages \ {"idle"} /\ pc[t] # "idle"
  BY <1>3, WalkersWalk DEF Stages, Remember
<1> QED BY <1>2, <1>3, <1>4, Breaks DEF Remember, operators

LEMMA LeavingHeld ==
  ASSUME AllHeld, NEW t \in Threads, Relay(t) \/ Respond(t)
  PROVE  AllHeld'
<1>1. CASE Relay(t)
  BY <1>1, Leaves DEF Relay, operators
<1>2. CASE Respond(t)
  BY <1>2, Leaves DEF Respond, operators
<1> QED BY <1>1, <1>2

---------------------------------------------------------------------------
(* What operators do to the requests under way. *)

LEMMA ThresholdHeld ==
  ASSUME AllHeld, Scalars, NEW n \in 10..95, SetThreshold(n)
  PROVE  AllHeld'
<1> DEFINE lowered(w) == [w EXCEPT !.lowest = IF n < @ THEN n ELSE @]
<1>1. work' = [t \in Threads |-> IF pc[t] = "idle" THEN work[t] ELSE lowered(work[t])]
  BY DEF SetThreshold, Witness
<1>2. ASSUME NEW w, NEW stage, Held(w, stage)
      PROVE  Held(lowered(w), stage)'
  <2> DEFINE low == IF n < w.lowest THEN n ELSE w.lowest
             v == [w EXCEPT !.lowest = low]
  <2>1. w \in Work /\ w.lowest \in 10..95 /\ w.lowest \in Int /\ w.conf \in Int /\ n \in Int
    BY <1>2, WorkTypes DEF Held
  <2>2. low \in {n, w.lowest} /\ low <= n /\ low <= w.lowest
    BY <2>1
  <2>3. low \in 10..95 /\ low \in Int
    BY <2>1, <2>2
  <2> HIDE DEF low
  <2>4. v \in Work
    BY <2>1, <2>3 DEF Work
  <2>5. /\ v.lowest = low /\ v.answer = w.answer /\ v.customer = w.customer /\ v.query = w.query
        /\ v.intent = w.intent /\ v.channel = w.channel /\ v.permitted = w.permitted
        /\ v.asked = w.asked /\ v.view = w.view /\ v.readOk = w.readOk
        /\ v.conf = w.conf /\ v.decision = w.decision /\ v.ruled = w.ruled
        /\ v.blocked = w.blocked
    BY <2>1 DEF Work
  <2>6. settings'.threshold = n /\ UNCHANGED <<clock, allow, applied>>
    BY DEF SetThreshold, Scalars
  <2> HIDE DEF v
  <2>7. Subject(v, stage) /\ Told(v, stage)'
    BY <1>2, <2>1, <2>5, <2>6 DEF Held, Subject, Told
  <2>8. Verdict(v, stage)
    BY <1>2, <2>1, <2>2, <2>3, <2>5 DEF Held, Verdict, Released
  <2>9. Present(v)'
    BY <1>2, <2>1, <2>2, <2>3, <2>5, <2>6 DEF Held, Present
  <2> QED BY <2>4, <2>7, <2>8, <2>9 DEF Held, Subject, Verdict, v, low
<1>3. pc' = pc
  BY DEF SetThreshold
<1> HIDE DEF lowered
<1>4. AllHeld'
  <2>1. \A w, stage : Held(w, stage)' => w \in Work
    BY DEF Held
  <2> QED BY <1>1, <1>2, <1>3, <2>1 DEF AllHeld
<1> QED BY <1>4

LEMMA AllowListHeld ==
  ASSUME AllHeld, Scalars, NEW channel \in Channels, NEW list \in AllowLists,
         ApplyAllowList(channel, list)
  PROVE  AllHeld'
<1> DEFINE granted == {i \in Intents : ~Blocks(list, i)}
           widened(w) == IF w.channel # channel THEN w
                         ELSE [w EXCEPT !.permitted = @ \cup granted]
<1>1. work' = [t \in Threads |-> IF pc[t] = "idle" THEN work[t] ELSE widened(work[t])]
  BY DEF ApplyAllowList, Witness
<1>2. ASSUME NEW w, NEW stage, Held(w, stage)
      PROVE  Held(widened(w), stage)'
  <2> DEFINE v == widened(w)
  <2>1. w \in Work /\ w.permitted \in SUBSET Intents /\ w.channel \in Channels
    BY <1>2 DEF Held, Work
  <2>2. v \in Work
    BY <2>1 DEF Work
  <2>3. /\ v.permitted = IF w.channel # channel THEN w.permitted ELSE w.permitted \cup granted
        /\ v.answer = w.answer /\ v.customer = w.customer /\ v.query = w.query
        /\ v.intent = w.intent /\ v.channel = w.channel /\ v.lowest = w.lowest
        /\ v.asked = w.asked /\ v.view = w.view /\ v.readOk = w.readOk
        /\ v.conf = w.conf /\ v.decision = w.decision /\ v.ruled = w.ruled
        /\ v.blocked = w.blocked
    BY <2>1 DEF Work
  <2>4. /\ \A h \in Channels : allow'[h] = IF h = channel THEN list ELSE allow[h]
        /\ UNCHANGED <<clock, settings, applied>>
    BY DEF ApplyAllowList, Scalars
  <2> HIDE DEF v
  <2>5. Subject(v, stage) /\ Told(v, stage)'
    BY <1>2, <2>3, <2>4 DEF Held, Subject, Told
  <2>6. Verdict(v, stage)
    BY <1>2, <2>3 DEF Held, Verdict, Released
  <2>7. Present(v)'
    BY <1>2, <2>1, <2>3, <2>4 DEF Held, Present
  <2> QED BY <2>2, <2>5, <2>6, <2>7 DEF Held, Subject, Verdict, v
<1>3. pc' = pc
  BY DEF ApplyAllowList
<1> HIDE DEF widened
<1>4. AllHeld'
  <2>1. \A w, stage : Held(w, stage)' => w \in Work
    BY DEF Held
  <2> QED BY <1>1, <1>2, <1>3, <2>1 DEF AllHeld
<1> QED BY <1>4

\* Policies applied now were asked for by nobody a lifetime ago.
LEMMA PoliciesHeld ==
  ASSUME AllHeld, Scalars, NEW set \in Policies, ApplyPolicies(set)
  PROVE  AllHeld'
<1>1. applied'.at = clock /\ clock \in Int /\ OverlayTTL \in Int
  BY QueryAssumption DEF ApplyPolicies, Scalars
<1>2. ASSUME NEW w, NEW stage, Held(w, stage)
      PROVE  Held(w, stage)'
  <2>1. w.asked <= clock /\ w.asked \in Int
    BY <1>2 DEF Held, Told, Work
  <2>2. Told(w, stage)'
    BY <1>1, <1>2, <2>1 DEF Held, Told, ApplyPolicies
  <2> QED BY <1>2, <2>2 DEF Held, Subject, Verdict, Present, ApplyPolicies
<1> QED BY <1>2 DEF AllHeld, ApplyPolicies

LEMMA ClearHeld ==
  ASSUME AllHeld, ClearCache
  PROVE  AllHeld'
<1>1. PICK broken \in SUBSET Walking : Break(broken, pc)
  BY DEF ClearCache
<1>2. broken \in SUBSET Threads
  BY WalkersWalk
<1>3. \A w, stage : Held(w, stage) => Held(w, stage)'
  BY DEF Held, Subject, Verdict, Present, Told, ClearCache
<1>4. \A t \in Threads : pc'[t] # "idle" => Held(work'[t], pc'[t])
  BY <1>1, <1>2 DEF AllHeld, Break
<1>5. pc' \in [Threads -> Stages] /\ work' \in [Threads -> Work \cup {NoResponse}]
      /\ \A t \in Threads : pc'[t] = "idle" => work'[t] = NoResponse
  BY <1>1, <1>2 DEF AllHeld, Break, Stages
<1> QED BY <1>3, <1>4, <1>5 DEF AllHeld

LEMMA TickHeld ==
  ASSUME AllHeld, Scalars, Tick \/ ToggleCache \/ UNCHANGED vars
  PROVE  AllHeld'
<1>1. /\ clock <= clock' /\ clock \in Int /\ clock' \in Int
      /\ settings'.threshold = settings.threshold
      /\ UNCHANGED <<allow, applied, pc, work>>
  BY DEF Tick, ToggleCache, vars, Scalars
<1>2. ASSUME NEW w, NEW stage, Held(w, stage)
      PROVE  Held(w, stage)'
  <2>1. w.asked \in Int
    BY <1>2 DEF Held, Work
  <2>2. Told(w, stage)'
    BY <1>1, <1>2, <2>1 DEF Held, Told
  <2> QED BY <1>1, <1>2, <2>2 DEF Held, Subject, Verdict, Present
<1> QED BY <1>1, <1>2 DEF AllHeld

---------------------------------------------------------------------------
(* The settings, the overlay and the cache. *)

LEMMA SliderRange ==
  /\ 1 \in DOMAIN Thresholds /\ Thresholds[1] \in 10..95
  /\ \A i \in DOMAIN Thresholds : Thresholds[i] \in 10..95
<1>1. Thresholds \in Seq(10..95) /\ Thresholds # <<>>
  BY QueryAssumption
<1>2. 1 \in 1..Len(Thresholds) /\ DOMAIN Thresholds = 1..Len(Thresholds)
  BY <1>1
<1>3. \A i \in 1..Len(Thresholds) : Thresholds[i] \in 10..95
  BY <1>1, ElementOfSeq
<1> QED BY <1>2, <1>3

\* What a step of a thread leaves alone, whatever the step.
LEMMA StepFrame ==
  ASSUME NEW t \in Threads, Step(t)
  PROVE  /\ UNCHANGED <<clock, settings, allow, applied, requests, changes>>
         /\ KeepOverlay(t) \/ UNCHANGED overlay
         /\ Evict(t) \/ Remember(t) \/ UNCHANGED cache
         /\ Refuse(t) \/ Relay(t) \/ Respond(t) \/ UNCHANGED <<idem, out>>
<1>1. CASE Refuse(t)
  BY <1>1 DEF Refuse, operators
<1>2. CASE Miss(t)
  BY <1>2 DEF Miss, operators
<1>3. CASE Hit(t)
  BY <1>3 DEF Hit, operators
<1>4. CASE Recall(t)
  BY <1>4 DEF Recall, operators
<1>5. CASE Relay(t)
  BY <1>5 DEF Relay, operators
<1>6. CASE ReadOverlay(t)
  BY <1>6 DEF ReadOverlay, operators
<1>7. CASE FetchOverlay(t)
  BY <1>7 DEF FetchOverlay, operators
<1>8. CASE KeepOverlay(t)
  BY <1>8 DEF KeepOverlay, operators
<1>9. CASE Classify(t)
  BY <1>9 DEF Classify, operators
<1>10. CASE DecideFresh(t)
  BY <1>10 DEF DecideFresh, operators
<1>11. CASE Evict(t)
  BY <1>11 DEF Evict, operators
<1>12. CASE Remember(t)
  BY <1>12 DEF Remember, operators
<1>13. CASE Respond(t)
  BY <1>13 DEF Respond, operators
<1> QED BY <1>1, <1>2, <1>3, <1>4, <1>5, <1>6, <1>7, <1>8, <1>9, <1>10, <1>11, <1>12, <1>13 DEF Step

LEMMA OneMore ==
  ASSUME Scalars
  PROVE  /\ requests < MaxRequests => requests + 1 \in 0..MaxRequests
         /\ changes < MaxChanges => changes + 1 \in 0..MaxChanges
<1>1. MaxRequests \in Nat /\ MaxChanges \in Nat
  BY QueryAssumption
<1>2. requests \in 0..MaxRequests /\ changes \in 0..MaxChanges
  BY DEF Scalars
<1> QED BY <1>1, <1>2

LEMMA ScalarsStep ==
  ASSUME AllHeld, Scalars, [Next]_vars
  PROVE  Scalars'
<1>1. ASSUME NEW t \in Threads, Step(t) PROVE Scalars'
  <2>1. ASSUME KeepOverlay(t) PROVE Scalars'
    <3>1. pc[t] \in Fetched /\ pc[t] # "idle"
      BY <2>1 DEF KeepOverlay, Fetched
    <3>2. work[t] \in Work /\ work[t].view # NoResponse /\ work[t].asked <= clock
      BY <3>1 DEF AllHeld, Held, Told
    <3>3. /\ work[t].view \in Policies /\ work[t].readOk \in BOOLEAN
          /\ work[t].asked \in -1..MaxClock
      BY <3>2 DEF Work
    <3>4. work[t].asked \in (-OverlayTTL)..clock
      BY <3>2, <3>3, QueryAssumption DEF Scalars
    <3> QED BY <2>1, <3>3, <3>4 DEF Scalars, KeepOverlay, operators
  <2>2. CASE ~KeepOverlay(t)
    <3>1. UNCHANGED <<clock, settings, allow, applied, overlay, requests, changes>>
      BY <1>1, <2>2, StepFrame
    <3> QED BY <3>1 DEF Scalars
  <2> QED BY <2>1, <2>2
<1>2. ASSUME NEW t \in Threads, NEW c \in Customers, NEW h \in Channels,
             NEW k \in Keys \cup {NoKey}, NEW q \in Queries, Receive(t, c, h, k, q)
      PROVE  Scalars'
  <2>1. requests' \in 0..MaxRequests
    BY <1>2, OneMore DEF Receive
  <2> QED BY <1>2, <2>1 DEF Receive, Scalars, operators
<1>3. ASSUME NEW i \in DOMAIN Thresholds, SetThreshold(Thresholds[i]) PROVE Scalars'
  <2>1. Thresholds[i] \in 10..95 /\ changes' \in 0..MaxChanges
    <3>1. changes < MaxChanges /\ changes' = changes + 1
      BY <1>3 DEF SetThreshold, Change
    <3> QED BY <3>1, SliderRange, OneMore
  <2>2. settings' \in [threshold : 10..95, cacheOn : BOOLEAN]
    BY <1>3, <2>1 DEF SetThreshold, Scalars
  <2> QED BY <1>3, <2>1, <2>2 DEF SetThreshold, Scalars
<1>4. CASE ToggleCache
  <2>1. changes' \in 0..MaxChanges
    BY <1>4, OneMore DEF ToggleCache, Change
  <2>2. settings' \in [threshold : 10..95, cacheOn : BOOLEAN]
    BY <1>4 DEF ToggleCache, Scalars
  <2> QED BY <1>4, <2>1, <2>2 DEF ToggleCache, Scalars
<1>5. CASE ClearCache
  <2>1. changes' \in 0..MaxChanges
    <3>1. changes < MaxChanges /\ changes' = changes + 1
      BY <1>5 DEF ClearCache, Change
    <3> QED BY <3>1, OneMore
  <2> QED BY <1>5, <2>1 DEF ClearCache, Scalars
<1>6. ASSUME NEW h \in Channels, NEW list \in AllowLists, ApplyAllowList(h, list)
      PROVE  Scalars'
  <2>1. changes' \in 0..MaxChanges
    <3>1. changes < MaxChanges /\ changes' = changes + 1
      BY <1>6 DEF ApplyAllowList, Change
    <3> QED BY <3>1, OneMore
  <2> QED BY <1>6, <2>1 DEF ApplyAllowList, Scalars
<1>7. ASSUME NEW set \in Policies, ApplyPolicies(set) PROVE Scalars'
  <2>1. changes' \in 0..MaxChanges
    <3>1. changes < MaxChanges /\ changes' = changes + 1
      BY <1>7 DEF ApplyPolicies, Change
    <3> QED BY <3>1, OneMore
  <2> QED BY <1>7, <2>1 DEF ApplyPolicies, Scalars
<1>8. CASE Tick
  <2>1. clock' \in 0..MaxClock /\ clock <= clock' /\ clock \in Int /\ clock' \in Int
    BY <1>8, QueryAssumption DEF Tick, Scalars
  <2> QED BY <1>8, <2>1, QueryAssumption DEF Tick, Scalars
<1>9. CASE UNCHANGED vars
  BY <1>9 DEF vars, Scalars
<1> QED BY <1>1, <1>2, <1>3, <1>4, <1>5, <1>6, <1>7, <1>8, <1>9 DEF Next

LEMMA OverlayStep ==
  ASSUME AllHeld, Scalars, OverlayHonest, [Next]_vars
  PROVE  OverlayHonest'
<1>1. ASSUME NEW t \in Threads, KeepOverlay(t) PROVE OverlayHonest'
  BY <1>1, KeepHeld
<1>2. ASSUME NEW set \in Policies, ApplyPolicies(set) PROVE OverlayHonest'
  <2>1. overlay.at <= clock /\ overlay.at \in Int /\ clock \in Int
    BY QueryAssumption DEF Scalars
  <2> QED BY <1>2, <2>1 DEF ApplyPolicies, OverlayHonest
<1>3. CASE UNCHANGED <<overlay, applied>>
  BY <1>3 DEF OverlayHonest
<1>4. ASSUME NEW t \in Threads, Step(t) PROVE OverlayHonest'
  BY <1>1, <1>3, <1>4, StepFrame
<1>5. ASSUME NEW t \in Threads, NEW c \in Customers, NEW h \in Channels,
             NEW k \in Keys \cup {NoKey}, NEW q \in Queries, Receive(t, c, h, k, q)
      PROVE  OverlayHonest'
  BY <1>3, <1>5 DEF Receive, operators
<1>6. ASSUME NEW i \in DOMAIN Thresholds, SetThreshold(Thresholds[i]) PROVE OverlayHonest'
  BY <1>3, <1>6 DEF SetThreshold
<1>7. ASSUME NEW h \in Channels, NEW list \in AllowLists, ApplyAllowList(h, list)
      PROVE  OverlayHonest'
  BY <1>3, <1>7 DEF ApplyAllowList
<1>8. CASE ToggleCache \/ ClearCache \/ Tick \/ UNCHANGED vars
  BY <1>3, <1>8 DEF ToggleCache, ClearCache, Tick, vars
<1> QED BY <1>2, <1>4, <1>5, <1>6, <1>7, <1>8 DEF Next

LEMMA CacheStep ==
  ASSUME AllHeld, Scalars, CacheClean, [Next]_vars
  PROVE  CacheClean'
<1>1. ASSUME NEW t \in Threads, Evict(t) PROVE CacheClean'
  <2>1. CASE cache' = cache
    BY <2>1 DEF CacheClean
  <2>2. CASE cache' = Tail(cache) /\ cache # <<>>
    <3>1. /\ cache' \in Seq(Entries) /\ Len(cache') = Len(cache) - 1
          /\ \A i \in 1..Len(cache') : cache'[i] = cache[i + 1]
      BY <2>2, HeadTailProperties DEF CacheClean
    <3>2. DOMAIN cache' = 1..Len(cache') /\ DOMAIN cache = 1..Len(cache) /\ Len(cache) \in Nat
      BY <3>1 DEF CacheClean
    <3>3. \A i \in 1..Len(cache') : i + 1 \in 1..Len(cache)
      BY <3>1, <3>2
    <3> QED BY <3>1, <3>2, <3>3 DEF CacheClean
  <2>3. Len(cache) >= CacheSize => cache # <<>>
    BY QueryAssumption
  <2> QED BY <1>1, <2>1, <2>2, <2>3 DEF Evict
<1>2. ASSUME NEW t \in Threads, Remember(t) PROVE CacheClean'
  <2> DEFINE w == work[t]
             e == [scope |-> w.customer, query |-> w.query, answer |-> w.answer,
                   intent |-> w.intent, conf |-> w.conf, at |-> clock]
  <2>1. Held(w, "append") /\ w \in Work
    BY <1>2 DEF Remember, AllHeld, Held
  <2>2. e \in Entries
    BY <2>1, WorkTypes DEF Entries, Scalars, Work
  <2>3. w.answer.customer = w.customer /\ w.answer.query = w.query
    BY <2>1 DEF Held, Subject, FreshPath
  <2>4. ~w.query.badAnswer
    BY <2>1 DEF Held, Verdict, Decided, Released, Releasing
  <2>5. e.answer.customer = e.scope /\ ~e.answer.query.badAnswer
    BY <2>3, <2>4
  <2>6. cache' = Append(cache, e)
    BY <1>2 DEF Remember
  <2> HIDE DEF e
  <2>7. /\ cache' \in Seq(Entries) /\ Len(cache') = Len(cache) + 1 /\ Len(cache) \in Nat
        /\ \A i \in 1..Len(cache) : cache'[i] = cache[i]
        /\ cache'[Len(cache) + 1] = e
    BY <2>2, <2>6, AppendProperties DEF CacheClean
  <2>8. DOMAIN cache' = 1..Len(cache') /\ DOMAIN cache = 1..Len(cache)
    BY <2>7 DEF CacheClean
  <2>9. \A i \in 1..Len(cache') : i \in 1..Len(cache) \/ i = Len(cache) + 1
    BY <2>7
  <2> QED BY <2>5, <2>7, <2>8, <2>9 DEF CacheClean
<1>3. CASE ClearCache
  BY <1>3 DEF ClearCache, CacheClean
<1>4. CASE UNCHANGED cache
  BY <1>4 DEF CacheClean
<1>5. ASSUME NEW t \in Threads, Step(t) PROVE CacheClean'
  BY <1>1, <1>2, <1>4, <1>5, StepFrame
<1>6. ASSUME NEW t \in Threads, NEW c \in Customers, NEW h \in Channels,
             NEW k \in Keys \cup {NoKey}, NEW q \in Queries, Receive(t, c, h, k, q)
      PROVE  CacheClean'
  BY <1>4, <1>6 DEF Receive
<1>7. ASSUME NEW i \in DOMAIN Thresholds, SetThreshold(Thresholds[i]) PROVE CacheClean'
  BY <1>4, <1>7 DEF SetThreshold
<1>8. ASSUME NEW h \in Channels, NEW list \in AllowLists, ApplyAllowList(h, list)
      PROVE  CacheClean'
  BY <1>4, <1>8 DEF ApplyAllowList
<1>9. ASSUME NEW set \in Policies, ApplyPolicies(set) PROVE CacheClean'
  BY <1>4, <1>9 DEF ApplyPolicies
<1>10. CASE ToggleCache \/ Tick \/ UNCHANGED vars
  BY <1>4, <1>10 DEF ToggleCache, Tick, vars
<1> QED BY <1>3, <1>5, <1>6, <1>7, <1>8, <1>9, <1>10 DEF Next

---------------------------------------------------------------------------
(* What customers are sent. *)

\* What a response may say, and what the audit says of it.
Sincere(r) ==
  /\ r.content \in {"answer", "banner"} =>
       r.answer.customer = r.customer /\ ~r.answer.query.badAnswer
  /\ r.via \in {"fresh", "cache"} /\ r.decision \in Releasing =>
       /\ r.intent \in r.permitted
       /\ ~r.ruled => r.conf >= r.lowest
                      /\ (ClassOf[r.intent] = "money" => r.query.amount < CoafLine)
  /\ r.via # "replay" =>
       /\ Len(r.logged) = 1 /\ r.logged[1].decision = r.decision
       /\ r.via # "refused" => (r.logged[1].withheld <=> r.content = "notice")
  /\ r.via = "fresh" /\ Protected(r.query.intent) => r.decision \notin Releasing

Kept == [response : Sent, expiry : Nat]

\* A response kept for replay is kept under the customer and the channel it
\* was sent to.
AllSincere ==
  /\ out \in [Threads -> Sent \cup {NoResponse}]
  /\ idem \in [IdemKeys -> Kept \cup {NoResponse}]
  /\ \A t \in Threads : out[t] # NoResponse => Sincere(out[t])
  /\ \A k \in IdemKeys : idem[k] # NoResponse =>
       Sincere(idem[k].response) /\ idem[k].response.customer = k[1]

LogEntries == [decision : Decisions, withheld : BOOLEAN]

LEMMA Speaks ==
  ASSUME NEW w \in Work, w.decision \in Decisions, NEW e \in LogEntries,
         NEW content \in {"answer", "banner", "notice"},
         NEW via \in {"fresh", "cache", "refused", "replay"},
         NEW r, r = Response([w EXCEPT !.logged = Append(@, e)], content, via)
  PROVE  /\ r \in Sent /\ Len(r.logged) = 1 /\ r.logged[1] = e
         /\ r.content = content /\ r.via = via /\ r.answer = w.answer
         /\ r.customer = w.customer /\ r.query = w.query /\ r.decision = w.decision
         /\ r.intent = w.intent /\ r.permitted = w.permitted /\ r.lowest = w.lowest
         /\ r.conf = w.conf /\ r.ruled = w.ruled
<1> DEFINE u == [w EXCEPT !.logged = Append(@, e)]
<1>1. r = Response(u, content, via)
  OBVIOUS
<1>2. w.logged = <<>>
  BY DEF Work
<1>3. Append(w.logged, e) = <<e>> /\ <<e>> \in Seq(LogEntries)
      /\ Len(<<e>>) = 1 /\ <<e>>[1] = e
  BY <1>2
<1>4. u.logged = <<e>> /\ u.answer = w.answer /\ u.customer = w.customer
      /\ u.query = w.query /\ u.decision = w.decision /\ u.intent = w.intent
      /\ u.permitted = w.permitted /\ u.lowest = w.lowest /\ u.conf = w.conf
      /\ u.ruled = w.ruled /\ u.channel = w.channel
  BY <1>3 DEF Work
<1> HIDE DEF u
<1>5. r \in Sent
  BY <1>1, <1>3, <1>4 DEF Response, Sent, Work, LogEntries
<1> QED BY <1>1, <1>3, <1>4, <1>5 DEF Response

LEMMA SendsOne ==
  ASSUME AllSincere, NEW t \in Threads, NEW r \in Sent, Sincere(r), Reply(t, r),
         \/ UNCHANGED idem
         \/ \E k \in IdemKeys, n \in Nat :
              /\ r.customer = k[1]
              /\ idem' = [idem EXCEPT ![k] = [response |-> r, expiry |-> n]]
  PROVE  AllSincere'
<1>1. /\ out' \in [Threads -> Sent \cup {NoResponse}]
      /\ \A u \in Threads : out'[u] = out[u] \/ out'[u] = r
  BY DEF AllSincere, Reply
<1>2. CASE UNCHANGED idem
  BY <1>1, <1>2 DEF AllSincere, Sincere
<1>3. ASSUME NEW k \in IdemKeys, NEW n \in Nat, r.customer = k[1],
             idem' = [idem EXCEPT ![k] = [response |-> r, expiry |-> n]]
      PROVE  AllSincere'
  <2>1. [response |-> r, expiry |-> n] \in Kept
    BY DEF Kept
  <2>2. /\ idem' \in [IdemKeys -> Kept \cup {NoResponse}]
        /\ \A l \in IdemKeys : idem'[l] = idem[l] \/
              (l = k /\ idem'[l].response = r)
    BY <1>3, <2>1 DEF AllSincere
  <2> QED BY <1>1, <1>3, <2>2 DEF AllSincere, Sincere
<1> QED BY <1>2, <1>3

LEMMA RefuseSincere ==
  ASSUME AllHeld, AllSincere, NEW t \in Threads, Refuse(t)
  PROVE  AllSincere'
<1> DEFINE w == [work[t] EXCEPT !.decision = "ESCALATE"]
           e == Entry("ESCALATE", FALSE)
           r == Response([w EXCEPT !.logged = Append(@, e)], "notice", "refused")
<1>1. work[t] \in Work
  BY DEF AllHeld, Held, Refuse, Goto
<1>2. w \in Work /\ w.decision = "ESCALATE" /\ w.decision \in Decisions
  BY <1>1 DEF Work, Decisions
<1>3. e \in LogEntries /\ e.decision = "ESCALATE"
  BY DEF Entry, LogEntries, Decisions
<1>4. [w EXCEPT !.logged = Append(@, e)]
        = [work[t] EXCEPT !.decision = "ESCALATE", !.logged = Append(@, e)]
  BY <1>1 DEF Work
<1>5. Reply(t, r) /\ UNCHANGED idem
  BY <1>4 DEF Refuse
<1> HIDE DEF w, e
<1>6. r \in Sent /\ r.content = "notice" /\ r.via = "refused" /\ Len(r.logged) = 1
      /\ r.logged[1] = e /\ r.decision = w.decision
  <2>1. r = Response([w EXCEPT !.logged = Append(@, e)], "notice", "refused")
    OBVIOUS
  <2> HIDE DEF r
  <2> QED BY <1>2, <1>3, <2>1, Speaks
<1> HIDE DEF r
<1>7. Sincere(r)
  BY <1>2, <1>3, <1>6 DEF Sincere
<1> QED BY <1>5, <1>6, <1>7, SendsOne

LEMMA RelaySincere ==
  ASSUME AllHeld, AllSincere, NEW t \in Threads, Relay(t)
  PROVE  AllSincere'
<1> DEFINE w == work[t]
           free == w.decision \in Releasing
           content == IF free THEN "answer" ELSE "notice"
           e == Entry(w.decision, ~free)
           r == Response([w EXCEPT !.logged = Append(@, e)], content, "cache")
<1>1. Held(w, "relay") /\ w \in Work /\ w.decision \in Decisions
  BY DEF AllHeld, Held, Verdict, Relay, Goto
<1>2. e \in LogEntries /\ e.decision = w.decision /\ (e.withheld <=> ~free)
  BY <1>1 DEF Entry, LogEntries
<1>3. content \in {"answer", "banner", "notice"} /\ (content = "notice" <=> ~free)
      /\ (content \in {"answer", "banner"} <=> free)
  OBVIOUS
<1>4. Reply(t, r) /\ UNCHANGED idem
  BY DEF Relay
<1> HIDE DEF content, e
<1>5. /\ r \in Sent /\ Len(r.logged) = 1 /\ r.logged[1] = e
      /\ r.content = content /\ r.via = "cache" /\ r.answer = w.answer
      /\ r.customer = w.customer /\ r.query = w.query /\ r.decision = w.decision
      /\ r.intent = w.intent /\ r.permitted = w.permitted /\ r.lowest = w.lowest
      /\ r.conf = w.conf /\ r.ruled = w.ruled
  <2>1. r = Response([w EXCEPT !.logged = Append(@, e)], content, "cache")
    OBVIOUS
  <2> HIDE DEF r, w
  <2> QED BY <1>1, <1>2, <1>3, <2>1, Speaks
<1> HIDE DEF r
<1>6. w.answer.customer = w.customer /\ ~w.answer.query.badAnswer
  BY <1>1 DEF Held, Subject
<1>7. free => /\ w.intent \in w.permitted
              /\ ~w.ruled => w.conf >= w.lowest
                             /\ (ClassOf[w.intent] = "money" => w.query.amount < CoafLine)
  BY <1>1 DEF Held, Verdict, Released
<1>8. Sincere(r)
  BY <1>2, <1>3, <1>5, <1>6, <1>7 DEF Sincere
<1> QED BY <1>4, <1>5, <1>8, SendsOne

LEMMA RespondSincere ==
  ASSUME AllHeld, Scalars, AllSincere, NEW t \in Threads, Respond(t)
  PROVE  AllSincere'
<1> DEFINE w == work[t]
           e == Entry(w.decision, Withheld(w))
           u == [w EXCEPT !.logged = Append(@, e)]
           content == Content(u)
           r == Response(u, content, "fresh")
<1>1. Held(w, "respond") /\ w \in Work /\ w.decision \in Decisions
  BY DEF AllHeld, Held, Verdict, Decided, Respond, Goto
<1>2. w.blocked \in BOOLEAN /\ w.customer \in Customers /\ w.channel \in Channels
      /\ w.key \in Keys \cup {NoKey} /\ clock + IdemTTL \in Nat
  <2>1. w.blocked \in BOOLEAN /\ w.customer \in Customers /\ w.channel \in Channels
        /\ w.key \in Keys \cup {NoKey}
    BY <1>1 DEF Work
  <2>2. clock + IdemTTL \in Nat
    BY QueryAssumption DEF Scalars
  <2> QED BY <2>1, <2>2
<1>3. e \in LogEntries /\ e.decision = w.decision /\ (e.withheld <=> Withheld(w))
  BY <1>1, <1>2 DEF Entry, LogEntries, Withheld
<1>4. u.decision = w.decision /\ u.blocked = w.blocked
  BY <1>1 DEF Work
<1>5. /\ w.answer.customer = w.customer /\ w.answer.query = w.query
      /\ w.blocked = w.query.badAnswer /\ (w.blocked => w.decision = "ESCALATE")
      /\ Protected(w.query.intent) => w.decision \notin Releasing
      /\ w.decision \in Releasing =>
           /\ w.intent \in w.permitted
           /\ ~w.ruled => w.conf >= w.lowest
                          /\ (ClassOf[w.intent] = "money" => w.query.amount < CoafLine)
  BY <1>1 DEF Held, Subject, Verdict, Released, Decided, FreshPath
<1>6. /\ content \in {"answer", "banner", "notice"}
      /\ content = "notice" <=> Withheld(w)
      /\ content \in {"answer", "banner"} => ~w.blocked
  BY <1>1, <1>4, <1>5 DEF Content, Withheld, Releasing, Decisions
<1>7. /\ Reply(t, r)
      /\ idem' = IF w.key = NoKey THEN idem
                 ELSE [idem EXCEPT ![<<w.customer, w.channel, w.key>>] =
                         [response |-> r, expiry |-> clock + IdemTTL]]
  BY <1>1 DEF Respond, Work
<1> HIDE DEF content, e
<1>8. /\ r \in Sent /\ Len(r.logged) = 1 /\ r.logged[1] = e
      /\ r.content = content /\ r.via = "fresh" /\ r.answer = w.answer
      /\ r.customer = w.customer /\ r.query = w.query /\ r.decision = w.decision
      /\ r.intent = w.intent /\ r.permitted = w.permitted /\ r.lowest = w.lowest
      /\ r.conf = w.conf /\ r.ruled = w.ruled
  <2>1. r = Response([w EXCEPT !.logged = Append(@, e)], content, "fresh")
    OBVIOUS
  <2>2. w \in Work /\ w.decision \in Decisions
    BY <1>1
  <2>3. e \in LogEntries /\ content \in {"answer", "banner", "notice"}
    BY <1>3, <1>6
  <2> HIDE DEF r, u, w
  <2> QED BY <2>1, <2>2, <2>3, Speaks
<1> HIDE DEF r, u
<1>9. Sincere(r)
  BY <1>3, <1>5, <1>6, <1>8 DEF Sincere
<1>10. CASE w.key = NoKey
  BY <1>7, <1>8, <1>9, <1>10, SendsOne
<1>11. CASE w.key # NoKey
  <2>1. <<w.customer, w.channel, w.key>> \in IdemKeys
        /\ <<w.customer, w.channel, w.key>>[1] = r.customer
    BY <1>2, <1>8, <1>11 DEF IdemKeys
  <2> QED BY <1>2, <1>7, <1>8, <1>9, <1>11, <2>1, SendsOne
<1> QED BY <1>10, <1>11

\* A replay is the response as it was kept, for the customer it is kept under.
LEMMA ReceiveSincere ==
  ASSUME AllSincere, NEW t \in Threads, NEW customer \in Customers, NEW channel \in Channels,
         NEW key \in Keys \cup {NoKey}, NEW q \in Queries,
         Receive(t, customer, channel, key, q)
  PROVE  AllSincere'
<1> DEFINE k == <<customer, channel, key>>
           held == IF key = NoKey THEN NoResponse ELSE idem[k]
           alive == held # NoResponse /\ clock <= held.expiry
<1>1. CASE alive
  <2> DEFINE old == held.response
             r == [old EXCEPT !.via = "replay", !.customer = customer, !.channel = channel]
  <2>1. k \in IdemKeys /\ held = idem[k] /\ k[1] = customer
    BY <1>1 DEF IdemKeys
  <2>2. held \in Kept /\ Sincere(old) /\ old.customer = customer
    BY <1>1, <2>1 DEF AllSincere
  <2>3. old \in Sent
    BY <2>2 DEF Kept
  <2> HIDE DEF old
  <2>4. r \in Sent /\ r.via = "replay" /\ r.content = old.content /\ r.answer = old.answer
        /\ r.customer = old.customer
    BY <2>2, <2>3 DEF Sent
  <2>5. out' = [out EXCEPT ![t] = r] /\ UNCHANGED idem
    BY <1>1 DEF Receive, old
  <2> HIDE DEF r
  <2>6. Sincere(r)
    BY <2>2, <2>4 DEF Sincere
  <2> QED BY <2>4, <2>5, <2>6 DEF AllSincere, Sincere
<1>2. CASE ~alive
  <2>1. UNCHANGED out /\ (idem' = idem \/ idem' = [idem EXCEPT ![k] = NoResponse])
    BY <1>2 DEF Receive
  <2>2. /\ idem' \in [IdemKeys -> Kept \cup {NoResponse}]
        /\ \A l \in IdemKeys : idem'[l] \in {idem[l], NoResponse}
    BY <2>1 DEF AllSincere
  <2> QED BY <2>1, <2>2 DEF AllSincere, Sincere
<1> QED BY <1>1, <1>2

LEMMA SincereStep ==
  ASSUME AllHeld, Scalars, AllSincere, [Next]_vars
  PROVE  AllSincere'
<1>1. CASE UNCHANGED <<idem, out>>
  BY <1>1 DEF AllSincere, Sincere
<1>2. ASSUME NEW t \in Threads, Step(t) PROVE AllSincere'
  BY <1>1, <1>2, StepFrame, RefuseSincere, RelaySincere, RespondSincere
<1>3. ASSUME NEW t \in Threads, NEW c \in Customers, NEW h \in Channels,
             NEW k \in Keys \cup {NoKey}, NEW q \in Queries, Receive(t, c, h, k, q)
      PROVE  AllSincere'
  BY <1>3, ReceiveSincere
<1>4. ASSUME NEW i \in DOMAIN Thresholds, SetThreshold(Thresholds[i]) PROVE AllSincere'
  BY <1>1, <1>4 DEF SetThreshold
<1>5. ASSUME NEW h \in Channels, NEW list \in AllowLists, ApplyAllowList(h, list)
      PROVE  AllSincere'
  BY <1>1, <1>5 DEF ApplyAllowList
<1>6. ASSUME NEW set \in Policies, ApplyPolicies(set) PROVE AllSincere'
  BY <1>1, <1>6 DEF ApplyPolicies
<1>7. CASE ToggleCache \/ ClearCache \/ Tick \/ UNCHANGED vars
  BY <1>1, <1>7 DEF ToggleCache, ClearCache, Tick, vars
<1> QED BY <1>2, <1>3, <1>4, <1>5, <1>6, <1>7 DEF Next

---------------------------------------------------------------------------
(* The size of the cache: an eviction makes room for one append, and a     *)
(* thread that found the cache below its cap has at most its one append    *)
(* ahead of it.                                                            *)

Appending == {t \in Threads : pc[t] = "append"}
Room == Len(cache) + Cardinality(Appending) < CacheSize + Cardinality(Threads)

LEMMA Counts ==
  /\ IsFiniteSet(Appending) /\ Cardinality(Appending) \in Nat
  /\ Cardinality(Threads) \in Nat
  /\ \A t \in Threads : /\ Cardinality(Appending \cup {t}) <= Cardinality(Threads)
                        /\ Cardinality(Appending \cup {t}) \in Nat
                        /\ t \notin Appending =>
                             Cardinality(Appending \cup {t}) = Cardinality(Appending) + 1
                        /\ t \in Appending =>
                             Cardinality(Appending \ {t}) = Cardinality(Appending) - 1
<1>1. IsFiniteSet(Threads) /\ Appending \subseteq Threads
  BY QueryAssumption DEF Appending
<1>2. IsFiniteSet(Appending)
  BY <1>1, FS_Subset
<1>3. ASSUME NEW t \in Threads
      PROVE  /\ Cardinality(Appending \cup {t}) <= Cardinality(Threads)
             /\ Cardinality(Appending \cup {t}) \in Nat
             /\ t \notin Appending => Cardinality(Appending \cup {t}) = Cardinality(Appending) + 1
             /\ t \in Appending => Cardinality(Appending \ {t}) = Cardinality(Appending) - 1
  <2>1. Appending \cup {t} \subseteq Threads
    BY <1>1
  <2>2. IsFiniteSet(Appending \cup {t})
    BY <1>1, <2>1, FS_Subset
  <2> QED BY <1>1, <1>2, <2>1, <2>2, FS_Subset, FS_AddElement, FS_RemoveElement, FS_CardinalityType
<1> QED BY <1>1, <1>2, <1>3, FS_CardinalityType

LEMMA EvictRoom ==
  ASSUME AllHeld, CacheClean, Room, NEW t \in Threads, Evict(t)
  PROVE  Room'
<1> DEFINE keeps == Cacheable(work[t])
           full == keeps /\ Len(cache) >= CacheSize
<1>1. Appending' = IF keeps THEN Appending \cup {t} ELSE Appending
  <2>1. PICK broken \in SUBSET (IF full THEN Walking ELSE {}) :
          Break(broken, [pc EXCEPT ![t] = IF keeps THEN "append" ELSE "respond"])
    BY DEF Evict
  <2>2. \A u \in broken : u \in Threads /\ pc[u] = "admit"
    BY <2>1, WalkersWalk
  <2>3. pc[t] = "store" /\ t \notin broken /\ pc \in [Threads -> Stages]
    BY <2>2 DEF Evict, AllHeld
  <2> HIDE DEF keeps
  <2>4. \A u \in Threads : pc'[u] = "append" <=> pc[u] = "append" \/ (u = t /\ keeps)
    BY <2>1, <2>2, <2>3 DEF Break
  <2> QED BY <2>4 DEF Appending
<1>2. t \notin Appending
  BY DEF Appending, Evict
<1>3. Len(cache) \in Nat /\ CacheSize \in Nat \ {0}
  BY QueryAssumption DEF CacheClean
<1>4. full => Len(cache') = Len(cache) - 1
  BY <1>3, HeadTailProperties DEF CacheClean, Evict
<1>5. ~full => cache' = cache
  BY DEF Evict
<1>6. CASE full
  BY <1>1, <1>2, <1>3, <1>4, <1>6, Counts DEF Room
<1>7. CASE keeps /\ ~full
  <2>1. Cardinality(Appending') <= Cardinality(Threads) /\ Cardinality(Appending') \in Nat
        /\ Cardinality(Threads) \in Nat
    BY <1>1, <1>7, Counts
  <2>2. Len(cache') < CacheSize /\ Len(cache') \in Nat
    BY <1>3, <1>5, <1>7
  <2> QED BY <1>3, <2>1, <2>2 DEF Room
<1>8. CASE ~keeps
  BY <1>1, <1>5, <1>8 DEF Room
<1> QED BY <1>6, <1>7, <1>8

LEMMA RememberRoom ==
  ASSUME AllHeld, CacheClean, Room, NEW t \in Threads, Remember(t)
  PROVE  Room'
<1>1. Appending' = Appending \ {t}
  <2>1. PICK broken \in SUBSET Walking : Break(broken, [pc EXCEPT ![t] = "respond"])
    BY DEF Remember
  <2>2. \A u \in broken : u \in Threads /\ pc[u] = "admit"
    BY <2>1, WalkersWalk
  <2>3. \A u \in Threads : pc'[u] = "append" <=> pc[u] = "append" /\ u # t
    BY <2>1, <2>2 DEF Break, AllHeld
  <2> QED BY <2>3 DEF Appending
<1>2. t \in Appending
  BY DEF Appending, Remember
<1>3. Len(cache) \in Nat /\ Len(cache') = Len(cache) + 1
  BY AppendProperties DEF CacheClean, Remember
<1> QED BY <1>1, <1>2, <1>3, Counts, QueryAssumption DEF Room

LEMMA RoomStep ==
  ASSUME AllHeld, CacheClean, CacheClean', Room, [Next]_vars
  PROVE  Room'
<1>1. CASE UNCHANGED <<cache, pc>>
  BY <1>1 DEF Room, Appending
<1>2. ASSUME NEW t \in Threads, NEW here, NEW there, Goto(t, here, there),
             here # "append", there # "append", UNCHANGED cache
      PROVE  Room'
  <2>1. Appending' = Appending
    BY <1>2 DEF Goto, Appending, AllHeld
  <2> QED BY <1>2, <2>1 DEF Room
<1>3. ASSUME NEW t \in Threads, Step(t) PROVE Room'
  <2>1. CASE Refuse(t) \/ Miss(t) \/ Hit(t) \/ Recall(t) \/ Relay(t)
    <3>1. CASE Refuse(t) \/ Relay(t)
      BY <1>2, <3>1 DEF Refuse, Relay
    <3>2. CASE Miss(t) \/ Recall(t)
      BY <1>2, <3>2 DEF Miss, Recall
    <3>3. CASE Hit(t)
      BY <1>2, <3>3 DEF Hit
    <3> QED BY <2>1, <3>1, <3>2, <3>3
  <2>2. CASE ReadOverlay(t)
    BY <1>1, <2>2 DEF ReadOverlay
  <2>3. CASE FetchOverlay(t)
    <3>1. pc[t] # "append"
      BY <2>3 DEF FetchOverlay, Consulting
    <3> QED BY <1>2, <2>3, <3>1 DEF FetchOverlay
  <2>4. CASE KeepOverlay(t)
    <3>1. pc[t] # "append"
      BY <2>4 DEF KeepOverlay
    <3> QED BY <1>2, <2>4, <3>1 DEF KeepOverlay
  <2>5. CASE Classify(t) \/ DecideFresh(t) \/ Respond(t)
    <3>1. CASE Classify(t)
      BY <1>2, <3>1 DEF Classify
    <3>2. CASE DecideFresh(t)
      BY <1>2, <3>2 DEF DecideFresh
    <3>3. CASE Respond(t)
      BY <1>2, <3>3 DEF Respond
    <3> QED BY <2>5, <3>1, <3>2, <3>3
  <2>6. CASE Evict(t) \/ Remember(t)
    BY <2>6, EvictRoom, RememberRoom
  <2> QED BY <1>3, <2>1, <2>2, <2>3, <2>4, <2>5, <2>6 DEF Step
<1>4. ASSUME NEW t \in Threads, NEW c \in Customers, NEW h \in Channels,
             NEW k \in Keys \cup {NoKey}, NEW q \in Queries, Receive(t, c, h, k, q)
      PROVE  Room'
  BY <1>1, <1>2, <1>4 DEF Receive
<1>5. CASE ClearCache
  <2>1. PICK broken \in SUBSET Walking : Break(broken, pc)
    BY <1>5 DEF ClearCache
  <2>2. \A u \in broken : u \in Threads /\ pc[u] = "admit"
    BY <2>1, WalkersWalk
  <2>3. Appending' = Appending
    BY <2>1, <2>2 DEF Break, Appending
  <2>4. Len(cache') = 0 /\ Len(cache) \in Nat
    BY <1>5 DEF ClearCache, CacheClean
  <2> QED BY <2>3, <2>4, Counts, QueryAssumption DEF Room
<1>6. ASSUME NEW i \in DOMAIN Thresholds, SetThreshold(Thresholds[i]) PROVE Room'
  BY <1>1, <1>6 DEF SetThreshold
<1>7. ASSUME NEW h \in Channels, NEW list \in AllowLists, ApplyAllowList(h, list)
      PROVE  Room'
  BY <1>1, <1>7 DEF ApplyAllowList
<1>8. ASSUME NEW set \in Policies, ApplyPolicies(set) PROVE Room'
  BY <1>1, <1>8 DEF ApplyPolicies
<1>9. CASE ToggleCache \/ Tick \/ UNCHANGED vars
  BY <1>1, <1>9 DEF ToggleCache, Tick, vars
<1> QED BY <1>3, <1>4, <1>5, <1>6, <1>7, <1>8, <1>9 DEF Next

---------------------------------------------------------------------------
(* The theorems. *)

IInv == AllHeld /\ Scalars /\ OverlayHonest /\ CacheClean /\ AllSincere /\ Room

LEMMA HeldStep ==
  ASSUME AllHeld, Scalars, OverlayHonest, CacheClean, [Next]_vars
  PROVE  AllHeld'
<1>1. ASSUME NEW t \in Threads, Step(t) PROVE AllHeld'
  <2>1. CASE Refuse(t) \/ Miss(t) \/ Hit(t) \/ Recall(t) \/ Relay(t)
    BY <2>1, RefuseHeld, MissHeld, HitHeld, RecallHeld, LeavingHeld
  <2>2. CASE ReadOverlay(t) \/ FetchOverlay(t) \/ KeepOverlay(t)
    BY <2>2, ReadHeld, FetchHeld, KeepHeld
  <2>3. CASE Classify(t) \/ DecideFresh(t)
    BY <2>3, ClassifyHeld, DecideHeld
  <2>4. CASE Evict(t) \/ Remember(t) \/ Respond(t)
    BY <2>4, EvictHeld, RememberHeld, LeavingHeld
  <2> QED BY <1>1, <2>1, <2>2, <2>3, <2>4 DEF Step
<1>2. ASSUME NEW t \in Threads, NEW c \in Customers, NEW h \in Channels,
             NEW k \in Keys \cup {NoKey}, NEW q \in Queries, Receive(t, c, h, k, q)
      PROVE  AllHeld'
  BY <1>2, Entered
<1>3. ASSUME NEW i \in DOMAIN Thresholds, SetThreshold(Thresholds[i]) PROVE AllHeld'
  <2>1. Thresholds[i] \in 10..95
    BY SliderRange
  <2> QED BY <1>3, <2>1, ThresholdHeld
<1>4. ASSUME NEW h \in Channels, NEW list \in AllowLists, ApplyAllowList(h, list)
      PROVE  AllHeld'
  BY <1>4, AllowListHeld
<1>5. ASSUME NEW set \in Policies, ApplyPolicies(set) PROVE AllHeld'
  BY <1>5, PoliciesHeld
<1>6. CASE ClearCache
  BY <1>6, ClearHeld
<1>7. CASE ToggleCache \/ Tick \/ UNCHANGED vars
  BY <1>7, TickHeld
<1> QED BY <1>1, <1>2, <1>3, <1>4, <1>5, <1>6, <1>7 DEF Next

LEMMA Initially == Init => IInv
<1> SUFFICES ASSUME Init PROVE IInv
  OBVIOUS
<1>1. AllHeld
  BY DEF Init, AllHeld, Stages
<1>2. Scalars
  <2>1. Thresholds[1] \in 10..95
    BY SliderRange
  <2> QED BY <2>1, QueryAssumption DEF Init, Scalars
<1>3. OverlayHonest
  BY QueryAssumption DEF Init, OverlayHonest
<1>4. CacheClean
  BY DEF Init, CacheClean
<1>5. AllSincere
  BY DEF Init, AllSincere
<1>6. Room
  <2>1. Appending = {} /\ Len(cache) = 0
    BY DEF Init, Appending
  <2> QED BY <2>1, FS_EmptySet, Counts, QueryAssumption DEF Room
<1> QED BY <1>1, <1>2, <1>3, <1>4, <1>5, <1>6 DEF IInv

LEMMA QueryInductive == Spec => []IInv
<1>1. IInv /\ [Next]_vars => IInv'
  BY HeldStep, ScalarsStep, OverlayStep, CacheStep, SincereStep, RoomStep DEF IInv
<1> QED BY <1>1, Initially, PTL DEF Spec

\* The requests, the cache, the table of replays and the responses keep their
\* shape; the cache exceeds its cap by less than there are pool threads,
\* although SemanticCache.store checks and appends without a lock.
THEOREM QueryTypeCorrect == Spec => []TypeOK
<1>1. IInv => TypeOK
  <2> SUFFICES ASSUME IInv PROVE TypeOK
    OBVIOUS
  <2>1. Len(cache) < CacheSize + Cardinality(Threads)
    <3>1. Len(cache) \in Nat
      BY DEF IInv, CacheClean
    <3> QED BY <3>1, Counts, QueryAssumption DEF IInv, Room
  <2>2. \A t \in Threads : pc[t] = "idle" <=> work[t] = NoResponse
    BY QueryAssumption DEF IInv, AllHeld, Held
  <2> QED BY <2>1, <2>2 DEF IInv, TypeOK, AllHeld, Scalars, CacheClean, AllSincere, Kept
<1> QED BY <1>1, QueryInductive, PTL

\* query(), fresh, from the semantic cache or replayed: nobody is given the
\* answer another customer's question produced.
THEOREM ScopesIsolated == Spec => []ScopeIsolation
<1>1. IInv => ScopeIsolation
  BY DEF IInv, AllSincere, Sincere, ScopeIsolation, Responses
<1> QED BY <1>1, QueryInductive, PTL

\* _channel_firewall_blocks is asked on both paths: what is released, the
\* channel permitted at some moment of the request, whatever allow lists were
\* applied meanwhile.
THEOREM FirewallGoverns == Spec => []FirewallHolds
<1>1. IInv => FirewallHolds
  BY DEF IInv, AllSincere, Sincere, FirewallHolds, Responses, Executed
<1> QED BY <1>1, QueryInductive, PTL

\* apply_guard is asked again for a cached answer: what no policy rules on is
\* released with the confidence the lowest slider of its time demands, and no
\* loan at or above the reporting line is.
THEOREM GuardGoverns == Spec => []GuardHolds
<1>1. IInv => GuardHolds
  BY DEF IInv, AllSincere, Sincere, GuardHolds, Responses, Executed
<1> QED BY <1>1, QueryInductive, PTL

\* An answer the output rules block is neither cached nor served, on any path.
THEOREM BlockedStays == Spec => []BlockedStaysIn
<1>1. IInv => BlockedStaysIn
  BY DEF IInv, CacheClean, AllSincere, Sincere, BlockedStaysIn, Responses
<1> QED BY <1>1, QueryInductive, PTL

\* One audit entry for each request that ran, true to what was decided and to
\* whether the customer saw the answer.
THEOREM AuditTellsTheTruth == Spec => []AuditTellsWhatWasServed
<1>1. IInv => AuditTellsWhatWasServed
  BY DEF IInv, AllSincere, Sincere, AuditTellsWhatWasServed, Responses
<1> QED BY <1>1, QueryInductive, PTL

\* Whoever asks _governed_intent_policies a lifetime after an apply is told
\* what was applied, however reads of the table and fills of the cache overlap.
THEOREM AppliesReachEveryone == Spec => []AppliesTakeEffect
<1>1. IInv => AppliesTakeEffect
  <2> SUFFICES ASSUME IInv, NEW t \in Threads, work[t] # NoResponse,
                      work[t].view # NoResponse, work[t].readOk,
                      work[t].asked >= applied.at + OverlayTTL
               PROVE  work[t].view = applied.set
    BY DEF AppliesTakeEffect
  <2>1. Held(work[t], pc[t])
    BY DEF IInv, AllHeld
  <2>2. work[t].asked \in Int /\ applied.at \in Int
    BY <2>1 DEF Held, Work, IInv, Scalars
  <2>3. work[t].asked > applied.at
    BY <2>2, QueryAssumption
  <2> QED BY <2>1, <2>3 DEF Held, Told
<1> QED BY <1>1, QueryInductive, PTL

\* On the fresh path a message about safety or fraud is never released, whatever
\* slider, pin and sample.
THEOREM SafetyHolds == Spec => []SafetyFloor
<1>1. IInv => SafetyFloor
  BY DEF IInv, AllSincere, Sincere, SafetyFloor, Responses, Executed
<1> QED BY <1>1, QueryInductive, PTL
=============================================================================
