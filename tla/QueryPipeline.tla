---------------------------- MODULE QueryPipeline ----------------------------
(***************************************************************************)
(* POST /query of the bridge console backend: bridge-ui/backend/server.py, *)
(* with the semantic cache of lub/connectors/bridge/memory.py.             *)
(*                                                                         *)
(* Pool threads take a request through idempotent replay, admission, the   *)
(* cache, classification, the guard, the cache store and the audit, while  *)
(* operators change the threshold, the cache switch, the channels' allow   *)
(* lists and the governed intent policies, and time passes.  A step is     *)
(* what a thread does between two reads of state others write.             *)
(*                                                                         *)
(* A query is what the pipeline finds out about it; queries of one topic   *)
(* are near-duplicates for the cache.  An answer is the agents' text for a *)
(* customer and a query.  The refusal of a query while the model's queue   *)
(* is full (429) changes nothing and is left out.                          *)
(***************************************************************************)
EXTENDS Guard, Sequences, FiniteSets

CONSTANTS
  Threads, Customers, Channels,
  Keys, NoKey,     \* idempotency keys, and a request without one
  Queries,         \* records, see Query
  ClassOf,         \* intent -> what the guard makes of it, see Guard
  Policies,        \* sets of governed intent policies that get applied
  AllowLists,      \* channel allow lists that get applied
  Thresholds,      \* settings of the threshold slider, the default first; the
                   \* endpoint takes 0.1 to 0.95
  ReadFails,       \* {FALSE} if the read of the intent policies may fail
  NoResponse,
  OverlayTTL, IdemTTL, CacheTTL,   \* lifetimes, in ticks
  CacheSize,
  MaxClock,        \* bound: ticks
  MaxRequests,     \* bound: requests
  MaxChanges       \* bound: changes operators make

Intents == DOMAIN ClassOf

Query == [topic : STRING, intent : Intents, conf : 0..100, amount : Int,
          private : {"no", "pii", "restricted"},   \* what govern finds in it
          action : BOOLEAN,     \* holds a transfer or pix keyword
          badInput : BOOLEAN,   \* an input data-quality rule blocks it
          badAnswer : BOOLEAN]  \* an output data-quality rule blocks its answer

\* A governed intent policy: the queries its samples match, the decision it
\* pins ("none") and the threshold it sets (0: none).
Policy == [intent : Intents, samples : SUBSET Queries,
           pin : Decisions \cup {"none"}, threshold : 0..100]

\* What a thread knows of the request it holds, see Request.
Answers == [customer : Customers, query : Queries]
Work ==
  [customer : Customers, channel : Channels, key : Keys \cup {NoKey}, query : Queries,
   intent : Intents, conf : 0..100, decision : Decisions \cup {"none"},
   ruled : BOOLEAN, answer : Answers, blocked : BOOLEAN,
   view : Policies \cup {NoResponse}, asked : -1..MaxClock, readOk : BOOLEAN,
   logged : {<<>>}, permitted : SUBSET Intents, lowest : 10..95]

ASSUME QueryAssumption ==
  /\ IsFiniteSet(Threads)
  /\ Queries \subseteq Query
  /\ \A i \in Intents : ClassOf[i] \in Classes
  /\ Policies \subseteq SUBSET Policy /\ {} \in Policies
  /\ AllowLists \subseteq SUBSET Intents /\ {} \in AllowLists
  /\ Thresholds \in Seq(10..95) /\ Thresholds # <<>>
  /\ NoKey \notin Keys
  /\ NoResponse \notin Policies /\ NoResponse \notin Work
  /\ ReadFails \subseteq {FALSE}
  /\ OverlayTTL \in Nat \ {0} /\ IdemTTL \in Nat /\ CacheTTL \in Nat
  /\ CacheSize \in Nat \ {0}
  /\ MaxClock \in Nat /\ MaxRequests \in Nat /\ MaxChanges \in Nat

VARIABLES
  clock,
  settings,   \* _RUNTIME_GUARD_THRESHOLD and _RUNTIME_CACHE_ENABLED
  allow,      \* channel -> applied allow list, {} when it has none
  applied,    \* applied intent policies, and when they last changed
  overlay,    \* _GOV_INTENT_CACHE and its timestamp
  cache,      \* the semantic cache, oldest entry first
  idem,       \* _IDEMPOTENCY_CACHE
  pc, work,   \* where each thread is and the request it holds
  out,        \* the last response each thread sent
  requests, changes

vars == <<clock, settings, allow, applied, overlay, cache, idem, pc, work, out,
          requests, changes>>

operators == <<settings, allow, applied, changes>>

Protected(intent) == ClassOf[intent] \in {"safety", "fraud", "foreign"}
Answer(customer, q) == [customer |-> customer, query |-> q]
IdemKeys == Customers \X Channels \X Keys

\* _channel_firewall_blocks
Blocks(list, intent) == list # {} /\ intent \notin list

Init ==
  /\ clock = 0
  /\ settings = [threshold |-> Thresholds[1], cacheOn |-> TRUE]
  /\ allow = [h \in Channels |-> {}]
  /\ applied = [set |-> {}, at |-> 0]
  /\ overlay = [set |-> {}, at |-> -OverlayTTL, ok |-> TRUE]
  /\ cache = <<>>
  /\ idem = [k \in IdemKeys |-> NoResponse]
  /\ pc = [t \in Threads |-> "idle"]
  /\ work = [t \in Threads |-> NoResponse]
  /\ out = [t \in Threads |-> NoResponse]
  /\ requests = 0 /\ changes = 0

---------------------------------------------------------------------------

Stages == {"idle", "admit", "recall", "relay", "classify", "fetched1", "decide",
           "fetched2", "store", "append", "respond"}

Goto(t, here, there) == pc[t] = here /\ pc' = [pc EXCEPT ![t] = there]

\* A response: what was decided, the content the customer gets ("answer",
\* "banner": the answer and a routing banner, "notice": a canned text) and the
\* answer it holds; what the audit entry says of it; how it came about.
Response(w, content, via) ==
  [decision |-> w.decision, intent |-> w.intent, content |-> content,
   answer |-> w.answer, via |-> via, customer |-> w.customer, channel |-> w.channel,
   query |-> w.query, logged |-> w.logged, permitted |-> w.permitted,
   lowest |-> w.lowest, conf |-> w.conf, ruled |-> w.ruled]

\* Mutant: the thread keeps its request.
ReplyKeeping(t, response) == out' = [out EXCEPT ![t] = response] /\ UNCHANGED work

Reply(t, response) ==
  /\ out'  = [out EXCEPT ![t] = response]
  /\ work' = [work EXCEPT ![t] = NoResponse]

\* A request as it enters.  permitted and lowest are history: the intents its
\* channel has permitted and the lowest threshold set since it came in.
Request(customer, channel, key, q) ==
  [customer |-> customer, channel |-> channel, key |-> key, query |-> q,
   intent |-> q.intent, conf |-> q.conf, decision |-> "none", ruled |-> FALSE,
   answer |-> Answer(customer, q), blocked |-> FALSE, view |-> NoResponse,
   asked |-> -1, readOk |-> TRUE, logged |-> <<>>,
   permitted |-> {i \in Intents : ~Blocks(allow[channel], i)},
   lowest |-> settings.threshold]

\* _idempotency_lookup: a live response is replayed, an expired one dropped.
Receive(t, customer, channel, key, q) ==
  LET k     == <<customer, channel, key>>
      held  == IF key = NoKey THEN NoResponse ELSE idem[k]
      alive == held # NoResponse /\ clock <= held.expiry IN
  /\ requests < MaxRequests
  /\ requests' = requests + 1
  /\ IF alive
       THEN /\ out' = [out EXCEPT ![t] = [held.response EXCEPT !.via = "replay",
                              !.customer = customer, !.channel = channel]]
            /\ pc[t] = "idle" /\ UNCHANGED <<pc, work, idem>>
       ELSE /\ Goto(t, "idle", "admit")
            /\ work' = [work EXCEPT ![t] = Request(customer, channel, key, q)]
            /\ idem' = IF held = NoResponse THEN idem ELSE [idem EXCEPT ![k] = NoResponse]
            /\ UNCHANGED out
  /\ UNCHANGED <<clock, cache, overlay, operators>>

Entry(decision, withheld) == [decision |-> decision, withheld |-> withheld]

\* The rate limiter (TokenBucket) or an input rule turns the request away;
\* _record_short_circuit audits the refusal.
Refuse(t) ==
  LET w == [work[t] EXCEPT !.decision = "ESCALATE",
                           !.logged = Append(@, Entry("ESCALATE", FALSE))] IN
  /\ Goto(t, "admit", "idle")
  /\ Reply(t, Response(w, "notice", "refused"))
  /\ UNCHANGED <<clock, cache, overlay, idem, requests, operators>>

Bypass(q) == ~settings.cacheOn \/ q.private # "no" \/ q.action

\* Mutant: entries of every customer are compared.
UnscopedHits(scope, q) ==
  {i \in DOMAIN cache : /\ clock - cache[i].at <= CacheTTL
                        /\ cache[i].query.topic = q.topic}

\* SemanticCache.lookup: the young entries of the scope that are near enough.
Hits(scope, q) ==
  {i \in DOMAIN cache : /\ cache[i].scope = scope
                        /\ clock - cache[i].at <= CacheTTL
                        /\ cache[i].query.topic = q.topic}

Miss(t) ==
  LET w == work[t] IN
  /\ Goto(t, "admit", "classify")
  /\ ~w.query.badInput
  /\ Bypass(w.query) \/ Hits(w.customer, w.query) = {}
  /\ UNCHANGED <<clock, cache, overlay, idem, work, out, requests, operators>>

Hit(t) ==
  LET w == work[t] IN
  /\ Goto(t, "admit", "recall")
  /\ ~w.query.badInput /\ ~Bypass(w.query)
  /\ \E i \in Hits(w.customer, w.query) :
       work' = [work EXCEPT ![t] = [w EXCEPT !.intent = cache[i].intent,
                  !.conf = cache[i].conf, !.answer = cache[i].answer]]
  /\ UNCHANGED <<clock, cache, overlay, idem, out, requests, operators>>

GuardSays(w, threshold, risk) ==
  Decide(w.conf, threshold, ClassOf[w.intent], risk, w.query.amount)

Firewalled(w, decision) ==
  IF Blocks(allow[w.channel], w.intent) THEN "ESCALATE" ELSE decision

\* Mutant: only the fresh path consults the allow list.
RecallUnchecked(t) ==
  LET w == work[t] IN
  /\ Goto(t, "recall", "relay")
  /\ work' = [work EXCEPT ![t].decision =
                IF w.answer.query.badAnswer THEN "ESCALATE"
                ELSE GuardSays(w, settings.threshold, 0)]
  /\ UNCHANGED <<clock, cache, overlay, idem, out, requests, operators>>

\* Mutant: the decision of the first time is repeated.
RecallUnguarded(t) ==
  LET w == work[t] IN
  /\ Goto(t, "recall", "relay")
  /\ work' = [work EXCEPT ![t].decision =
                IF w.answer.query.badAnswer THEN "ESCALATE"
                ELSE Firewalled(w, "PASSTHROUGH")]
  /\ UNCHANGED <<clock, cache, overlay, idem, out, requests, operators>>

\* A cached answer: guard at no risk, firewall, output rules.
Recall(t) ==
  LET w == work[t] IN
  /\ Goto(t, "recall", "relay")
  /\ work' = [work EXCEPT ![t].decision =
                IF w.answer.query.badAnswer THEN "ESCALATE"
                ELSE Firewalled(w, GuardSays(w, settings.threshold, 0))]
  /\ UNCHANGED <<clock, cache, overlay, idem, out, requests, operators>>

\* A cached answer is served only if it is released, and audited; the response
\* is not kept for replay.
Relay(t) ==
  LET free == work[t].decision \in Releasing
      w == [work[t] EXCEPT !.logged = Append(@, Entry(work[t].decision, ~free))] IN
  /\ Goto(t, "relay", "idle")
  /\ Reply(t, Response(w, IF free THEN "answer" ELSE "notice", "cache"))
  /\ UNCHANGED <<clock, cache, overlay, idem, requests, operators>>

---------------------------------------------------------------------------
(* _governed_intent_policies: consulted twice, to classify and to decide.  *)

Consulting(t) == pc[t] \in {"classify", "decide"} /\ work[t].view = NoResponse
\* Mutant: a read that was refreshed is never refreshed again.
OverlayEverRead == overlay.at >= 0

OverlayFresh == clock - overlay.at < OverlayTTL

ReadOverlay(t) ==
  /\ Consulting(t) /\ OverlayFresh
  /\ work' = [work EXCEPT ![t].view = overlay.set, ![t].asked = clock, ![t].readOk = overlay.ok]
  /\ UNCHANGED <<clock, cache, overlay, idem, pc, out, requests, operators>>

\* The table is read now and its rows kept, under this time, a step later; a
\* read that fails yields no policies.
FetchOverlay(t) ==
  /\ Consulting(t) /\ ~OverlayFresh
  /\ Goto(t, pc[t], IF pc[t] = "classify" THEN "fetched1" ELSE "fetched2")
  /\ \E ok \in {TRUE} \cup ReadFails :
       work' = [work EXCEPT ![t].view = IF ok THEN applied.set ELSE {},
                            ![t].asked = clock, ![t].readOk = ok]
  /\ UNCHANGED <<clock, cache, overlay, idem, out, requests, operators>>

KeepOverlay(t) ==
  /\ pc[t] \in {"fetched1", "fetched2"}
  /\ Goto(t, pc[t], IF pc[t] = "fetched1" THEN "classify" ELSE "decide")
  /\ overlay' = [set |-> work[t].view, at |-> work[t].asked, ok |-> work[t].readOk]
  /\ UNCHANGED <<clock, cache, idem, work, out, requests, operators>>

---------------------------------------------------------------------------

\* The policies a thread has read serve the one consultation.
Unread(w) == [w EXCEPT !.view = NoResponse, !.asked = -1, !.readOk = TRUE]

Matching(q, policies) == {p \in policies : q \in p.samples}

\* classify_intent, then the overlay: a governed intent whose samples match
\* takes over, unless the query is a protected one.
Classify(t) ==
  LET w == work[t] IN
  /\ Goto(t, "classify", "decide")
  /\ IF Protected(w.intent)
       THEN UNCHANGED work
       ELSE /\ w.view # NoResponse
            /\ \/ /\ Matching(w.query, w.view) = {}
                  /\ work' = [work EXCEPT ![t] = Unread(w)]
               \/ \E p \in Matching(w.query, w.view) :
                    work' = [work EXCEPT ![t] = [Unread(w) EXCEPT !.intent = p.intent,
                               !.conf = IF w.conf > 90 THEN w.conf ELSE 90]]
  /\ UNCHANGED <<clock, cache, overlay, idem, out, requests, operators>>

\* What a governed policy makes of an intent, if one governs it.
Ruling(w, risk) ==
  LET rules == {p \in w.view : p.intent = w.intent}
      p     == CHOOSE r \in rules : TRUE
  IN CASE rules = {} -> GuardSays(w, settings.threshold, risk)
       [] rules # {} /\ p.pin # "none" -> p.pin
       [] rules # {} /\ p.pin = "none" /\ p.threshold > 0 -> GuardSays(w, p.threshold, risk)
       [] OTHER -> GuardSays(w, settings.threshold, risk)

\* Mutant: a policy governs every intent.
RulingForAll(w, risk) ==
  Ruling([w EXCEPT !.view = IF @ = NoResponse THEN applied.set ELSE @], risk)

GuardOrRuling(w, risk) ==
  IF Protected(w.intent) THEN GuardSays(w, settings.threshold, risk) ELSE Ruling(w, risk)

\* Guard, governed policy, firewall, output data quality.
DecideFresh(t) ==
  LET w == work[t] IN
  /\ Goto(t, "decide", "store")
  /\ Protected(w.intent) \/ w.view # NoResponse
  /\ \E risk \in {0, 85} :
       work' = [work EXCEPT ![t] = [Unread(w) EXCEPT
         !.decision = IF w.query.badAnswer THEN "ESCALATE"
                      ELSE Firewalled(w, GuardOrRuling(w, risk)),
         !.ruled = w.view # NoResponse /\ \E p \in w.view : p.intent = w.intent,
         !.blocked = w.query.badAnswer]]
  /\ UNCHANGED <<clock, cache, overlay, idem, out, requests, operators>>

\* Mutant: what gets cached does not depend on what was decided.
CacheableUnjudged(w) ==
  settings.cacheOn /\ w.query.private # "restricted" /\ ClassOf[w.intent] # "fraud"

Cacheable(w) ==
  /\ settings.cacheOn
  /\ w.decision \in Releasing
  /\ w.query.private # "restricted"
  /\ ClassOf[w.intent] # "fraud"

\* Lookups that walk the entries while another thread adds or removes some
\* break: those requests end in a server error, without a response or an audit
\* entry.
Walking == {t \in Threads : pc[t] = "admit" /\ ~work[t].query.badInput
                            /\ ~Bypass(work[t].query)}
Break(broken, next) ==
  /\ pc'   = [t \in Threads |-> IF t \in broken THEN "idle" ELSE next[t]]
  /\ work' = [t \in Threads |-> IF t \in broken THEN NoResponse ELSE work[t]]

\* SemanticCache.store takes no lock.  At the cap the oldest entry gives way ...
Evict(t) ==
  LET keeps == Cacheable(work[t])
      full  == keeps /\ Len(cache) >= CacheSize IN
  /\ pc[t] = "store"
  /\ cache' = IF full THEN Tail(cache) ELSE cache
  /\ \E broken \in SUBSET (IF full THEN Walking ELSE {}) :
       Break(broken, [pc EXCEPT ![t] = IF keeps THEN "append" ELSE "respond"])
  /\ UNCHANGED <<clock, overlay, idem, out, requests, operators>>

\* ... and the new one is appended, whatever others did in between.
Remember(t) ==
  LET w == work[t] IN
  /\ pc[t] = "append"
  /\ cache' = Append(cache, [scope |-> w.customer, query |-> w.query,
                             answer |-> w.answer, intent |-> w.intent,
                             conf |-> w.conf, at |-> clock])
  /\ \E broken \in SUBSET Walking : Break(broken, [pc EXCEPT ![t] = "respond"])
  /\ UNCHANGED <<clock, overlay, idem, out, requests, operators>>

\* Under ESCALATE the customer gets the answer and a banner, unless an output
\* rule replaced it; under REASK a canned text.
Content(w) ==
  CASE w.decision \in Releasing -> "answer"
    [] w.decision = "REASK"     -> "notice"
    [] OTHER                    -> IF w.blocked THEN "notice" ELSE "banner"

\* Mutant: withheld is guessed from the decision.
WithheldByDecision(w) == w.decision \notin Releasing

\* _answer_withheld_from_customer and blocked_answer, as read together
Withheld(w) == w.decision = "REASK" \/ w.blocked

\* Audit, then the answer, kept for replay.
Respond(t) ==
  LET w == [work[t] EXCEPT !.logged = Append(@, Entry(work[t].decision, Withheld(work[t])))]
      r == Response(w, Content(w), "fresh") IN
  /\ Goto(t, "respond", "idle")
  /\ Reply(t, r)
  /\ idem' = IF w.key = NoKey THEN idem
             ELSE [idem EXCEPT ![<<w.customer, w.channel, w.key>>] =
                     [response |-> r, expiry |-> clock + IdemTTL]]
  /\ UNCHANGED <<clock, cache, overlay, requests, operators>>

---------------------------------------------------------------------------
(* Operators and time.                                                     *)

Change == changes < MaxChanges /\ changes' = changes + 1

\* Every request under way sees the change in its history.
Witness(f(_)) ==
  work' = [t \in Threads |-> IF pc[t] = "idle" THEN work[t] ELSE f(work[t])]

\* PUT /settings
SetThreshold(n) ==
  /\ Change /\ n # settings.threshold
  /\ settings' = [settings EXCEPT !.threshold = n]
  /\ LET lower(w) == [w EXCEPT !.lowest = IF n < @ THEN n ELSE @] IN Witness(lower)
  /\ UNCHANGED <<clock, allow, applied, cache, overlay, idem, pc, out, requests>>

ToggleCache ==
  /\ Change
  /\ settings' = [settings EXCEPT !.cacheOn = ~@]
  /\ UNCHANGED <<clock, allow, applied, cache, overlay, idem, pc, work, out, requests>>

\* DELETE /cache
ClearCache ==
  /\ Change /\ cache # <<>>
  /\ cache' = <<>>
  /\ \E broken \in SUBSET Walking : Break(broken, pc)
  /\ UNCHANGED <<clock, settings, allow, applied, overlay, idem, out, requests>>

\* An apply of the governance loop (GovernedChanges) on a channel policy ...
ApplyAllowList(channel, list) ==
  /\ Change /\ list # allow[channel]
  /\ allow' = [allow EXCEPT ![channel] = list]
  /\ LET widen(w) == IF w.channel # channel THEN w
                     ELSE [w EXCEPT !.permitted = @ \cup {i \in Intents : ~Blocks(list, i)}]
     IN Witness(widen)
  /\ UNCHANGED <<clock, settings, applied, cache, overlay, idem, pc, out, requests>>

\* ... and on the intent policies.
ApplyPolicies(set) ==
  /\ Change /\ set # applied.set
  /\ applied' = [set |-> set, at |-> clock]
  /\ UNCHANGED <<clock, settings, allow, cache, overlay, idem, pc, work, out, requests>>

Tick ==
  /\ clock < MaxClock
  /\ clock' = clock + 1
  /\ UNCHANGED <<settings, allow, applied, cache, overlay, idem, pc, work, out,
                 requests, changes>>

Step(t) ==
  \/ Refuse(t) \/ Miss(t) \/ Hit(t) \/ Recall(t) \/ Relay(t)
  \/ ReadOverlay(t) \/ FetchOverlay(t) \/ KeepOverlay(t)
  \/ Classify(t) \/ DecideFresh(t)
  \/ Evict(t) \/ Remember(t) \/ Respond(t)

Next ==
  \/ \E t \in Threads :
       \/ \E c \in Customers, h \in Channels, k \in Keys \cup {NoKey}, q \in Queries :
            Receive(t, c, h, k, q)
       \/ Step(t)
  \/ \E i \in DOMAIN Thresholds : SetThreshold(Thresholds[i])
  \/ ToggleCache
  \/ ClearCache
  \/ \E h \in Channels, list \in AllowLists : ApplyAllowList(h, list)
  \/ \E set \in Policies : ApplyPolicies(set)
  \/ Tick

Spec == Init /\ [][Next]_vars

---------------------------------------------------------------------------

Responses == {out[t] : t \in Threads} \ {NoResponse}
Executed  == {r \in Responses : r.via \in {"fresh", "cache"}}

\* A cached answer, and a response as it is sent and kept.
Entries == [scope : Customers, query : Queries, answer : Answers, intent : Intents,
            conf : 0..100, at : 0..MaxClock]
Sent == [decision : Decisions, intent : Intents, content : {"answer", "banner", "notice"},
         answer : Answers, via : {"fresh", "cache", "refused", "replay"},
         customer : Customers, channel : Channels, query : Queries,
         logged : Seq([decision : Decisions, withheld : BOOLEAN]),
         permitted : SUBSET Intents, lowest : 10..95, conf : 0..100, ruled : BOOLEAN]

TypeOK ==
  /\ clock \in 0..MaxClock
  /\ settings \in [threshold : 10..95, cacheOn : BOOLEAN]
  /\ allow \in [Channels -> AllowLists]
  /\ applied \in [set : Policies, at : 0..clock]
  /\ overlay \in [set : Policies, at : (-OverlayTTL)..clock, ok : BOOLEAN]
  /\ cache \in Seq(Entries) /\ Len(cache) < CacheSize + Cardinality(Threads)
  /\ idem \in [IdemKeys -> [response : Sent, expiry : Nat] \cup {NoResponse}]
  /\ pc \in [Threads -> Stages]
  /\ work \in [Threads -> Work \cup {NoResponse}]
  /\ \A t \in Threads : pc[t] = "idle" <=> work[t] = NoResponse
  /\ out \in [Threads -> Sent \cup {NoResponse}]
  /\ requests \in 0..MaxRequests /\ changes \in 0..MaxChanges

\* Whatever the path, fresh, cached or replayed: a customer is never given the
\* answer another customer's query produced.
ScopeIsolation ==
  \A r \in Responses : r.content \in {"answer", "banner"} => r.answer.customer = r.customer

\* The channel firewall governs the cache as it does the fresh path: what is
\* released for an intent, the channel permitted at some moment of the request.
FirewallHolds ==
  \A r \in Executed : r.decision \in Releasing => r.intent \in r.permitted

\* The guard governs every answer no policy rules on, cached ones included:
\* nothing is released with less confidence than the lowest threshold that was
\* set while the request ran, nor a loan at or above the reporting line because
\* a smaller one was answered before.
GuardHolds ==
  \A r \in Executed :
    r.decision \in Releasing /\ ~r.ruled =>
      /\ r.conf >= r.lowest
      /\ ClassOf[r.intent] = "money" => r.query.amount < CoafLine

\* An answer an output rule blocks never enters the cache and never reaches a
\* customer, on any path.
BlockedStaysIn ==
  /\ \A i \in DOMAIN cache : ~cache[i].answer.query.badAnswer
  /\ \A r \in Responses : r.content \in {"answer", "banner"} => ~r.answer.query.badAnswer

\* Every request that is not a replay is audited exactly once, and the entry
\* says what was decided and whether the customer saw the answer.
AuditTellsWhatWasServed ==
  \A r \in {x \in Responses : x.via # "replay"} :
    /\ Len(r.logged) = 1
    /\ r.logged[1].decision = r.decision
    /\ r.via # "refused" => (r.logged[1].withheld <=> r.content = "notice")

\* "an apply takes effect within the TTL": whoever asks for the overlay a
\* lifetime after the policies last changed is given the policies as applied,
\* however reads and writes of the overlay overlapped, unless the read failed.
AppliesTakeEffect ==
  \A t \in Threads :
    /\ work[t] # NoResponse
    /\ work[t].view # NoResponse
    /\ work[t].readOk
    /\ work[t].asked >= applied.at + OverlayTTL
    => work[t].view = applied.set

\* On the fresh path no slider, no policy and no sample match releases a query
\* the classifier found to be a matter of safety or fraud.
SafetyFloor ==
  \A r \in Executed :
    r.via = "fresh" /\ Protected(r.query.intent) => r.decision \notin Releasing
=============================================================================
