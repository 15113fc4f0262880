------------------------------- MODULE Cascade -------------------------------
(***************************************************************************)
(* Cascaded answers, src/lub/orchestration/router.py: TieredRouter walks   *)
(* its tiers until one is confident enough, FailoverChain goes on with the *)
(* next router when one fails.  ComplexityRoutedAnswer, src/lub/           *)
(* connectors/bridge/complexity_routed.py, walks a slice of the tiers.     *)
(*                                                                         *)
(* Routers keep nothing between calls, so one call at a time is modelled.  *)
(***************************************************************************)
EXTENDS Integers, Sequences

CONSTANTS
  Levels,    \* confidences
  Chains,    \* failover chains that may be asked for: sequences of routers
  Ranges     \* tier budgets: <<start, end>>, either may count from the end

\* A router is a sequence of tiers.
Tier == [threshold : Nat, cost : Nat]

ASSUME CascadeAssumption ==
  /\ Levels \subseteq Nat
  /\ \A ch \in Chains : /\ ch \in Seq(Seq(Tier)) /\ ch # <<>>
                        /\ \A i \in DOMAIN ch : ch[i] # <<>>
  /\ Ranges \subseteq Int \X Int

VARIABLES
  walk,     \* the call under way
  routed    \* what the last one came to

cvars == <<walk, routed>>

NoWalk == [at |-> "idle", bar |-> <<>>, chain |-> <<>>, i |-> 0,
           path |-> <<>>, best |-> 0, cost |-> 0]
NotRouted == [tier |-> -1]
Abstain == 0   \* ABSTAIN_TIER

CascadeInit == walk = NoWalk /\ routed = NotRouted

---------------------------------------------------------------------------

Clears(router, c) == \E j \in DOMAIN router : c >= router[j].threshold

\* Mutant: compares the first tiers.
FirstTierAsStrict(router, primary) == router[1].threshold >= primary[1].threshold

\* min(router) >= min(primary), of their thresholds
AsStrict(router, primary) ==
  \A j \in DOMAIN router : Clears(primary, router[j].threshold)

\* enforce_calibration_monotonicity: the constructor refuses other chains.
Accepted(chain) == \A i \in DOMAIN chain : i > 1 => AsStrict(chain[i], chain[1])

Walk(bar, chain, i) ==
  [at |-> "walking", bar |-> bar, chain |-> chain, i |-> i,
   path |-> <<>>, best |-> 0, cost |-> 0]

AskChain ==
  /\ walk.at = "idle"
  /\ \E chain \in Chains : Accepted(chain) /\ walk' = Walk(chain[1], chain, 1)
  /\ routed' = NotRouted

\* TierBudget.resolve, from 0
FromStart(n, total) == IF n < 0 THEN n + total ELSE n
Clamped(n, total) ==
  IF FromStart(n, total) < 0 THEN 0
  ELSE IF FromStart(n, total) >= total THEN total - 1 ELSE FromStart(n, total)
Resolve(range, total) ==
  LET s == Clamped(range[1], total)
      e == Clamped(range[2], total)
  IN IF s > e THEN <<e, s>> ELSE <<s, e>>

Slice(router, range) ==
  LET r == Resolve(range, Len(router)) IN SubSeq(router, r[1] + 1, r[2] + 1)

\* ComplexityRoutedAnswer: a router of its own over a slice of the tiers.
AskScoped ==
  /\ walk.at = "idle"
  /\ \E chain \in Chains, range \in Ranges :
       walk' = Walk(chain[1], <<Slice(chain[1], range)>>, 1)
  /\ routed' = NotRouted

Here == walk.chain[walk.i]
Next1 == Here[Len(walk.path) + 1]   \* the tier that is asked next

\* Mutant: the last answer instead of the best.
LastAnswer(c) == c

Best(c) == IF walk.path = <<>> \/ c > walk.best THEN c ELSE walk.best

Result(tier, path, conf) ==
  [tier |-> tier, conf |-> conf, cost |-> walk.cost + Next1.cost,
   path |-> path, tiers |-> Here, bar |-> walk.bar]

TierPasses(c) ==
  /\ c >= Next1.threshold
  /\ routed' = Result(Len(walk.path) + 1, Append(walk.path, c), c)
  /\ walk' = NoWalk

TierDeclines(c) ==
  /\ c < Next1.threshold /\ Len(walk.path) + 1 < Len(Here)
  /\ walk' = [walk EXCEPT !.path = Append(@, c), !.best = Best(c),
                          !.cost = @ + Next1.cost]
  /\ UNCHANGED routed

NoTierClears(c) ==
  /\ c < Next1.threshold /\ Len(walk.path) + 1 = Len(Here)
  /\ routed' = Result(Abstain, Append(walk.path, c), Best(c))
  /\ walk' = NoWalk

TierAnswers ==
  /\ walk.at = "walking"
  /\ \E c \in Levels : TierPasses(c) \/ TierDeclines(c) \/ NoTierClears(c)

\* A transient error: what the router has spent and seen is forgotten with it.
FailOver ==
  /\ walk.at = "walking" /\ walk.i < Len(walk.chain)
  /\ walk' = Walk(walk.bar, walk.chain, walk.i + 1)
  /\ UNCHANGED routed

\* FailoverExhausted, or an error that is not transient.
GiveUp ==
  /\ walk.at = "walking"
  /\ walk' = NoWalk /\ routed' = NotRouted

CascadeNext == AskChain \/ AskScoped \/ TierAnswers \/ FailOver \/ GiveUp

---------------------------------------------------------------------------

\* "a failover never silently relaxes the safety guarantee", and a slice of the
\* tiers "cannot make a low-confidence call look confident": an answer that is
\* not an abstention clears a threshold of the router the caller configured.
FailoverKeepsTheBar ==
  routed.tier > Abstain => Clears(routed.bar, routed.conf)

CostOf(tiers, n) ==
  LET sum[k \in 0..n] == IF k = 0 THEN 0 ELSE sum[k - 1] + tiers[k].cost IN sum[n]

\* What a walk comes to is a function of the confidences it met: the first tier
\* that clears its own threshold, or an abstention with the highest of them, at
\* the cost of the tiers this router asked.
RouteIsReference ==
  LET n == Len(routed.path)
      below(j) == routed.path[j] < routed.tiers[j].threshold
  IN routed.tier # -1 =>
     /\ routed.cost = CostOf(routed.tiers, n)
     /\ \A j \in 1 .. n - 1 : below(j)
     /\ IF below(n)
        THEN /\ routed.tier = Abstain /\ n = Len(routed.tiers)
             /\ \E j \in 1..n : routed.conf = routed.path[j]
             /\ \A j \in 1..n : routed.conf >= routed.path[j]
        ELSE routed.tier = n /\ routed.conf = routed.path[n]
=============================================================================
