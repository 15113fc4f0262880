-------------------------------- MODULE Guard --------------------------------
(***************************************************************************)
(* The uncertainty guard of the bridge console backend, a pure function:   *)
(* bridge-ui/backend/core/guard.py.  Confidence, threshold and risk are    *)
(* percentages, amounts whole reais; the reason text is left out.          *)
(***************************************************************************)
EXTENDS Integers

\* What the guard's tests on the intent tell apart.
Classes == {"safety", "foreign", "fraud", "money", "info"}

Decisions == {"PASSTHROUGH", "FLAG", "REASK", "ESCALATE"}
Releasing == {"PASSTHROUGH", "FLAG"}

NoAmount == -1   \* no amount was recognised in the query

\* The severities _extract_risk_level reads out of a risk profile.
RiskLevels == {0, 20, 50, 75, 85, 100}

ReviewLine == 1000
CoafLine   == 10000

\* effective_threshold: a fifth of the risk on top, capped below certainty.
Effective(threshold, risk) ==
  IF threshold + risk \div 5 <= 99 THEN threshold + risk \div 5 ELSE 99

Confidence(confidence, effective) ==
  CASE confidence >= effective      -> "confident"
    [] confidence < effective - 20  -> "lost"
    [] OTHER                        -> "unsure"

ByAmount(amount) ==
  CASE amount >= CoafLine                          -> "ESCALATE"
    [] amount = NoAmount \/ (amount >= ReviewLine /\ amount < CoafLine) -> "FLAG"
    [] OTHER                                       -> "PASSTHROUGH"

\* apply_guard
Decide(confidence, threshold, class, risk, amount) ==
  LET level == Confidence(confidence, Effective(threshold, risk)) IN
  CASE class \in {"safety", "fraud"}         -> "ESCALATE"
    [] class = "foreign"                     -> "REASK"
    [] class = "money" /\ risk >= 70         -> "ESCALATE"
    [] class \in {"money", "info"} /\ ~(class = "money" /\ risk >= 70) ->
         CASE level = "lost"      -> "ESCALATE"
           [] level = "unsure"    -> "REASK"
           [] level = "confident" ->
                IF class = "money" THEN ByAmount(amount) ELSE "PASSTHROUGH"
=============================================================================
