--------------------------- MODULE MCQueryPipeline ---------------------------
(***************************************************************************)
(* Small instances of QueryPipeline for TLC: loan questions below and      *)
(* above the reporting line that are near-duplicates of each other, a      *)
(* question whose answer an output rule blocks, and a message about a      *)
(* crisis.                                                                 *)
(***************************************************************************)
EXTENDS QueryPipeline, TLC

MCClassOf == [balance |-> "info", cards |-> "info", loan |-> "money", crisis |-> "safety"]

Ask(topic, intent, conf, amount) ==
  [topic |-> topic, intent |-> intent, conf |-> conf, amount |-> amount,
   private |-> "no", action |-> FALSE, badInput |-> FALSE, badAnswer |-> FALSE]

SmallLoan == Ask("loan", "loan", 75, 500)
LargeLoan == Ask("loan", "loan", 75, 20000)
Leaky     == [Ask("card", "balance", 90, NoAmount) EXCEPT !.badAnswer = TRUE, !.private = "pii"]
Cry       == Ask("cry", "crisis", 97, NoAmount)

\* Operators put loans under review and try to release what is about a crisis,
\* or give a loan question an intent of its own.
Rule(intent, samples, pin, threshold) ==
  [intent |-> intent, samples |-> samples, pin |-> pin, threshold |-> threshold]
Reviewed == {Rule("loan", {}, "ESCALATE", 0), Rule("crisis", {Cry}, "PASSTHROUGH", 0)}
Renamed  == {Rule("cards", {LargeLoan}, "none", 60)}

MCQueries  == {SmallLoan, LargeLoan, Leaky, Cry}
MCPolicies == {{}, Reviewed, Renamed}
MCAllowLists == {{}, {"balance", "cards", "crisis"}}
MCThresholds == <<70, 80>>

Symmetry == Permutations(Threads) \cup Permutations(Customers)
=============================================================================
