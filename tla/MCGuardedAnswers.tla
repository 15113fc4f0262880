-------------------------- MODULE MCGuardedAnswers --------------------------
(***************************************************************************)
(* Two processes at one ledger and a few small cascades, for TLC.          *)
(***************************************************************************)
EXTENDS GuardedAnswers

CONSTANTS p1, p2

\* One process calls its guards in every way, the other one records beside it.
MCUses ==
  [p \in Procs |->
    IF p = p1 THEN {<<"reask", "call">>, <<"flag", "tool">>, <<"raise", "batch">>}
    ELSE {<<"noreask", "call">>}]

T(threshold, cost) == [threshold |-> threshold, cost |-> cost]
Strict  == <<T(2, 1), T(1, 2)>>
Stricter == <<T(1, 1), T(2, 3), T(2, 5)>>
Lax     == <<T(2, 1), T(0, 2)>>

MCChains == {<<Strict>>, <<Strict, Stricter>>, <<Strict, Lax>>, <<Lax, Strict, Stricter>>}
MCRanges == {<<0, 0>>, <<1, -1>>, <<-1, -1>>, <<-1, 0>>, <<3, 5>>}
=============================================================================
