---------------------------- MODULE MCLiveEngine ----------------------------
(***************************************************************************)
(* Small instances of LiveEngine for TLC: two references and two ways to  *)
(* configure the gate, one order a day with the daily loss stop, where the *)
(* cap decides, and two with the canary stop, where the test for           *)
(* duplicates does; an equity of 10 that falls to 8, past a stop of 20 %.  *)
(***************************************************************************)
EXTENDS LiveEngine, TLC

CONSTANTS a, b

Two == {a, b}

Configured ==
    {[orders |-> 1, daily |-> 20, canary |-> 0],
     [orders |-> 2, daily |-> 0, canary |-> 20]}

\* A reference is only compared with other references.
Interchangeable == Permutations(Two)
=============================================================================
