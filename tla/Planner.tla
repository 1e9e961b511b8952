------------------------------ MODULE Planner ------------------------------
(***************************************************************************)
(* The pure part of alphapilot/systems/trading/planning.py: the diff of a  *)
(* complete target book against holdings and working orders, cut into      *)
(* child orders that carry stable references.                              *)
(*                                                                         *)
(* Volumes are whole shares.  A price is the same for every instrument, so *)
(* the value caps of ExecutionPlanner.__init__ become MaxChunk, the number *)
(* of shares one child may hold.  A quote only matters through the sides   *)
(* on which it forbids trading (stale, suspended, without a price, locked  *)
(* at a limit): `locked' is the set of those <<instrument, side>> pairs.   *)
(* A reference is <<instrument, side, child index>>: the instance, the     *)
(* config hash and the decision are the same for all children of a plan.   *)
(***************************************************************************)
EXTENDS Integers

CONSTANTS Instruments,   \* the strategy universe
          Lot,           \* shares per board lot
          MaxChunk       \* shares one child order may carry

ASSUME PlannerAssumption == /\ Lot \in Nat \ {0}
                            /\ MaxChunk \in Nat

Sides == {"sell", "buy"}

Abs(n) == IF n < 0 THEN -n ELSE n

Least(m, n) == IF m <= n THEN m ELSE n

Greatest(m, n) == IF m >= n THEN m ELSE n

\* _floor_lot
FloorLot(v) == (v \div Lot) * Lot

Children == [inst : Instruments, side : Sides, idx : Nat, vol : Int]

Ref(c) == <<c.inst, c.side, c.idx>>

\* wanted - (current + active order delta)
Delta(target, acct, i) ==
    target[i] - (acct.pos[i] + acct.work[<<i, "buy">>] - acct.work[<<i, "sell">>])

\* A delta below one lot is left alone.
Wanted(target, acct, i) == Abs(Delta(target, acct, i)) >= Lot

SideOf(target, acct, i) == IF Delta(target, acct, i) < 0 THEN "sell" ELSE "buy"

\* Sells are capped by the sellable volume, then floored to whole lots.
Volume(target, acct, i) ==
    LET d == Delta(target, acct, i)
        sellable == Greatest(acct.yd[i] - acct.work[<<i, "sell">>], 0)
    IN  FloorLot(IF d < 0 THEN Least(Abs(d), sellable) ELSE d)

\* Mutant: one chunk more, and no chunk for the remainder.
ChunksExtra(i, s, volume, first) ==
    LET cap == FloorLot(MaxChunk)
    IN  { [inst |-> i, side |-> s, idx |-> first + k, vol |-> cap] :
            k \in 0..(volume \div cap) }

\* _chunks: full children of the capped size and one child for the remainder.
Chunks(i, s, volume, first) ==
    LET cap == FloorLot(MaxChunk)
        n == (volume + cap - 1) \div cap
    IN  { [inst |-> i, side |-> s, idx |-> first + k,
           vol |-> Least(cap, volume - k * cap)] : k \in 0..(n - 1) }

\* The issues that make ExecutionPlan.ok false.
Issues(target, acct, locked) ==
    { i \in Instruments :
        /\ Wanted(target, acct, i)
        /\ \/ <<i, SideOf(target, acct, i)>> \in locked
           \/ Volume(target, acct, i) > 0 /\ FloorLot(MaxChunk) = 0 }

\* ExecutionPlanner.plan: the children, numbered from next[i, side].
Plan(target, acct, locked, next) ==
    UNION { LET s == SideOf(target, acct, i)
            IN  Chunks(i, s, Volume(target, acct, i), next[<<i, s>>]) :
            i \in { j \in Instruments \ Issues(target, acct, locked) :
                      Wanted(target, acct, j) /\ Volume(target, acct, j) > 0 } }
=============================================================================
