---------------------------- MODULE MCExecution ----------------------------
(***************************************************************************)
(* Small instances of Execution for TLC.  Two instruments, one to sell and *)
(* one to buy (a rebalance); volumes of a few shares.                      *)
(***************************************************************************)
EXTENDS Execution

CONSTANTS a, b

Two == {a, b}

Book(x, y) == [i \in Two |-> IF i = a THEN x ELSE y]

\* Open with two shares of a.
Opening == { Book(2, 0) }

\* Sell one or two shares of a and buy one of b.
Rebalances == { Book(0, 1), Book(1, 1) }

\* Open with an odd lot, which no plan can sell.
OddOpening == { Book(3, 0) }

OddTargets == { Book(0, 2), Book(1, 2) }

NoLocks == { {} }

BuyLocks == { {}, {<<b, "buy">>} }
=============================================================================
