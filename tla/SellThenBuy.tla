---------------------------- MODULE SellThenBuy ----------------------------
(***************************************************************************)
(* What the execution of a target promises the account, whatever its       *)
(* phases, crashes and replans: an order goes to the broker at most once   *)
(* under its reference, and the two sides of the book are never worked at  *)
(* the same time: a buy is sent when every sell is closed, and conversely. *)
(***************************************************************************)

CONSTANT SideOfRef(_)    \* the side of a reference

VARIABLES used,          \* references sent to the broker
          closed         \* references whose order can trade no more

vars == <<used, closed>>

Init == used = {} /\ closed = {}

\* A new reference is sent while the other side has no open order.
Send ==
    \E r \in used' \ used :
        /\ \A q \in used \ closed : SideOfRef(q) = SideOfRef(r)
        /\ used' = used \cup {r}
        /\ closed' = closed

\* An open order closes.
Close ==
    \E r \in closed' \ closed :
        /\ r \in used
        /\ closed' = closed \cup {r}
        /\ used' = used

Next == Send \/ Close

Spec == Init /\ [][Next]_vars
=============================================================================
