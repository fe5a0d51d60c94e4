---------------------------- MODULE PromisedGoods ----------------------------
(***************************************************************************)
(* What a point of sale promises its customers about one product, with no  *)
(* bins, no snapshots and no requests: goods that somebody has an open      *)
(* order for are given to that customer or to nobody, until a count finds   *)
(* that they are not there.                                                 *)
(*                                                                         *)
(* StockHolds implements this with holds on the rows of the bins.           *)
(***************************************************************************)
EXTENDS Integers, Collections

CONSTANT Orders

VARIABLES
    onHand,     \* units the point holds
    open,       \* units of each order that is placed and not yet closed
    missing     \* promised units that counts have found missing

vars == <<onHand, open, missing>>

Owed == Sum(open) - missing

Init ==
    /\ onHand \in Nat
    /\ open = [o \in Orders |-> 0]
    /\ missing = 0

Arrive ==
    /\ onHand' > onHand
    /\ UNCHANGED <<open, missing>>

\* Goods leave for a reason other than an order.
Sell ==
    /\ onHand' < onHand
    /\ onHand' >= Owed
    /\ UNCHANGED <<open, missing>>

Place(o) ==
    /\ open[o] = 0 /\ open'[o] > 0
    /\ open' = [open EXCEPT ![o] = open'[o]]
    /\ onHand >= Owed'
    /\ UNCHANGED <<onHand, missing>>

\* The customer gets what was picked, at most what was ordered, and the order
\* is closed; nobody else's order pays for it.
Deliver(o) ==
    /\ open[o] > 0
    /\ open' = [open EXCEPT ![o] = 0]
    /\ onHand - onHand' \in 1..open[o]
    /\ onHand' >= Owed'
    /\ UNCHANGED missing

Cancel(o) ==
    /\ open[o] > 0
    /\ open' = [open EXCEPT ![o] = 0]
    /\ UNCHANGED <<onHand, missing>>

\* Somebody counted.  Promises that the goods cannot cover are found missing,
\* and no more than that.
Recount ==
    /\ missing' >= missing
    /\ missing' > missing => onHand' < onHand
    /\ onHand' >= Owed'
    /\ UNCHANGED open

Next ==
    \/ Arrive
    \/ Sell
    \/ \E o \in Orders : Place(o) \/ Deliver(o) \/ Cancel(o)
    \/ Recount

Spec == Init /\ [][Next]_vars
=============================================================================
