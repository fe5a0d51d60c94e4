----------------------------- MODULE Documents ------------------------------
(***************************************************************************)
(* The papers goods move by, together.  The components share the database  *)
(* but no row that their properties speak of, so that a behaviour is about *)
(* one of them: Init chooses which.                                        *)
(***************************************************************************)
EXTENDS Transfers, OrderDesk, Purchasing, Refunds, Restaurant

VARIABLE topic

Topics == {"transfers", "desk", "purchasing", "refunds", "restaurant"}

vars == <<topic, transferVars, deskVars, buyVars, refundVars, restaurantVars>>

Init ==
    /\ topic \in Topics
    /\ TransferInit
    /\ topic # "transfers" => hasPile = Places /\ \A k \in TravelPacks : packs[k].at = CHOOSE p \in Places : TRUE
    /\ DeskInit /\ BuyInit /\ RefundInit /\ RestaurantInit

Next ==
    \/ topic = "transfers" /\ TransferNext
       /\ UNCHANGED <<topic, deskVars, buyVars, refundVars, restaurantVars>>
    \/ topic = "desk" /\ DeskNext
       /\ UNCHANGED <<topic, transferVars, buyVars, refundVars, restaurantVars>>
    \/ topic = "purchasing" /\ BuyNext
       /\ UNCHANGED <<topic, transferVars, deskVars, refundVars, restaurantVars>>
    \/ topic = "refunds" /\ RefundNext
       /\ UNCHANGED <<topic, transferVars, deskVars, buyVars, restaurantVars>>
    \/ topic = "restaurant" /\ RestaurantNext
       /\ UNCHANGED <<topic, transferVars, deskVars, buyVars, refundVars>>

Spec == Init /\ [][Next]_vars

-----------------------------------------------------------------------------
\* Every document, row and counter stays what the database can hold: no part of
\* an order, a delivery, a bill or a sale is shipped, received, sent back or
\* paid out beyond what there was of it.
PapersTypeOK ==
    TransferTypeOK /\ DeskTypeOK /\ BuyTypeOK /\ RefundTypeOK /\ RestaurantTypeOK

\* No unit appears or vanishes: what left a place is at another, on the road or
\* written into a document (transfers), and what left the pantry is in dishes
\* or in what was produced (tables and kitchen).
GoodsAccountedFor == TransfersAccountedFor /\ PantryAccountedFor

\* Marked packs go where their goods go: over the road and back (transfers) and
\* out of the door with an order (the desk), never one without the other.
PacksGoWithGoods == PacksFollowGoods /\ PacksLeaveWithGoods

\* Guests get and give the right money: the parts of a refund settle to what
\* the sale took, in money and points, and nobody pays for what the table never
\* had.
GuestsMoneyIsRight == RefundSettles /\ NeverOvercharged

\* Goods come in only on an order that was approved and sent, and a decision is
\* made on an order as it stands, never on one somebody else has moved on.
ApprovalsHold == []OnlyApprovedArrives /\ DecisionsInOrder

=============================================================================
