---------------------------- MODULE MCStockHolds ----------------------------
(***************************************************************************)
(* Small shops for the model checker: an unplaced pile, one or two          *)
(* shelves, two requests at a time; and two shops over the same rows in one *)
(* run: Init chooses which operations a behaviour is made of, and around    *)
(* how many orders.  All operations at once are beyond TLC.                 *)
(***************************************************************************)
EXTENDS StockHolds, TLC

CONSTANTS r1, r2, o1, o2

TwoRequests == {r1, r2}
OneOrder == {o1}
TwoOrders == {o1, o2}

PileAndShelf == {0, 1}
Symmetry == Permutations(TwoRequests) \cup Permutations(TwoOrders)

OneOnShelfOneLoose == [b \in PileAndShelf |-> 1]
OneLooseTwoOnShelf == [b \in PileAndShelf |-> b + 1]
TradeKinds == {"sale", "place", "ship", "reject", "receive"}
HoldKinds == {"sale", "place", "isolate", "count"}
WarehouseKinds == {"sale", "place", "ship", "isolate", "restore", "count", "writeOff",
                    "putaway", "receive"}
BlockKinds == {"isolate", "restore", "count", "receive", "blockBin", "unblockBin"}

\* Two orders at once, which a test takes for independent.
OrdersOnly == {"place", "reject"}
OrdersThemes == {[kinds |-> OrdersOnly, orders |-> TwoOrders]}

CONSTANT Themes

VARIABLE theme

\* Trade between two orders; counts and quarantine around one.
PromiseThemes == {[kinds |-> TradeKinds, orders |-> TwoOrders],
                  [kinds |-> HoldKinds, orders |-> OneOrder]}
PromiseKinds == TradeKinds \cup HoldKinds

\* What a warehouse does beside one order; what two managers block.
FloorThemes == {[kinds |-> WarehouseKinds, orders |-> OneOrder],
                [kinds |-> BlockKinds, orders |-> {}]}
FloorKinds == WarehouseKinds \cup BlockKinds

MCInit == theme \in Themes /\ Init

MCNext ==
    /\ UNCHANGED theme
    /\ \/ "receive" \in theme.kinds /\ Receive
       \/ \E r \in Requests :
             /\ Trade(r) \/ Warehouse(r) \/ Abandon(r)
             /\ requests'[r].kind \in theme.kinds \cup {"none"}
             /\ requests'[r].order \in theme.orders \cup {NoOrder}

MCSpec == MCInit /\ [][MCNext]_<<vars, theme>>

\* Not the orders: a theme may name one of them.
MCSymmetry == Permutations(TwoRequests)

\* However often and by however many people an order is closed, it is closed
\* once, and a closing lifts the hold of that order and of no other
\* (pos.ts:8535, allocateRelease).
OneClosingEach == ClosedOnce /\ LiftsOwnHold

\* Where managers only isolate, count, receive and block shelves, what is held
\* out of sale never exceeds the goods (blockStock, trimHoldsToStock).
BlocksFit == theme.kinds = BlockKinds => HoldsFit
=============================================================================
