-------------------------------- MODULE Shop --------------------------------
(***************************************************************************)
(* What a shop's books keep true while several people work at once: the    *)
(* drawer, the price of a sale, counting, repairing, packs with codes and  *)
(* dates, the till's closing screen and the place it sells at.             *)
(* Init chooses which of them a behaviour is about: no two of them write a *)
(* row that the other's properties speak of.                               *)
(***************************************************************************)
EXTENDS Drawer, Checkout, Counts, Reconciliation, Packs, ClosingScreen, TillPlace

VARIABLE topic

Topics == {"drawer", "checkout", "counts", "repair", "packs", "closing", "place"}

vars == <<topic, drawerVars, checkoutVars, countVars, repairVars, packVars, closingVars,
          placeVars>>

Init ==
    /\ topic \in Topics
    /\ DrawerInit /\ CheckoutInit /\ CountsInit /\ RepairInit /\ PacksInit
    /\ ClosingInit /\ PlaceInit
    /\ topic # "counts" => \A s \in Shelves : books[s] = 0 /\ onShelf[s] = 0
    /\ topic # "repair" =>
           batched = 0 /\ absent = {} /\ \A s \in RepairShelves : rows[s].quantity = 0 /\ ledger[s] = 0
    /\ topic # "packs" => policy = "sellable"
    /\ topic # "closing" => room = 1
    /\ topic # "place" => companyPlaces = {1}

Next ==
    \/ topic = "drawer" /\ DrawerNext
       /\ UNCHANGED <<topic, checkoutVars, countVars, repairVars, packVars, closingVars,
                      placeVars>>
    \/ topic = "checkout" /\ CheckoutNext
       /\ UNCHANGED <<topic, drawerVars, countVars, repairVars, packVars, closingVars, placeVars>>
    \/ topic = "counts" /\ CountsNext
       /\ UNCHANGED <<topic, drawerVars, checkoutVars, repairVars, packVars, closingVars,
                      placeVars>>
    \/ topic = "repair" /\ RepairNext
       /\ UNCHANGED <<topic, drawerVars, checkoutVars, countVars, packVars, closingVars,
                      placeVars>>
    \/ topic = "packs" /\ PacksNext
       /\ UNCHANGED <<topic, drawerVars, checkoutVars, countVars, repairVars, closingVars,
                      placeVars>>
    \/ topic = "closing" /\ ClosingNext
       /\ UNCHANGED <<topic, drawerVars, checkoutVars, countVars, repairVars, packVars,
                      placeVars>>
    \/ topic = "place" /\ PlaceNext
       /\ UNCHANGED <<topic, drawerVars, checkoutVars, countVars, repairVars, packVars,
                      closingVars>>

Spec == Init /\ [][Next]_vars

-----------------------------------------------------------------------------
\* Every row and counter stays what the database can hold: no quantity, balance
\* of points or number of packs goes below zero, no time lies in the future.
ShopTypeOK ==
    /\ DrawerTypeOK /\ CheckoutTypeOK /\ CountsTypeOK /\ RepairTypeOK /\ PacksTypeOK
    /\ ClosingTypeOK /\ PlaceTypeOK

\* Money belongs to one drawer and the books say what a customer was asked for:
\* with shifts that overlap, stay open or belong to the same cashier, each payment
\* is expected in exactly one drawer, and the till's question and the owner's
\* report, which ask differently, agree; points, payments and debts add up over
\* concurrent sales and settlements; and the till keeps every sale it has not sent
\* and expects at the close what went through the drawer, and shows whose shifts are
\* open where it stands.
MoneyAddsUp ==
    /\ ExpectedOnce /\ SameMoneyForBoth /\ PointsAddUp /\ PaidExactly /\ DebtIsMoney
    /\ UnsentIsKept /\ FigureIsTheDrawer /\ ListIsOfHere

\* The rows say what is there: a pack is sold once, the codes and batches never
\* claim more goods than the row has, whatever registers, write-offs and
\* quarantines do in between, and a row that was repaired agrees with its ledger.
RowsMatchGoods == SoldOnce /\ CodesWithinGoods /\ BatchesWithinGoods /\ RepairedAgrees

\* The shelf is put right by the one who put it right last: a count that ends
\* leaves in the books what was on the shelf, sales on their way considered; a
\* repair that works beside sales, deliveries and holds leaves batches within the
\* goods and cuts holds that exceed them; a till short of room forgets only what
\* the server has, and does not move to another place under an open shift.
WorkSettles ==
    CountSettles /\ BatchesCovered /\ HoldsCut /\ ForgetsOnlySent /\ ChoiceOutlivesShift

=============================================================================
