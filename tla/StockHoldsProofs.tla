--------------------------- MODULE StockHoldsProofs ---------------------------
(***************************************************************************)
(* What StockHolds keeps for any number of requests, orders and bins and    *)
(* any opening stock.                                                       *)
(*                                                                         *)
(* The first half asks nothing of the splits beyond their type: what no row *)
(* ever goes below rests on the conditions of the UPDATEs alone.  The       *)
(* second half adds the rows up.  There the plans matter: what a request    *)
(* read must still fit its order when it is carried out (PlansFit).         *)
(***************************************************************************)
EXTENDS MCStockHolds, CollectionsProofs

-----------------------------------------------------------------------------
(* The statements keep rows of naturals. *)

LEMMA NothingType == Nothing \in Split
  BY DEF Nothing, Split

LEMMA OnlyType ==
    ASSUME NEW b \in Bins, NEW n \in Nat
    PROVE  Only(b, n) \in Split
  BY DEF Only, Nothing, Split

LEMMA PouredType ==
    ASSUME NEW need, NEW room
    PROVE  /\ FromBins(need, room) \subseteq Split
           /\ ReleaseParts(need, room) \subseteq Split
           /\ InReadOrder(need, room) \subseteq Split
  BY DEF FromBins, ReleaseParts, InReadOrder, PouredSet

LEMMA TakenType ==
    ASSUME NEW rows \in [Bins -> Row], NEW take \in Split, CoversOnHand(rows, take)
    PROVE  Taken(rows, take) \in [Bins -> Row]
  BY DEF Taken, CoversOnHand, Touched, Row, Split

\* A row that covers an amount out of what is unpromised, or out of what is
\* available, has the goods.
LEMMA UnreservedIsOnHand ==
    ASSUME NEW rows \in [Bins -> Row], NEW take \in Split, CoversUnreserved(rows, take)
    PROVE  CoversOnHand(rows, take)
  BY DEF CoversUnreserved, CoversOnHand, Touched, Row, Split

LEMMA AddedType ==
    ASSUME NEW rows \in [Bins -> Row], NEW give \in Split
    PROVE  Added(rows, give) \in [Bins -> Row]
  BY DEF Added, Row, Split

LEMMA HeldType ==
    ASSUME NEW rows \in [Bins -> Row], NEW part \in Split
    PROVE  /\ Reserved(rows, part) \in [Bins -> Row]
           /\ Released(rows, part) \in [Bins -> Row]
           /\ Blocked(rows, part) \in [Bins -> Row]
           /\ Unblocked(rows, part) \in [Bins -> Row]
  BY DEF Reserved, Released, Blocked, Unblocked, AtLeastZero, Row, Split

LEMMA TrimType ==
    ASSUME NEW row \in Row
    PROVE  /\ TrimHolds(row).reserved \in 0..row.reserved
           /\ TrimHolds(row).blocked \in 0..row.blocked
           /\ row.reserved - TrimHolds(row).reserved <= row.quantity
  BY DEF TrimHolds, AtLeastZero, Smaller, Row

LEMMA TrimmedType ==
    ASSUME NEW rows \in [Bins -> Row]
    PROVE  Trimmed(rows) \in [Bins -> Row]
  <1>1. ASSUME NEW row \in Row, NEW r \in 0..row.reserved, NEW k \in 0..row.blocked
        PROVE  [row EXCEPT !.reserved = @ - r, !.blocked = @ - k] \in Row
    <2>1. /\ row.reserved - r \in Nat
          /\ row.blocked - k \in Nat
      BY DEF Row
    <2> QED
      BY <2>1 DEF Row
  <1>2. ASSUME NEW b \in Bins
        PROVE  [rows[b] EXCEPT !.reserved = @ - TrimHolds(rows[b]).reserved,
                               !.blocked = @ - TrimHolds(rows[b]).blocked] \in Row
    BY <1>1, TrimType
  <1> QED
    BY <1>2 DEF Trimmed

-----------------------------------------------------------------------------
(* Types. *)

LEMMA IdleType == Idle \in Request
  BY NothingType, BinsAssumption DEF Idle, Request

LEMMA InitType == Init => TypeOK
  <1> SUFFICES ASSUME Init PROVE TypeOK
    OBVIOUS
  <1>1. stock \in [Bins -> Row] /\ ledger \in [Bins -> Int]
    BY StockAssumption DEF Init, NoRow, Row
  <1>2. orders \in [Orders -> Order] /\ shelf \in [Bins -> Shelf]
    BY DEF Init, Order, Shelf
  <1> QED
    BY <1>1, <1>2, NothingType, IdleType DEF Init, TypeOK

\* Reading makes a plan and touches nothing else.
LEMMA PlansType ==
    ASSUME TypeOK, NEW r \in Requests, NEW kind, NEW plan \in Request, Plans(r, kind, plan)
    PROVE  TypeOK'
  <1>1. [plan EXCEPT !.kind = kind, !.phase = "planned"] \in Request
    BY DEF Plans, Request
  <1> QED
    BY <1>1 DEF Plans, TypeOK

LEMMA ReadsType ==
    ASSUME TypeOK, NEW r \in Requests,
           \/ SaleRead(r) \/ PlaceRead(r) \/ ShipRead(r) \/ RejectRead(r)
           \/ IsolateRead(r) \/ RestoreRead(r) \/ WriteOffRead(r) \/ PutawayRead(r)
           \/ CountRead(r) \/ BlockBinRead(r) \/ UnblockBinRead(r)
    PROVE  TypeOK'
  <1> USE StockAssumption, BinsAssumption
  <1>1. CASE SaleRead(r)
    <2>1. PICK n \in 1..MaxUnits : \E take \in FromBins(n, AvailableOf(stock)) :
              Plans(r, "sale", [Idle EXCEPT !.take = take])
      BY <1>1 DEF SaleRead
    <2>2. PICK take \in Split : Plans(r, "sale", [Idle EXCEPT !.take = take])
      BY <2>1, PouredType
    <2>3. [Idle EXCEPT !.take = take] \in Request
      BY IdleType DEF Request
    <2> QED
      BY <2>2, <2>3, PlansType
  <1>2. CASE PlaceRead(r)
    <2>1. PICK o \in Orders, n \in 1..MaxUnits : \E take \in FromBins(n, AvailableOf(stock)) :
              Plans(r, "place", [Idle EXCEPT !.order = o, !.need = n, !.take = take])
      BY <1>2 DEF PlaceRead
    <2>2. PICK take \in Split :
              Plans(r, "place", [Idle EXCEPT !.order = o, !.need = n, !.take = take])
      BY <2>1, PouredType
    <2>3. n \in Nat
      OBVIOUS
    <2>4. [Idle EXCEPT !.order = o, !.need = n, !.take = take] \in Request
      BY <2>3, IdleType DEF Request
    <2> QED
      BY <2>2, <2>4, PlansType
  <1>3. CASE ShipRead(r)
    <2>1. PICK o \in Orders : \E n \in 1..orders[o].quantity, lift \in HoldOf(o) :
              Plans(r, "ship", [Idle EXCEPT !.order = o, !.need = n, !.lift = lift])
      BY <1>3 DEF ShipRead
    <2>2. PICK n \in 1..orders[o].quantity, lift \in Split :
              Plans(r, "ship", [Idle EXCEPT !.order = o, !.need = n, !.lift = lift])
      BY <2>1, PouredType DEF HoldOf
    <2>3. n \in Nat
      BY DEF TypeOK, Order
    <2>4. [Idle EXCEPT !.order = o, !.need = n, !.lift = lift] \in Request
      BY <2>3, IdleType DEF Request
    <2> QED
      BY <2>2, <2>4, PlansType
  <1>4. CASE RejectRead(r)
    <2>1. PICK o \in Orders : \E lift \in HoldOf(o) :
              Plans(r, "reject", [Idle EXCEPT !.order = o, !.lift = lift])
      BY <1>4 DEF RejectRead
    <2>2. PICK lift \in Split : Plans(r, "reject", [Idle EXCEPT !.order = o, !.lift = lift])
      BY <2>1, PouredType DEF HoldOf
    <2>3. [Idle EXCEPT !.order = o, !.lift = lift] \in Request
      BY IdleType DEF Request
    <2> QED
      BY <2>2, <2>3, PlansType
  <1>5. CASE IsolateRead(r)
    <2>1. PICK n \in 1..MaxUnits : \E take \in InReadOrder(n, AvailableOf(stock)) :
              Plans(r, "isolate", [Idle EXCEPT !.take = take])
      BY <1>5 DEF IsolateRead
    <2>2. PICK take \in Split : Plans(r, "isolate", [Idle EXCEPT !.take = take])
      BY <2>1, PouredType
    <2>3. [Idle EXCEPT !.take = take] \in Request
      BY IdleType DEF Request
    <2> QED
      BY <2>2, <2>3, PlansType
  <1>6. CASE RestoreRead(r)
    <2>1. PICK n \in 1..MaxUnits : \E lift \in InReadOrder(n, BlockedOf(stock)) :
              Plans(r, "restore", [Idle EXCEPT !.lift = lift])
      BY <1>6 DEF RestoreRead
    <2>2. PICK lift \in Split : Plans(r, "restore", [Idle EXCEPT !.lift = lift])
      BY <2>1, PouredType
    <2>3. [Idle EXCEPT !.lift = lift] \in Request
      BY IdleType DEF Request
    <2> QED
      BY <2>2, <2>3, PlansType
  <1>7. CASE WriteOffRead(r)
    <2>1. PICK n \in 1..MaxUnits :
              \E take \in FromBins(n, QuantityOf(stock)), lift \in ReleaseParts(n, BlockedOf(stock)) :
                  Plans(r, "writeOff", [Idle EXCEPT !.take = take, !.lift = lift])
      BY <1>7 DEF WriteOffRead
    <2>2. PICK take \in Split, lift \in Split :
              Plans(r, "writeOff", [Idle EXCEPT !.take = take, !.lift = lift])
      BY <2>1, PouredType
    <2>3. [Idle EXCEPT !.take = take, !.lift = lift] \in Request
      BY IdleType DEF Request
    <2> QED
      BY <2>2, <2>3, PlansType
  <1>8. CASE PutawayRead(r)
    <2>1. PICK from \in Bins, to \in Bins, n \in 1..MaxUnits :
              Plans(r, "putaway",
                    [Idle EXCEPT !.take = Only(from, n), !.give = Only(to, n), !.bin = from])
      BY <1>8 DEF PutawayRead
    <2>2. Only(from, n) \in Split /\ Only(to, n) \in Split
      BY OnlyType
    <2>3. [Idle EXCEPT !.take = Only(from, n), !.give = Only(to, n), !.bin = from] \in Request
      BY <2>2, IdleType DEF Request
    <2> QED
      BY <2>1, <2>3, PlansType
  <1>9. CASE CountRead(r)
    <2>1. PICK found \in 0..MaxUnits :
              \/ \E take \in FromBins(OnHand(stock) - found, QuantityOf(stock)) :
                    Plans(r, "count", [Idle EXCEPT !.take = take])
              \/ \E n \in 1..found, b \in SurplusBins :
                    Plans(r, "count", [Idle EXCEPT !.give = Only(b, n)])
      BY <1>9 DEF CountRead
    <2>2. CASE \E take \in FromBins(OnHand(stock) - found, QuantityOf(stock)) :
                    Plans(r, "count", [Idle EXCEPT !.take = take])
      <3>1. PICK take \in Split : Plans(r, "count", [Idle EXCEPT !.take = take])
        BY <2>2, PouredType
      <3>2. [Idle EXCEPT !.take = take] \in Request
        BY IdleType DEF Request
      <3> QED
        BY <3>1, <3>2, PlansType
    <2>3. CASE \E n \in 1..found, b \in SurplusBins :
                    Plans(r, "count", [Idle EXCEPT !.give = Only(b, n)])
      <3>1. PICK n \in 1..found, b \in Bins : Plans(r, "count", [Idle EXCEPT !.give = Only(b, n)])
        BY <2>3 DEF SurplusBins
      <3>2. Only(b, n) \in Split
        BY OnlyType
      <3>3. [Idle EXCEPT !.give = Only(b, n)] \in Request
        BY <3>2, IdleType DEF Request
      <3> QED
        BY <3>1, <3>3, PlansType
    <2> QED
      BY <2>1, <2>2, <2>3
  <1>10. CASE BlockBinRead(r)
    <2> DEFINE free(b) == Only(b, AtLeastZero(Available(stock[b])))
    <2>1. PICK b \in Bins : Plans(r, "blockBin", [Idle EXCEPT !.bin = b, !.take = free(b)])
      BY <1>10 DEF BlockBinRead
    <2>2. AtLeastZero(Available(stock[b])) \in Nat
      BY DEF AtLeastZero, Available, TypeOK, Row
    <2>3. free(b) \in Split
      BY <2>2, OnlyType
    <2>4. [Idle EXCEPT !.bin = b, !.take = free(b)] \in Request
      BY <2>3, IdleType DEF Request
    <2> QED
      BY <2>1, <2>4, PlansType
  <1>11. CASE UnblockBinRead(r)
    <2> DEFINE back(b) == Only(b, Smaller(shelf[b].held, stock[b].blocked))
    <2>1. PICK b \in Bins :
              Plans(r, "unblockBin", [Idle EXCEPT !.bin = b, !.turn = shelf[b].turn, !.lift = back(b)])
      BY <1>11 DEF UnblockBinRead
    <2>2. Smaller(shelf[b].held, stock[b].blocked) \in Nat /\ shelf[b].turn \in Nat
      BY DEF Smaller, TypeOK, Row, Shelf
    <2>3. back(b) \in Split
      BY <2>2, OnlyType
    <2>4. [Idle EXCEPT !.bin = b, !.turn = shelf[b].turn, !.lift = back(b)] \in Request
      BY <2>2, <2>3, IdleType DEF Request
    <2> QED
      BY <2>1, <2>4, PlansType
  <1> QED
    BY <1>1, <1>2, <1>3, <1>4, <1>5, <1>6, <1>7, <1>8, <1>9, <1>10, <1>11

\* Every commit writes rows made by the statements above from the plan.
LEMMA CommitsType ==
    ASSUME TypeOK, NEW r \in Requests,
           \/ SaleCommit(r) \/ PlaceCommit(r) \/ ShipFree(r) \/ ShipCommit(r) \/ RejectCommit(r)
           \/ IsolateCommit(r) \/ RestoreCommit(r) \/ WriteOffCommit(r) \/ PutawayCommit(r)
           \/ CountCommit(r) \/ BlockBinCommit(r) \/ UnblockBinCommit(r)
    PROVE  TypeOK'
  <1> DEFINE take == requests[r].take
             give == requests[r].give
             lift == requests[r].lift
  <1>1. /\ take \in Split /\ give \in Split /\ lift \in Split
        /\ requests[r].need \in Nat /\ requests[r].bin \in Bins
    BY DEF TypeOK, Request
  <1>2. Closes(r) => requests' \in [Requests -> Request]
    BY IdleType DEF Closes, TypeOK
  <1>3. ASSUME NEW in \in Split, NEW out \in Split, Moves(in, out)
        PROVE  ledger' \in [Bins -> Int]
    BY <1>3 DEF Moves, TypeOK, Split
  <1> USE NothingType
  <1>4. CASE SaleCommit(r)
    <2>1. Taken(stock, take) \in [Bins -> Row]
      BY <1>4, <1>1, UnreservedIsOnHand, TakenType DEF SaleCommit, TypeOK
    <2> QED
      BY <1>4, <1>1, <1>2, <1>3, <2>1 DEF SaleCommit, Writes, TypeOK
  <1>5. CASE PlaceCommit(r)
    <2>1. Reserved(stock, take) \in [Bins -> Row]
      BY <1>1, HeldType DEF TypeOK
    <2>2. orders' \in [Orders -> Order]
      BY <1>5, <1>1 DEF PlaceCommit, TypeOK, Order
    <2> QED
      BY <1>5, <1>2, <2>1, <2>2 DEF PlaceCommit, Writes, TypeOK
  <1>6. CASE ShipFree(r)
    <2>1. PICK out \in Split : requests' = [requests EXCEPT ![r].phase = "freed", ![r].take = out]
      BY <1>6, PouredType DEF ShipFree
    <2>2. [requests[r] EXCEPT !.phase = "freed", !.take = out] \in Request
      BY DEF TypeOK, Request
    <2>3. requests' = [requests EXCEPT ![r] = [requests[r] EXCEPT !.phase = "freed", !.take = out]]
      BY <2>1 DEF TypeOK
    <2> QED
      BY <1>6, <2>2, <2>3 DEF ShipFree, TypeOK
  <1>7. CASE ShipCommit(r)
    <2>1. Released(stock, lift) \in [Bins -> Row]
      BY <1>1, HeldType DEF TypeOK
    <2>2. Taken(Released(stock, lift), take) \in [Bins -> Row]
      BY <1>7, <1>1, <2>1, UnreservedIsOnHand, TakenType DEF ShipCommit
    <2>3. orders' \in [Orders -> Order]
      BY <1>7 DEF ShipCommit, TypeOK, Order
    <2> QED
      BY <1>7, <1>1, <1>2, <1>3, <2>2, <2>3 DEF ShipCommit, Writes, TypeOK
  <1>8. CASE RejectCommit(r)
    <2>1. Released(stock, lift) \in [Bins -> Row]
      BY <1>1, HeldType DEF TypeOK
    <2>2. orders' \in [Orders -> Order]
      BY <1>8 DEF RejectCommit, TypeOK, Order
    <2> QED
      BY <1>8, <1>2, <2>1, <2>2 DEF RejectCommit, Writes, TypeOK
  <1>9. CASE IsolateCommit(r)
    <2>1. Blocked(stock, take) \in [Bins -> Row]
      BY <1>1, HeldType DEF TypeOK
    <2> QED
      BY <1>9, <1>2, <2>1 DEF IsolateCommit, Writes, TypeOK
  <1>10. CASE RestoreCommit(r)
    <2>1. Unblocked(stock, lift) \in [Bins -> Row]
      BY <1>1, HeldType DEF TypeOK
    <2> QED
      BY <1>10, <1>2, <2>1 DEF RestoreCommit, Writes, TypeOK
  <1>11. CASE WriteOffCommit(r)
    <2>1. Taken(stock, take) \in [Bins -> Row]
      BY <1>11, <1>1, TakenType DEF WriteOffCommit, TypeOK
    <2>2. Unblocked(Taken(stock, take), lift) \in [Bins -> Row]
      BY <1>1, <2>1, HeldType
    <2> QED
      BY <1>11, <1>1, <1>2, <1>3, <2>2 DEF WriteOffCommit, Writes, TypeOK
  <1>12. CASE PutawayCommit(r)
    <2>1. Taken(stock, take) \in [Bins -> Row]
      BY <1>12, <1>1, TakenType DEF PutawayCommit, TypeOK
    <2>2. Added(Taken(stock, take), give) \in [Bins -> Row]
      BY <1>1, <2>1, AddedType
    <2> QED
      BY <1>12, <1>1, <1>2, <1>3, <2>2 DEF PutawayCommit, Writes, TypeOK
  <1>13. CASE CountCommit(r)
    <2> DEFINE counted == Added(Taken(stock, take), give)
    <2>1. Taken(stock, take) \in [Bins -> Row]
      BY <1>13, <1>1, TakenType DEF CountCommit, TypeOK
    <2>2. counted \in [Bins -> Row]
      BY <1>1, <2>1, AddedType
    <2>3. Trimmed(counted) \in [Bins -> Row]
      BY <2>2, TrimmedType
    <2> HIDE DEF counted
    <2>4. \A b \in Bins : TrimHolds(counted[b]).reserved \in Nat
      <3> TAKE b \in Bins
      <3>1. counted[b] \in Row
        BY <2>2
      <3> QED
        BY <3>1, TrimType DEF Row
    <2>5. Tells(counted) => told' \in Split
      BY <2>4 DEF Tells, TypeOK, Split
    <2> QED
      BY <1>13, <1>1, <1>2, <1>3, <2>3, <2>5 DEF CountCommit, Writes, TypeOK, counted
  <1>14. CASE BlockBinCommit(r)
    <2>1. Blocked(stock, take) \in [Bins -> Row]
      BY <1>1, HeldType DEF TypeOK
    <2>2. shelf' \in [Bins -> Shelf]
      BY <1>14, <1>1 DEF BlockBinCommit, TypeOK, Shelf, Split
    <2> QED
      BY <1>14, <1>2, <2>1, <2>2 DEF BlockBinCommit, Writes, TypeOK
  <1>15. CASE UnblockBinCommit(r)
    <2>1. Unblocked(stock, lift) \in [Bins -> Row]
      BY <1>1, HeldType DEF TypeOK
    <2>2. shelf' \in [Bins -> Shelf]
      BY <1>15, <1>1 DEF UnblockBinCommit, TypeOK, Shelf
    <2> QED
      BY <1>15, <1>2, <2>1, <2>2 DEF UnblockBinCommit, Writes, TypeOK
  <1> QED
    BY <1>4, <1>5, <1>6, <1>7, <1>8, <1>9, <1>10, <1>11, <1>12, <1>13, <1>14, <1>15

LEMMA StepType == TypeOK /\ [Next]_vars => TypeOK'
  <1> SUFFICES ASSUME TypeOK, [Next]_vars PROVE TypeOK'
    OBVIOUS
  <1>1. CASE Receive
    <2>1. PICK n \in 1..MaxUnits :
              /\ stock' = Added(stock, Only(Unplaced, n))
              /\ Moves(Only(Unplaced, n), Nothing)
      BY <1>1 DEF Receive
    <2>2. Only(Unplaced, n) \in Split
      BY OnlyType, BinsAssumption
    <2>3. stock' \in [Bins -> Row]
      BY <2>1, <2>2, AddedType DEF TypeOK
    <2>4. ledger' \in [Bins -> Int]
      BY <2>1, <2>2, NothingType DEF Moves, TypeOK, Split
    <2> QED
      BY <1>1, <2>3, <2>4 DEF Receive, TypeOK
  <1>2. ASSUME NEW r \in Requests, Trade(r) \/ Warehouse(r)
        PROVE  TypeOK'
    BY <1>2, ReadsType, CommitsType DEF Trade, Warehouse
  <1>3. ASSUME NEW r \in Requests, Abandon(r)
        PROVE  TypeOK'
    BY <1>3, IdleType DEF Abandon, Closes, TypeOK
  <1>4. CASE UNCHANGED vars
    BY <1>4 DEF vars, TypeOK
  <1> QED
    BY <1>1, <1>2, <1>3, <1>4 DEF Next

\* The counters of every row stay natural numbers: no sale, shipment, write-off
\* or release, decided from however old a snapshot, drives one below zero.
THEOREM Typing == Spec => []TypeOK
  BY InitType, StepType, PTL DEF Spec

-----------------------------------------------------------------------------
(* The ledger. *)

\* What the statements do to the quantity of a row; holds do not touch it.
LEMMA QuantityWritten ==
    ASSUME NEW rows \in [Bins -> Row], NEW part \in Split, NEW b \in Bins
    PROVE  /\ Taken(rows, part)[b].quantity = rows[b].quantity - part[b]
           /\ Added(rows, part)[b].quantity = rows[b].quantity + part[b]
           /\ Reserved(rows, part)[b].quantity = rows[b].quantity
           /\ Released(rows, part)[b].quantity = rows[b].quantity
           /\ Blocked(rows, part)[b].quantity = rows[b].quantity
           /\ Unblocked(rows, part)[b].quantity = rows[b].quantity
           /\ Trimmed(rows)[b].quantity = rows[b].quantity
  BY DEF Taken, Added, Reserved, Released, Blocked, Unblocked, Trimmed, Row

LEMMA StepLedger == TypeOK /\ LedgerAgrees /\ [Next]_vars => LedgerAgrees'
  <1> SUFFICES ASSUME TypeOK, LedgerAgrees, [Next]_vars, NEW b \in Bins
               PROVE  ledger'[b] = stock'[b].quantity
    BY DEF LedgerAgrees
  <1> USE NothingType
  <1>1. stock[b] \in Row /\ ledger[b] = stock[b].quantity /\ Nothing[b] = 0
    BY DEF TypeOK, LedgerAgrees, Nothing
  <1>2. ASSUME UNCHANGED <<stock, ledger>>
        PROVE  ledger'[b] = stock'[b].quantity
    BY <1>1, <1>2
  <1>3. CASE Receive
    <2>1. PICK n \in 1..MaxUnits :
              /\ stock' = Added(stock, Only(Unplaced, n))
              /\ Moves(Only(Unplaced, n), Nothing)
      BY <1>3 DEF Receive
    <2>2. Only(Unplaced, n) \in Split
      BY OnlyType, BinsAssumption
    <2>3. stock'[b].quantity = stock[b].quantity + Only(Unplaced, n)[b]
      BY <2>1, <2>2, QuantityWritten DEF TypeOK
    <2>4. ledger'[b] = ledger[b] + Only(Unplaced, n)[b] - 0
      BY <2>1, <1>1 DEF Moves
    <2> QED
      BY <1>1, <2>2, <2>3, <2>4 DEF Row, Split
  <1>4. ASSUME NEW r \in Requests, Trade(r) \/ Warehouse(r)
        PROVE  ledger'[b] = stock'[b].quantity
    <2> DEFINE take == requests[r].take
               give == requests[r].give
               lift == requests[r].lift
    <2>1. take \in Split /\ give \in Split /\ lift \in Split
      BY DEF TypeOK, Request
    <2>2. CASE \/ SaleRead(r) \/ PlaceRead(r) \/ ShipRead(r) \/ RejectRead(r)
               \/ IsolateRead(r) \/ RestoreRead(r) \/ WriteOffRead(r) \/ PutawayRead(r)
               \/ CountRead(r) \/ BlockBinRead(r) \/ UnblockBinRead(r) \/ ShipFree(r)
      BY <2>2, <1>2 DEF SaleRead, PlaceRead, ShipRead, RejectRead, IsolateRead, RestoreRead,
            WriteOffRead, PutawayRead, CountRead, BlockBinRead, UnblockBinRead, ShipFree, Plans
    <2>3. CASE PlaceCommit(r)
      BY <2>3, <2>1, <1>1, QuantityWritten DEF PlaceCommit, Writes, TypeOK
    <2>4. CASE RejectCommit(r)
      BY <2>4, <2>1, <1>1, QuantityWritten DEF RejectCommit, Writes, TypeOK
    <2>5. CASE IsolateCommit(r)
      BY <2>5, <2>1, <1>1, QuantityWritten DEF IsolateCommit, Writes, TypeOK
    <2>6. CASE RestoreCommit(r)
      BY <2>6, <2>1, <1>1, QuantityWritten DEF RestoreCommit, Writes, TypeOK
    <2>7. CASE BlockBinCommit(r)
      BY <2>7, <2>1, <1>1, QuantityWritten DEF BlockBinCommit, Writes, TypeOK
    <2>8. CASE UnblockBinCommit(r)
      BY <2>8, <2>1, <1>1, QuantityWritten DEF UnblockBinCommit, Writes, TypeOK
    <2>9. CASE SaleCommit(r)
      <3>1. stock' = Taken(stock, take) /\ Moves(Nothing, take)
        BY <2>9 DEF SaleCommit, Writes
      <3>2. stock'[b].quantity = stock[b].quantity - take[b]
        BY <3>1, <2>1, QuantityWritten DEF TypeOK
      <3> QED
        BY <3>1, <3>2, <2>1, <1>1 DEF Moves, Row, Split
    <2>10. CASE ShipCommit(r)
      <3>1. stock' = Taken(Released(stock, lift), take) /\ Moves(Nothing, take)
        BY <2>10 DEF ShipCommit, Writes
      <3>2. Released(stock, lift) \in [Bins -> Row]
        BY <2>1, HeldType DEF TypeOK
      <3>3. stock'[b].quantity = stock[b].quantity - take[b]
        BY <3>1, <3>2, <2>1, QuantityWritten DEF TypeOK
      <3> QED
        BY <3>1, <3>3, <2>1, <1>1 DEF Moves, Row, Split
    <2>11. CASE WriteOffCommit(r)
      <3>1. stock' = Unblocked(Taken(stock, take), lift) /\ Moves(Nothing, take)
        BY <2>11 DEF WriteOffCommit, Writes
      <3>2. Taken(stock, take) \in [Bins -> Row]
        BY <2>11, <2>1, TakenType DEF WriteOffCommit, TypeOK
      <3>3. stock'[b].quantity = stock[b].quantity - take[b]
        BY <3>1, <3>2, <2>1, QuantityWritten DEF TypeOK
      <3> QED
        BY <3>1, <3>3, <2>1, <1>1 DEF Moves, Row, Split
    <2>12. CASE PutawayCommit(r)
      <3>1. stock' = Added(Taken(stock, take), give) /\ Moves(give, take)
        BY <2>12 DEF PutawayCommit, Writes
      <3>2. Taken(stock, take) \in [Bins -> Row]
        BY <2>12, <2>1, TakenType DEF PutawayCommit, TypeOK
      <3>3. stock'[b].quantity = stock[b].quantity - take[b] + give[b]
        BY <3>1, <3>2, <2>1, QuantityWritten DEF TypeOK
      <3> QED
        BY <3>1, <3>3, <2>1, <1>1 DEF Moves, TypeOK, Row, Split
    <2>13. CASE CountCommit(r)
      <3>1. stock' = Trimmed(Added(Taken(stock, take), give)) /\ Moves(give, take)
        BY <2>13 DEF CountCommit, Writes
      <3>2. Taken(stock, take) \in [Bins -> Row]
        BY <2>13, <2>1, TakenType DEF CountCommit, TypeOK
      <3>3. Added(Taken(stock, take), give) \in [Bins -> Row]
        BY <3>2, <2>1, AddedType
      <3>4. stock'[b].quantity = Added(Taken(stock, take), give)[b].quantity
        BY <3>1, <3>3, NothingType, QuantityWritten
      <3>5. stock'[b].quantity = stock[b].quantity - take[b] + give[b]
        BY <3>4, <3>2, <2>1, QuantityWritten DEF TypeOK
      <3> QED
        BY <3>1, <3>5, <2>1, <1>1 DEF Moves, TypeOK, Row, Split
    <2> QED
      BY <1>4, <2>2, <2>3, <2>4, <2>5, <2>6, <2>7, <2>8, <2>9, <2>10, <2>11, <2>12, <2>13
         DEF Trade, Warehouse
  <1>5. ASSUME NEW r \in Requests, Abandon(r)
        PROVE  ledger'[b] = stock'[b].quantity
    BY <1>5, <1>2 DEF Abandon
  <1>6. CASE UNCHANGED vars
    BY <1>6, <1>2 DEF vars
  <1> QED
    BY <1>3, <1>4, <1>5, <1>6 DEF Next

\* The quantity of every row is the sum of the movements of its bin, whatever
\* the requests and however they overlap, those that move goods between bins,
\* arrive without an address or are cut off halfway included.
THEOREM LedgerAlwaysAgrees == Spec => []LedgerAgrees
  <1>1. Init => LedgerAgrees
    BY StockAssumption DEF Init, LedgerAgrees, NoRow
  <1>2. TypeOK /\ LedgerAgrees /\ [Next]_vars => LedgerAgrees'
    BY StepLedger
  <1> QED
    BY <1>1, <1>2, Typing, PTL DEF Spec

-----------------------------------------------------------------------------
(* The promises. *)

LEMMA TakenKeepsPromise ==
    ASSUME NEW rows \in [Bins -> Row], NEW take \in Split, CoversUnreserved(rows, take),
           NEW b \in Bins, rows[b].reserved <= rows[b].quantity \/ take[b] > 0
    PROVE  Taken(rows, take)[b].reserved <= Taken(rows, take)[b].quantity
  BY DEF Taken, CoversUnreserved, Touched, Row, Split

LEMMA ReservedKeepsPromise ==
    ASSUME NEW rows \in [Bins -> Row], NEW part \in Split, CoversUnreserved(rows, part),
           NEW b \in Bins, rows[b].reserved <= rows[b].quantity
    PROVE  Reserved(rows, part)[b].reserved <= Reserved(rows, part)[b].quantity
  BY DEF Reserved, CoversUnreserved, Touched, Row, Split

LEMMA OthersKeepPromise ==
    ASSUME NEW rows \in [Bins -> Row], NEW part \in Split,
           NEW b \in Bins, rows[b].reserved <= rows[b].quantity
    PROVE  /\ Released(rows, part)[b].reserved <= Released(rows, part)[b].quantity
           /\ Added(rows, part)[b].reserved <= Added(rows, part)[b].quantity
           /\ Blocked(rows, part)[b].reserved <= Blocked(rows, part)[b].quantity
           /\ Unblocked(rows, part)[b].reserved <= Unblocked(rows, part)[b].quantity
  BY DEF Released, Added, Blocked, Unblocked, AtLeastZero, Row, Split

\* The cut that follows a count restores the promise whatever was counted.
LEMMA TrimmedKeepsPromise ==
    ASSUME NEW rows \in [Bins -> Row], NEW b \in Bins
    PROVE  Trimmed(rows)[b].reserved <= Trimmed(rows)[b].quantity
  <1>1. rows[b] \in Row
    OBVIOUS
  <1>2. Trimmed(rows)[b].reserved = rows[b].reserved - TrimHolds(rows[b]).reserved
    BY <1>1 DEF Trimmed, Row
  <1>3. Trimmed(rows)[b].quantity = rows[b].quantity
    BY <1>1 DEF Trimmed, Row
  <1> QED
    BY <1>1, <1>2, <1>3, TrimType

LEMMA StepPromises ==
    ASSUME {"writeOff", "putaway"} \cap Kinds = {}
    PROVE  TypeOK /\ PromisesCovered /\ [Next]_vars => PromisesCovered'
  <1> SUFFICES ASSUME TypeOK, PromisesCovered, [Next]_vars, NEW b \in Bins
               PROVE  stock'[b].reserved <= stock'[b].quantity
    BY DEF PromisesCovered
  <1>1. stock \in [Bins -> Row] /\ stock[b].reserved <= stock[b].quantity
    BY DEF TypeOK, PromisesCovered
  <1>2. CASE Receive
    <2>1. PICK n \in 1..MaxUnits : stock' = Added(stock, Only(Unplaced, n))
      BY <1>2 DEF Receive
    <2>2. Only(Unplaced, n) \in Split
      BY OnlyType, BinsAssumption
    <2> QED
      BY <1>1, <2>1, <2>2, OthersKeepPromise
  <1>3. ASSUME NEW r \in Requests, Trade(r) \/ Warehouse(r)
        PROVE  stock'[b].reserved <= stock'[b].quantity
    <2> DEFINE take == requests[r].take
               give == requests[r].give
               lift == requests[r].lift
    <2>1. take \in Split /\ give \in Split /\ lift \in Split
      BY DEF TypeOK, Request
    <2>2. CASE \/ SaleRead(r) \/ PlaceRead(r) \/ ShipRead(r) \/ RejectRead(r)
               \/ IsolateRead(r) \/ RestoreRead(r) \/ WriteOffRead(r) \/ PutawayRead(r)
               \/ CountRead(r) \/ BlockBinRead(r) \/ UnblockBinRead(r) \/ ShipFree(r)
      <3>1. stock' = stock
        BY <2>2 DEF SaleRead, PlaceRead, ShipRead, RejectRead, IsolateRead, RestoreRead,
              WriteOffRead, PutawayRead, CountRead, BlockBinRead, UnblockBinRead, ShipFree, Plans
      <3> QED
        BY <1>1, <3>1
    <2>3. CASE SaleCommit(r)
      BY <2>3, <2>1, <1>1, TakenKeepsPromise DEF SaleCommit, Writes
    <2>4. CASE PlaceCommit(r)
      BY <2>4, <2>1, <1>1, ReservedKeepsPromise DEF PlaceCommit, Writes
    <2>5. CASE ShipCommit(r)
      <3>1. Released(stock, lift) \in [Bins -> Row]
        BY <2>1, <1>1, HeldType
      <3>2. Released(stock, lift)[b].reserved <= Released(stock, lift)[b].quantity
        BY <2>1, <1>1, OthersKeepPromise
      <3> QED
        BY <2>5, <2>1, <3>1, <3>2, TakenKeepsPromise DEF ShipCommit, Writes
    <2>6. CASE RejectCommit(r)
      BY <2>6, <2>1, <1>1, OthersKeepPromise DEF RejectCommit, Writes
    <2>7. CASE IsolateCommit(r)
      BY <2>7, <2>1, <1>1, OthersKeepPromise DEF IsolateCommit, Writes
    <2>8. CASE RestoreCommit(r)
      BY <2>8, <2>1, <1>1, OthersKeepPromise DEF RestoreCommit, Writes
    <2>9. CASE WriteOffCommit(r) \/ PutawayCommit(r)
      BY <2>9 DEF WriteOffCommit, PutawayCommit, Handling, TypeOK, Request
    <2>10. CASE CountCommit(r)
      <3>1. Taken(stock, take) \in [Bins -> Row]
        BY <2>10, <2>1, TakenType DEF CountCommit, TypeOK
      <3>2. Added(Taken(stock, take), give) \in [Bins -> Row]
        BY <3>1, <2>1, AddedType
      <3> QED
        BY <2>10, <3>2, TrimmedKeepsPromise DEF CountCommit, Writes
    <2>11. CASE BlockBinCommit(r)
      BY <2>11, <2>1, <1>1, OthersKeepPromise DEF BlockBinCommit, Writes
    <2>12. CASE UnblockBinCommit(r)
      BY <2>12, <2>1, <1>1, OthersKeepPromise DEF UnblockBinCommit, Writes
    <2> QED
      BY <1>3, <2>2, <2>3, <2>4, <2>5, <2>6, <2>7, <2>8, <2>9, <2>10, <2>11, <2>12
         DEF Trade, Warehouse
  <1>4. ASSUME NEW r \in Requests, Abandon(r)
        PROVE  stock'[b].reserved <= stock'[b].quantity
    BY <1>4, <1>1 DEF Abandon
  <1>5. CASE UNCHANGED vars
    BY <1>5, <1>1 DEF vars
  <1> QED
    BY <1>2, <1>3, <1>4, <1>5 DEF Next

\* Without write-offs and putaways no bin is ever promised out of more than it
\* holds, for any number of sales, orders, shipments, counts, quarantines and
\* blocked shelves that overlap in any way.
THEOREM PromisesAlwaysCovered ==
    ASSUME {"writeOff", "putaway"} \cap Kinds = {}
    PROVE  Spec => []PromisesCovered
  <1>1. Init => PromisesCovered
    BY StockAssumption DEF Init, PromisesCovered, NoRow
  <1>2. TypeOK /\ PromisesCovered /\ [Next]_vars => PromisesCovered'
    BY StepPromises
  <1> QED
    BY <1>1, <1>2, Typing, PTL DEF Spec

\* The request that a step serves is the only one whose plan changes, and only
\* its commit writes rows.
LEMMA StepTrade ==
    ASSUME TypeOK, [Next]_vars, NEW r \in Requests, NEW b \in Bins,
           requests[r].kind \in {"sale", "ship"}, requests'[r] # requests[r],
           stock'[b].quantity < stock[b].quantity
    PROVE  stock'[b].reserved <= stock'[b].quantity
  <1> DEFINE take == requests[r].take
             lift == requests[r].lift
  <1>1. /\ stock \in [Bins -> Row] /\ stock[b].quantity \in Nat
        /\ take \in Split /\ lift \in Split /\ take[b] \in Nat
    BY DEF TypeOK, Request, Row, Split
  <1>2. stock' # stock
    BY <1>1
  <1>3. PICK s \in Requests : Trade(s) \/ Warehouse(s)
    BY <1>2 DEF Next, Receive, Abandon, vars
  <1>4. s = r
    <2>1. CASE \/ SaleCommit(s) \/ PlaceCommit(s) \/ ShipCommit(s) \/ RejectCommit(s)
               \/ IsolateCommit(s) \/ RestoreCommit(s) \/ WriteOffCommit(s) \/ PutawayCommit(s)
               \/ CountCommit(s) \/ BlockBinCommit(s) \/ UnblockBinCommit(s)
      BY <2>1 DEF SaleCommit, PlaceCommit, ShipCommit, RejectCommit, IsolateCommit, RestoreCommit,
            WriteOffCommit, PutawayCommit, CountCommit, BlockBinCommit, UnblockBinCommit, Closes, TypeOK
    <2>2. CASE \/ SaleRead(s) \/ PlaceRead(s) \/ ShipRead(s) \/ RejectRead(s)
               \/ IsolateRead(s) \/ RestoreRead(s) \/ WriteOffRead(s) \/ PutawayRead(s)
               \/ CountRead(s) \/ BlockBinRead(s) \/ UnblockBinRead(s) \/ ShipFree(s)
      BY <2>2, <1>2 DEF SaleRead, PlaceRead, ShipRead, RejectRead, IsolateRead, RestoreRead,
            WriteOffRead, PutawayRead, CountRead, BlockBinRead, UnblockBinRead, ShipFree, Plans
    <2> QED
      BY <1>3, <2>1, <2>2 DEF Trade, Warehouse
  <1>5. SaleCommit(r) \/ ShipCommit(r)
    BY <1>2, <1>3, <1>4 DEF Trade, Warehouse, Handling, Plans,
          SaleRead, PlaceRead, ShipRead, RejectRead, IsolateRead, RestoreRead, WriteOffRead,
          PutawayRead, CountRead, BlockBinRead, UnblockBinRead, ShipFree, PlaceCommit, RejectCommit,
          IsolateCommit, RestoreCommit, WriteOffCommit, PutawayCommit, CountCommit,
          BlockBinCommit, UnblockBinCommit
  <1>6. CASE SaleCommit(r)
    <2>1. stock' = Taken(stock, take) /\ CoversUnreserved(stock, take)
      BY <1>6 DEF SaleCommit, Writes
    <2>2. take[b] > 0
      BY <1>1, <2>1, QuantityWritten
    <2> QED
      BY <1>1, <2>1, <2>2, TakenKeepsPromise
  <1>7. CASE ShipCommit(r)
    <2>1. /\ stock' = Taken(Released(stock, lift), take)
          /\ CoversUnreserved(Released(stock, lift), take)
      BY <1>7 DEF ShipCommit, Writes
    <2>2. Released(stock, lift) \in [Bins -> Row]
      BY <1>1, HeldType
    <2>3. stock'[b].quantity = stock[b].quantity - take[b]
      BY <1>1, <2>1, <2>2, QuantityWritten
    <2>4. take[b] > 0
      BY <1>1, <2>3
    <2> QED
      BY <1>1, <2>1, <2>2, <2>4, TakenKeepsPromise
  <1> QED
    BY <1>5, <1>6, <1>7

\* A row that a sale or a shipment has taken from still covers what it holds for
\* open orders, beside write-offs and putaways that leave rows short.
THEOREM TradeAlwaysKeepsPromises == Spec => TradeKeepsPromises
  <1>1. TypeOK /\ [Next]_vars =>
            [\A r \in Requests, b \in Bins :
                /\ requests[r].kind \in {"sale", "ship"}
                /\ requests'[r] # requests[r]
                /\ stock'[b].quantity < stock[b].quantity
                => stock'[b].reserved <= stock'[b].quantity]_vars
    BY StepTrade
  <1> QED
    BY <1>1, Typing, PTL DEF Spec, TradeKeepsPromises

-----------------------------------------------------------------------------
(* What is held out of sale. *)

LEMMA ReadsWriteNothing ==
    ASSUME NEW r \in Requests,
           \/ SaleRead(r) \/ PlaceRead(r) \/ ShipRead(r) \/ RejectRead(r)
           \/ IsolateRead(r) \/ RestoreRead(r) \/ WriteOffRead(r) \/ PutawayRead(r)
           \/ CountRead(r) \/ BlockBinRead(r) \/ UnblockBinRead(r) \/ ShipFree(r)
    PROVE  stock' = stock
  <1>1. \A kind, plan : Plans(r, kind, plan) => stock' = stock
    BY DEF Plans
  <1>2. CASE SaleRead(r) \/ PlaceRead(r) \/ ShipRead(r) \/ RejectRead(r)
    BY <1>1, <1>2 DEF SaleRead, PlaceRead, ShipRead, RejectRead
  <1>3. CASE IsolateRead(r) \/ RestoreRead(r) \/ WriteOffRead(r) \/ PutawayRead(r)
    BY <1>1, <1>3 DEF IsolateRead, RestoreRead, WriteOffRead, PutawayRead
  <1>4. CASE CountRead(r) \/ BlockBinRead(r) \/ UnblockBinRead(r) \/ ShipFree(r)
    BY <1>1, <1>4 DEF CountRead, BlockBinRead, UnblockBinRead, ShipFree
  <1> QED
    BY <1>2, <1>3, <1>4

LEMMA BlockedFits ==
    ASSUME NEW rows \in [Bins -> Row], NEW part \in Split, CoversAvailable(rows, part),
           NEW b \in Bins, Available(rows[b]) >= 0
    PROVE  Available(Blocked(rows, part)[b]) >= 0
  BY DEF Blocked, CoversAvailable, Available, Touched, Row, Split

LEMMA OthersFit ==
    ASSUME NEW rows \in [Bins -> Row], NEW part \in Split,
           NEW b \in Bins, Available(rows[b]) >= 0
    PROVE  /\ Available(Released(rows, part)[b]) >= 0
           /\ Available(Added(rows, part)[b]) >= 0
           /\ Available(Unblocked(rows, part)[b]) >= 0
  BY DEF Released, Added, Unblocked, Available, AtLeastZero, Row, Split

\* The cut that follows a count takes off the whole overhang, quarantine first.
LEMMA TrimmedFits ==
    ASSUME NEW rows \in [Bins -> Row], NEW b \in Bins
    PROVE  Available(Trimmed(rows)[b]) >= 0
  <1> DEFINE row == rows[b]
             cut == TrimHolds(row)
  <1>1. row \in Row
    OBVIOUS
  <1>2. /\ cut.reserved \in 0..row.reserved /\ cut.blocked \in 0..row.blocked
        /\ row.reserved + row.blocked - cut.reserved - cut.blocked <= row.quantity
    BY <1>1 DEF TrimHolds, AtLeastZero, Smaller, Row
  <1> HIDE DEF cut
  <1>3. Trimmed(rows)[b] = [row EXCEPT !.reserved = @ - cut.reserved, !.blocked = @ - cut.blocked]
    BY DEF Trimmed, cut
  <1> QED
    BY <1>1, <1>2, <1>3 DEF Available, Row

\* The kinds that look at promises and not at quarantine, or at neither.
Careless == {"sale", "place", "ship", "writeOff", "putaway"}

LEMMA StepFits ==
    ASSUME TypeOK, HoldsFit, [Next]_vars, \A r \in Requests : requests[r].kind \notin Careless
    PROVE  HoldsFit'
  <1> SUFFICES ASSUME NEW b \in Bins PROVE Available(stock'[b]) >= 0
    BY DEF HoldsFit
  <1>1. stock \in [Bins -> Row] /\ Available(stock[b]) >= 0
    BY DEF TypeOK, HoldsFit
  <1>2. CASE Receive
    <2>1. PICK n \in 1..MaxUnits : stock' = Added(stock, Only(Unplaced, n))
      BY <1>2 DEF Receive
    <2>2. Only(Unplaced, n) \in Split
      BY OnlyType, BinsAssumption
    <2> QED
      BY <1>1, <2>1, <2>2, OthersFit
  <1>3. ASSUME NEW r \in Requests, Trade(r) \/ Warehouse(r)
        PROVE  Available(stock'[b]) >= 0
    <2> DEFINE take == requests[r].take
               give == requests[r].give
               lift == requests[r].lift
    <2>1. take \in Split /\ give \in Split /\ lift \in Split
      BY DEF TypeOK, Request
    <2>2. CASE \/ SaleRead(r) \/ PlaceRead(r) \/ ShipRead(r) \/ RejectRead(r)
               \/ IsolateRead(r) \/ RestoreRead(r) \/ WriteOffRead(r) \/ PutawayRead(r)
               \/ CountRead(r) \/ BlockBinRead(r) \/ UnblockBinRead(r) \/ ShipFree(r)
      BY <1>1, <2>2, ReadsWriteNothing
    <2>3. CASE SaleCommit(r) \/ PlaceCommit(r) \/ ShipCommit(r) \/ WriteOffCommit(r) \/ PutawayCommit(r)
      <3>1. requests[r].kind \in Careless
        BY <2>3 DEF SaleCommit, PlaceCommit, ShipCommit, WriteOffCommit, PutawayCommit, Handling, Careless
      <3> QED
        BY <3>1
    <2>4. CASE RejectCommit(r)
      BY <2>4, <2>1, <1>1, OthersFit DEF RejectCommit, Writes
    <2>5. CASE IsolateCommit(r)
      BY <2>5, <2>1, <1>1, BlockedFits DEF IsolateCommit, Writes
    <2>6. CASE RestoreCommit(r)
      BY <2>6, <2>1, <1>1, OthersFit DEF RestoreCommit, Writes
    <2>7. CASE CountCommit(r)
      <3>1. Taken(stock, take) \in [Bins -> Row]
        BY <2>7, <2>1, TakenType DEF CountCommit, TypeOK
      <3>2. Added(Taken(stock, take), give) \in [Bins -> Row]
        BY <3>1, <2>1, AddedType
      <3> QED
        BY <2>7, <3>2, TrimmedFits DEF CountCommit, Writes
    <2>8. CASE BlockBinCommit(r)
      BY <2>8, <2>1, <1>1, BlockedFits DEF BlockBinCommit, Writes
    <2>9. CASE UnblockBinCommit(r)
      BY <2>9, <2>1, <1>1, OthersFit DEF UnblockBinCommit, Writes
    <2> QED
      BY <1>3, <2>2, <2>3, <2>4, <2>5, <2>6, <2>7, <2>8, <2>9 DEF Trade, Warehouse
  <1>4. ASSUME NEW r \in Requests, Abandon(r)
        PROVE  Available(stock'[b]) >= 0
    BY <1>4, <1>1 DEF Abandon
  <1>5. CASE UNCHANGED vars
    BY <1>5, <1>1 DEF vars
  <1> QED
    BY <1>2, <1>3, <1>4, <1>5 DEF Next

\* Where goods are only isolated, restored, blocked by the shelf, counted,
\* delivered and orders rejected, no row holds out of sale more than it has,
\* whoever isolates or counts beside whom (blockStock, trimHoldsToStock).
THEOREM HoldsAlwaysFit ==
    ASSUME Careless \cap Kinds = {}
    PROVE  Spec => []HoldsFit
  <1>1. Init => HoldsFit
    BY StockAssumption DEF Init, HoldsFit, NoRow, Available
  <1>2. TypeOK /\ HoldsFit /\ [Next]_vars => HoldsFit'
    <2>1. TypeOK => \A r \in Requests : requests[r].kind \notin Careless
      BY DEF TypeOK, Request, Careless
    <2> QED
      BY <2>1, StepFits
  <1> QED
    BY <1>1, <1>2, Typing, PTL DEF Spec

(* Sums over the bins. *)

LEMMA SumOfSplit ==
    ASSUME NEW f, DOMAIN f = Bins, \A b \in Bins : f[b] \in Nat
    PROVE  Sum(f) = SumOver(f, Bins) /\ Sum(f) \in Nat
  BY SumIsOverDomain, SumOverNat, BinsAssumption

LEMMA SplitSum ==
    ASSUME NEW part \in Split
    PROVE  Sum(part) = SumOver(part, Bins) /\ Sum(part) \in Nat
  <1>1. DOMAIN part = Bins /\ \A b \in Bins : part[b] \in Nat
    BY DEF Split
  <1> QED
    BY <1>1, SumOfSplit

LEMMA NothingSum == Sum(Nothing) = 0
  <1>1. Nothing \in Split /\ \A b \in Bins : Nothing[b] = 0
    BY NothingType DEF Nothing
  <1>2. \A b \in Bins : Nothing[b] \in Int /\ Nothing[b] = Nothing[b] + Nothing[b]
    BY <1>1
  <1>3. SumOver(Nothing, Bins) = SumOver(Nothing, Bins) + SumOver(Nothing, Bins)
    BY <1>2, SumOverPlus, BinsAssumption
  <1>4. Sum(Nothing) = SumOver(Nothing, Bins) /\ Sum(Nothing) \in Nat
    BY <1>1, SplitSum
  <1>5. \A n \in Nat : n = n + n => n = 0
    OBVIOUS
  <1>6. SumOver(Nothing, Bins) = 0
    BY <1>3, <1>4, <1>5
  <1> QED
    BY <1>4, <1>6

LEMMA FigureTypes ==
    ASSUME NEW rows \in [Bins -> Row]
    PROVE  /\ QuantityOf(rows) \in Split
           /\ ReservedOf(rows) \in Split
           /\ BlockedOf(rows) \in Split
           /\ OnHand(rows) \in Nat
           /\ Held(rows) \in Nat
  <1>1. /\ QuantityOf(rows) \in Split
        /\ ReservedOf(rows) \in Split
        /\ BlockedOf(rows) \in Split
    BY DEF QuantityOf, ReservedOf, BlockedOf, Split, Row
  <1> QED
    BY <1>1, SplitSum DEF OnHand, Held

\* What a change of the rows does to the sum, when it is a split in every bin.
LEMMA SplitPlus ==
    ASSUME NEW f \in Split, NEW h \in Split, NEW k \in Split,
           \A b \in Bins : k[b] = f[b] + h[b]
    PROVE  Sum(k) = Sum(f) + Sum(h)
  <1>1. \A b \in Bins : f[b] \in Int /\ h[b] \in Int /\ k[b] = f[b] + h[b]
    BY DEF Split
  <1>2. SumOver(k, Bins) = SumOver(f, Bins) + SumOver(h, Bins)
    BY <1>1, SumOverPlus, BinsAssumption
  <1> QED
    BY <1>2, SplitSum

LEMMA SplitSmaller ==
    ASSUME NEW f \in Split, NEW h \in Split, \A b \in Bins : f[b] <= h[b]
    PROVE  Sum(f) <= Sum(h)
  <1>1. \A b \in Bins : f[b] \in Int /\ h[b] \in Int /\ f[b] <= h[b]
    BY DEF Split
  <1>2. SumOver(f, Bins) <= SumOver(h, Bins)
    BY <1>1, SumOverMonotone, BinsAssumption
  <1> QED
    BY <1>2, SplitSum

LEMMA SplitSame ==
    ASSUME NEW f \in Split, NEW h \in Split, \A b \in Bins : f[b] = h[b]
    PROVE  f = h
  BY DEF Split

LEMMA SplitPositive ==
    ASSUME NEW f \in Split, NEW b \in Bins, f[b] > 0
    PROVE  Sum(f) > 0
  <1>1. Only(b, f[b]) \in Split /\ f[b] \in Nat
    BY OnlyType DEF Split
  <1>2. \A c \in Bins : Only(b, f[b])[c] <= f[c]
    BY DEF Only, Nothing, Split
  <1>3. Sum(Only(b, f[b])) <= Sum(f)
    BY <1>1, <1>2, SplitSmaller
  <1>4. Sum(Only(b, f[b])) = Sum(Nothing) + f[b] - Nothing[b]
    <2>1. \A c \in Bins : Nothing[c] \in Int /\ Only(b, f[b])[c] \in Int
      BY <1>1, NothingType DEF Split
    <2>2. \A c \in Bins \ {b} : Only(b, f[b])[c] = Nothing[c]
      BY DEF Only, Nothing
    <2>3. Only(b, f[b])[b] = f[b]
      BY DEF Only, Nothing
    <2>4. SumOver(Only(b, f[b]), Bins) = SumOver(Nothing, Bins) + Only(b, f[b])[b] - Nothing[b]
      BY ZenonT(60), <2>1, <2>2, SumOverChange, BinsAssumption
    <2> QED
      BY <2>3, <2>4, <1>1, SplitSum, NothingType
  <1>5. Nothing[b] = 0
    BY DEF Nothing
  <1> QED
    BY <1>1, <1>3, <1>4, <1>5, NothingSum, SplitSum

LEMMA OnlySum ==
    ASSUME NEW b \in Bins, NEW n \in Nat
    PROVE  Sum(Only(b, n)) = n
  <1>1. Only(b, n) \in Split
    BY OnlyType
  <1>2. \A c \in Bins : Nothing[c] \in Int /\ Only(b, n)[c] \in Int
    BY <1>1, NothingType DEF Split
  <1>3. \A c \in Bins \ {b} : Only(b, n)[c] = Nothing[c]
    BY DEF Only, Nothing
  <1>4. Only(b, n)[b] = n /\ Nothing[b] = 0
    BY DEF Only, Nothing
  <1>5. SumOver(Only(b, n), Bins) = SumOver(Nothing, Bins) + Only(b, n)[b] - Nothing[b]
    BY ZenonT(60), <1>2, <1>3, SumOverChange, BinsAssumption
  <1> QED
    BY <1>1, <1>4, <1>5, SplitSum, NothingSum, NothingType

-----------------------------------------------------------------------------
(* What the statements do to the goods and to the holds. *)

LEMMA TakenFigures ==
    ASSUME NEW rows \in [Bins -> Row], NEW take \in Split, CoversOnHand(rows, take)
    PROVE  /\ OnHand(Taken(rows, take)) = OnHand(rows) - Sum(take)
           /\ Held(Taken(rows, take)) = Held(rows)
  <1> DEFINE after == Taken(rows, take)
  <1>1. after \in [Bins -> Row]
    BY TakenType
  <1>2. \A b \in Bins : after[b].quantity = rows[b].quantity - take[b] /\ after[b].reserved = rows[b].reserved
    BY DEF Taken, Row
  <1>3. \A b \in Bins : rows[b].quantity \in Nat /\ take[b] \in Nat /\ after[b].quantity \in Nat
    BY <1>1 DEF Row, Split
  <1> HIDE DEF after
  <1>4. \A b \in Bins : QuantityOf(rows)[b] = QuantityOf(after)[b] + take[b]
    BY <1>2, <1>3 DEF QuantityOf
  <1>5. \A b \in Bins : ReservedOf(rows)[b] = ReservedOf(after)[b]
    BY <1>2 DEF ReservedOf
  <1>6. ReservedOf(rows) = ReservedOf(after)
    BY <1>1, <1>5, FigureTypes, SplitSame
  <1>7. OnHand(rows) = OnHand(after) + Sum(take)
    BY <1>1, <1>4, FigureTypes, SplitPlus DEF OnHand
  <1>8. OnHand(rows) \in Nat /\ OnHand(after) \in Nat /\ Sum(take) \in Nat
    BY <1>1, FigureTypes, SplitSum
  <1> QED
    BY <1>6, <1>7, <1>8 DEF Held, after

LEMMA AddedFigures ==
    ASSUME NEW rows \in [Bins -> Row], NEW give \in Split
    PROVE  /\ OnHand(Added(rows, give)) = OnHand(rows) + Sum(give)
           /\ Held(Added(rows, give)) = Held(rows)
  <1> DEFINE after == Added(rows, give)
  <1>1. after \in [Bins -> Row]
    BY AddedType
  <1>2. \A b \in Bins : after[b].quantity = rows[b].quantity + give[b] /\ after[b].reserved = rows[b].reserved
    BY DEF Added, Row
  <1> HIDE DEF after
  <1>4. \A b \in Bins : QuantityOf(after)[b] = QuantityOf(rows)[b] + give[b]
    BY <1>2 DEF QuantityOf
  <1>5. \A b \in Bins : ReservedOf(rows)[b] = ReservedOf(after)[b]
    BY <1>2 DEF ReservedOf
  <1>6. ReservedOf(rows) = ReservedOf(after)
    BY <1>1, <1>5, FigureTypes, SplitSame
  <1>7. OnHand(after) = OnHand(rows) + Sum(give)
    BY <1>1, <1>4, FigureTypes, SplitPlus DEF OnHand
  <1> QED
    BY <1>6, <1>7 DEF Held, after

LEMMA ReservedFigures ==
    ASSUME NEW rows \in [Bins -> Row], NEW part \in Split
    PROVE  /\ OnHand(Reserved(rows, part)) = OnHand(rows)
           /\ Held(Reserved(rows, part)) = Held(rows) + Sum(part)
  <1> DEFINE after == Reserved(rows, part)
  <1>1. after \in [Bins -> Row]
    BY HeldType
  <1>2. \A b \in Bins : after[b].quantity = rows[b].quantity /\ after[b].reserved = rows[b].reserved + part[b]
    BY DEF Reserved, Row
  <1> HIDE DEF after
  <1>4. \A b \in Bins : ReservedOf(after)[b] = ReservedOf(rows)[b] + part[b]
    BY <1>2 DEF ReservedOf
  <1>5. \A b \in Bins : QuantityOf(rows)[b] = QuantityOf(after)[b]
    BY <1>2 DEF QuantityOf
  <1>6. QuantityOf(rows) = QuantityOf(after)
    BY <1>1, <1>5, FigureTypes, SplitSame
  <1>7. Held(after) = Held(rows) + Sum(part)
    BY <1>1, <1>4, FigureTypes, SplitPlus DEF Held
  <1> QED
    BY <1>6, <1>7 DEF OnHand, after

\* The floor at zero may only lift less than it is asked to.
LEMMA ReleasedFigures ==
    ASSUME NEW rows \in [Bins -> Row], NEW part \in Split
    PROVE  /\ OnHand(Released(rows, part)) = OnHand(rows)
           /\ Held(rows) - Sum(part) <= Held(Released(rows, part))
  <1> DEFINE after == Released(rows, part)
             both == [b \in Bins |-> after[b].reserved + part[b]]
  <1>1. after \in [Bins -> Row]
    BY HeldType
  <1>2. \A b \in Bins : after[b].quantity = rows[b].quantity /\ rows[b].reserved <= after[b].reserved + part[b]
    BY DEF Released, AtLeastZero, Row, Split
  <1> HIDE DEF after
  <1>3. both \in Split
    BY <1>1 DEF Split, Row
  <1>4. \A b \in Bins : both[b] = ReservedOf(after)[b] + part[b] /\ ReservedOf(rows)[b] <= both[b]
    BY <1>2 DEF ReservedOf
  <1> HIDE DEF both
  <1>5. \A b \in Bins : QuantityOf(rows)[b] = QuantityOf(after)[b]
    BY <1>2 DEF QuantityOf
  <1>6. QuantityOf(rows) = QuantityOf(after)
    BY <1>1, <1>5, FigureTypes, SplitSame
  <1>7. Sum(both) = Held(after) + Sum(part)
    BY <1>1, <1>3, <1>4, FigureTypes, SplitPlus DEF Held
  <1>8. Held(rows) <= Sum(both)
    BY <1>3, <1>4, FigureTypes, SplitSmaller DEF Held
  <1>9. Held(rows) \in Nat /\ Held(after) \in Nat /\ Sum(part) \in Nat
    BY <1>1, FigureTypes, SplitSum
  <1>10. Held(rows) - Sum(part) <= Held(after)
    BY <1>7, <1>8, <1>9
  <1> QED
    BY <1>6, <1>10 DEF OnHand, after

LEMMA BlockedFigures ==
    ASSUME NEW rows \in [Bins -> Row], NEW part \in Split
    PROVE  /\ OnHand(Blocked(rows, part)) = OnHand(rows)
           /\ Held(Blocked(rows, part)) = Held(rows)
           /\ OnHand(Unblocked(rows, part)) = OnHand(rows)
           /\ Held(Unblocked(rows, part)) = Held(rows)
  <1>1. /\ Blocked(rows, part) \in [Bins -> Row]
        /\ Unblocked(rows, part) \in [Bins -> Row]
    BY HeldType
  <1>2. \A b \in Bins : /\ Blocked(rows, part)[b].quantity = rows[b].quantity
                        /\ Blocked(rows, part)[b].reserved = rows[b].reserved
    BY DEF Blocked, Row
  <1>3. \A b \in Bins : /\ Unblocked(rows, part)[b].quantity = rows[b].quantity
                        /\ Unblocked(rows, part)[b].reserved = rows[b].reserved
    BY DEF Unblocked, Row
  <1>4. ASSUME NEW after \in [Bins -> Row],
               \A b \in Bins : /\ after[b].quantity = rows[b].quantity
                               /\ after[b].reserved = rows[b].reserved
        PROVE  OnHand(after) = OnHand(rows) /\ Held(after) = Held(rows)
    <2>1. QuantityOf(after) = QuantityOf(rows) /\ ReservedOf(after) = ReservedOf(rows)
      BY <1>4 DEF QuantityOf, ReservedOf
    <2> QED
      BY <2>1 DEF OnHand, Held
  <1> QED
    BY <1>1, <1>2, <1>3, <1>4

\* A count lets go of what it says it lets go of.
LEMMA TrimmedFigures ==
    ASSUME NEW rows \in [Bins -> Row],
           NEW gone \in Split, \A b \in Bins : gone[b] = TrimHolds(rows[b]).reserved
    PROVE  /\ OnHand(Trimmed(rows)) = OnHand(rows)
           /\ Held(Trimmed(rows)) = Held(rows) - Sum(gone)
  <1> DEFINE after == Trimmed(rows)
  <1>1. after \in [Bins -> Row]
    BY TrimmedType
  <1>2. ASSUME NEW row \in Row, NEW r \in Nat, NEW k \in Nat
        PROVE  LET cut == [row EXCEPT !.reserved = @ - r, !.blocked = @ - k]
               IN cut.quantity = row.quantity /\ cut.reserved = row.reserved - r
    BY DEF Row
  <1>3. \A b \in Bins : after[b].quantity = rows[b].quantity /\ after[b].reserved = rows[b].reserved - gone[b]
    <2> TAKE b \in Bins
    <2>1. rows[b] \in Row
      OBVIOUS
    <2>2. TrimHolds(rows[b]).reserved \in Nat /\ TrimHolds(rows[b]).blocked \in Nat
      BY <2>1, TrimType DEF Row
    <2>3. after[b] = [rows[b] EXCEPT !.reserved = @ - TrimHolds(rows[b]).reserved,
                                     !.blocked = @ - TrimHolds(rows[b]).blocked]
      BY DEF Trimmed
    <2> QED
      BY <1>2, <2>1, <2>2, <2>3
  <1> HIDE DEF after
  <1>4. \A b \in Bins : ReservedOf(rows)[b] = ReservedOf(after)[b] + gone[b]
    <2> TAKE b \in Bins
    <2>1. rows[b].reserved \in Nat /\ after[b].reserved \in Nat /\ gone[b] \in Nat
      BY <1>1 DEF Row, Split
    <2> QED
      BY <1>3, <2>1 DEF ReservedOf
  <1>5. \A b \in Bins : QuantityOf(rows)[b] = QuantityOf(after)[b]
    BY <1>3 DEF QuantityOf
  <1>6. QuantityOf(rows) = QuantityOf(after)
    BY <1>1, <1>5, FigureTypes, SplitSame
  <1>7. Held(rows) = Held(after) + Sum(gone)
    BY <1>1, <1>4, FigureTypes, SplitPlus DEF Held
  <1>8. Held(rows) \in Nat /\ Held(after) \in Nat /\ Sum(gone) \in Nat
    BY <1>1, FigureTypes, SplitSum
  <1> QED
    BY <1>6, <1>7, <1>8 DEF OnHand, after

\* What a release plans to lift is never more than it was asked for.
LEMMA ReleaseSize ==
    ASSUME NEW size \in Nat, NEW hold \in Split, NEW lift \in ReleaseParts(size, hold)
    PROVE  lift \in Split /\ Sum(lift) <= size
  <1> DEFINE Before(c, b) == hold[c] > hold[b] \/ (hold[c] = hold[b] /\ c < b)
             R == {p \in Bins \X Bins : Before(p[1], p[2])}
             open == [b \in Bins |-> AtLeastZero(hold[b])]
  <1>1. lift \in Split
    BY PouredType
  <1>2. lift = [b \in Bins |->
                  Smaller(open[b], AtLeastZero(size - SumOver(open, {c \in Bins : Before(c, b)})))]
    BY DEF ReleaseParts, PouredSet, Poured
  <1>3. IsOrder(R, Bins)
    <2>1. \A b, c \in Bins : <<c, b>> \in R <=> Before(c, b)
      OBVIOUS
    <2>2. \A b \in Bins : b \in Nat /\ hold[b] \in Nat
      BY BinsAssumption DEF Split
    <2>3. \A b \in Bins : ~Before(b, b)
      BY <2>2
    <2>4. \A b, c, d \in Bins : Before(b, c) /\ Before(c, d) => Before(b, d)
      BY <2>2
    <2>5. \A b, c \in Bins : b # c => Before(b, c) \/ Before(c, b)
      BY <2>2
    <2> HIDE DEF R, Before
    <2> QED
      BY <2>1, <2>3, <2>4, <2>5 DEF IsOrder
  <1>4. \A b \in Bins : {c \in Bins : Before(c, b)} = {c \in Bins : <<c, b>> \in R}
    OBVIOUS
  <1>5. \A b \in Bins : open[b] \in Nat
    BY DEF AtLeastZero, Split
  <1>6. IsSpread(lift, size, open, R, Bins)
    <2> SUFFICES ASSUME NEW b \in Bins PROVE lift[b] = Share(size, open, R, Bins, b)
      BY <1>3, <1>5, BinsAssumption DEF IsSpread
    <2>1. lift[b] = Smaller(open[b], AtLeastZero(size - SumOver(open, {c \in Bins : <<c, b>> \in R})))
      BY <1>2, <1>4
    <2> HIDE DEF R, open
    <2> QED
      BY <2>1 DEF Share, Smaller, AtLeastZero
  <1> HIDE DEF R, open, Before
  <1>7. SumOver(lift, Bins) = IF SumOver(open, Bins) < size THEN SumOver(open, Bins) ELSE size
    BY <1>6, SharesAddUp
  <1>8. SumOver(open, Bins) \in Nat
    BY <1>5, SumOverNat, BinsAssumption
  <1>9. SumOver(lift, Bins) <= size
    BY <1>7, <1>8
  <1> QED
    BY <1>1, <1>9, SplitSum


-----------------------------------------------------------------------------
(* What a plan is worth at the time it is carried out.  The rows and other    *)
(* requests may have moved on, and yet a plan still fits its order.           *)

\* A plan to place an order is for an order nobody has placed, and holds what
\* was asked for.  A plan to close one lifts at most what was ordered, and
\* hands out some of it.  A count corrects in one direction.
Fits(q, book) ==
    /\ q.kind \in {"place", "ship", "reject"} => q.order \in Orders
    /\ q.kind = "place" =>
          book[q.order].status = "none" /\ q.need > 0 /\ Sum(q.take) = q.need
    /\ q.kind \in {"ship", "reject"} =>
          book[q.order].status # "none" /\ Sum(q.lift) <= book[q.order].quantity
    /\ q.kind = "ship" => q.need \in 1..book[q.order].quantity
    /\ q.phase = "freed" =>
          q.kind = "ship" /\ book[q.order].status = "pending" /\ Sum(q.take) = q.need
    /\ q.kind = "sale" => Sum(q.take) > 0
    /\ q.kind = "count" => q.take = Nothing \/ q.give = Nothing

\* Nobody else places the order, and nobody else has claimed it.
Apart(p, q) ==
    p.order = q.order =>
        /\ ~(p.kind = "place" /\ q.kind = "place")
        /\ ~(p.phase = "freed" /\ q.phase = "freed")

PlansFit ==
    /\ \A o \in Orders : orders[o].status = "pending" => orders[o].quantity > 0
    /\ \A r \in Requests : Fits(requests[r], orders)
    /\ \A r, s \in Requests : r # s => Apart(requests[r], requests[s])

LEMMA ApartBothWays == \A p, q : Apart(p, q) => Apart(q, p)
  BY DEF Apart

LEMMA InitFits == Init => PlansFit
  BY DEF Init, PlansFit, Fits, Apart, Idle

\* One plan changes, and the orders stay.
LEMMA NewPlanFits ==
    ASSUME TypeOK, PlansFit, NEW r \in Requests, NEW plan,
           requests' = [requests EXCEPT ![r] = plan], orders' = orders,
           Fits(plan, orders), \A s \in Requests \ {r} : Apart(plan, requests[s])
    PROVE  PlansFit'
  <1>1. \A s \in Requests : requests'[s] = IF s = r THEN plan ELSE requests[s]
    BY DEF TypeOK
  <1>2. \A s \in Requests : Fits(requests'[s], orders')
    BY <1>1 DEF PlansFit
  <1>3. \A s, t \in Requests : s # t => Apart(requests'[s], requests'[t])
    BY <1>1, ApartBothWays DEF PlansFit
  <1> QED
    BY <1>2, <1>3 DEF PlansFit

LEMMA IdleFits ==
    ASSUME NEW q, NEW book
    PROVE  Fits(Idle, book) /\ Apart(Idle, q)
  BY DEF Fits, Apart, Idle

\* A plan for no order, neither to sell nor to count, promises nothing here.
LEMMA OtherPlanFits ==
    ASSUME NEW q \in Request, q.kind \notin {"place", "ship", "reject", "sale", "count"},
           q.phase = "planned", NEW p, NEW book
    PROVE  Fits(q, book) /\ Apart(q, p)
  BY DEF Fits, Apart

LEMMA PlanFields ==
    ASSUME NEW kind, NEW plan \in Request
    PROVE  LET q == [plan EXCEPT !.kind = kind, !.phase = "planned"]
           IN /\ q.kind = kind /\ q.phase = "planned"
              /\ q.take = plan.take /\ q.give = plan.give /\ q.lift = plan.lift
              /\ q.need = plan.need /\ q.order = plan.order
  BY DEF Request

LEMMA FromBinsSum ==
    ASSUME NEW need, NEW room, NEW take \in FromBins(need, room)
    PROVE  take \in Split /\ Sum(take) = need
  <1>1. Sum(take) = need
    BY DEF FromBins
  <1> QED
    BY <1>1, PouredType

LEMMA SalePlanFits ==
    ASSUME NEW r \in Requests, TypeOK, SaleRead(r)
    PROVE  \E plan : /\ requests' = [requests EXCEPT ![r] = plan]
                     /\ Fits(plan, orders) /\ \A q : Apart(plan, q)
  <1>1. PICK n \in 1..MaxUnits, take \in Split :
            Sum(take) = n /\ Plans(r, "sale", [Idle EXCEPT !.take = take])
    <2>1. PICK n \in 1..MaxUnits : \E take \in FromBins(n, AvailableOf(stock)) :
              Plans(r, "sale", [Idle EXCEPT !.take = take])
      BY DEF SaleRead
    <2>2. \A take \in FromBins(n, AvailableOf(stock)) : take \in Split /\ Sum(take) = n
      BY FromBinsSum
    <2> QED
      BY <2>1, <2>2
  <1> DEFINE plan == [Idle EXCEPT !.take = take]
             q == [plan EXCEPT !.kind = "sale", !.phase = "planned"]
  <1>2. plan \in Request /\ plan.take = take
    BY IdleType DEF Request
  <1>3. requests' = [requests EXCEPT ![r] = q]
    BY <1>1 DEF Plans
  <1>4. q.kind = "sale" /\ q.phase = "planned" /\ q.take = take
    <2> HIDE DEF plan
    <2> QED
      BY <1>2, PlanFields
  <1> HIDE DEF q
  <1>5. n > 0
    BY StockAssumption
  <1> QED
    BY <1>1, <1>3, <1>4, <1>5 DEF Fits, Apart

LEMMA PlacePlanFits ==
    ASSUME NEW r \in Requests, TypeOK, PlaceRead(r)
    PROVE  \E plan : /\ requests' = [requests EXCEPT ![r] = plan]
                     /\ Fits(plan, orders) /\ \A s \in Requests : Apart(plan, requests[s])
  <1>1. PICK o \in Orders, n \in 1..MaxUnits, take \in Split :
            /\ Sum(take) = n /\ orders[o].status = "none"
            /\ \A s \in Requests : requests[s].order # o
            /\ Plans(r, "place", [Idle EXCEPT !.order = o, !.need = n, !.take = take])
    <2>1. PICK o \in Orders, n \in 1..MaxUnits : \E take \in FromBins(n, AvailableOf(stock)) :
            /\ orders[o].status = "none"
            /\ \A s \in Requests : requests[s].order # o
            /\ Plans(r, "place", [Idle EXCEPT !.order = o, !.need = n, !.take = take])
      BY DEF PlaceRead
    <2>2. \A take \in FromBins(n, AvailableOf(stock)) : take \in Split /\ Sum(take) = n
      BY FromBinsSum
    <2> QED
      BY <2>1, <2>2
  <1> DEFINE plan == [Idle EXCEPT !.order = o, !.need = n, !.take = take]
             q == [plan EXCEPT !.kind = "place", !.phase = "planned"]
  <1>2. n \in Nat /\ n > 0
    BY StockAssumption
  <1>3. plan \in Request /\ plan.take = take /\ plan.order = o /\ plan.need = n
    BY <1>2, IdleType DEF Request
  <1>4. requests' = [requests EXCEPT ![r] = q]
    BY <1>1 DEF Plans
  <1>5. q.kind = "place" /\ q.phase = "planned" /\ q.take = take /\ q.order = o /\ q.need = n
    <2> HIDE DEF plan
    <2> QED
      BY <1>3, PlanFields
  <1> HIDE DEF q
  <1> QED
    BY <1>1, <1>2, <1>4, <1>5 DEF Fits, Apart

\* An order that is shipped or rejected is lifted by at most what it reserves.
LEMMA HoldOfFits ==
    ASSUME TypeOK, NEW o \in Orders, NEW lift \in HoldOf(o)
    PROVE  lift \in Split /\ Sum(lift) <= orders[o].quantity
  <1>1. orders[o].quantity \in Nat /\ ReservedOf(stock) \in Split
    BY FigureTypes DEF TypeOK, Order
  <1> QED
    BY <1>1, ReleaseSize DEF HoldOf

LEMMA ShipPlanFits ==
    ASSUME NEW r \in Requests, TypeOK, ShipRead(r)
    PROVE  \E plan : /\ requests' = [requests EXCEPT ![r] = plan]
                     /\ Fits(plan, orders) /\ \A q : Apart(plan, q)
  <1>1. PICK o \in Orders : \E n \in 1..orders[o].quantity, lift \in HoldOf(o) :
            /\ orders[o].status = "pending"
            /\ Plans(r, "ship", [Idle EXCEPT !.order = o, !.need = n, !.lift = lift])
    BY DEF ShipRead
  <1>2. PICK n \in 1..orders[o].quantity, lift \in HoldOf(o) :
            /\ orders[o].status = "pending"
            /\ Plans(r, "ship", [Idle EXCEPT !.order = o, !.need = n, !.lift = lift])
    BY <1>1
  <1>3. lift \in Split /\ Sum(lift) <= orders[o].quantity /\ n \in Nat
    BY HoldOfFits DEF TypeOK, Order
  <1> DEFINE plan == [Idle EXCEPT !.order = o, !.need = n, !.lift = lift]
             q == [plan EXCEPT !.kind = "ship", !.phase = "planned"]
  <1>4. plan \in Request /\ plan.lift = lift /\ plan.order = o /\ plan.need = n
    BY <1>3, IdleType DEF Request
  <1>5. requests' = [requests EXCEPT ![r] = q]
    BY <1>2 DEF Plans
  <1>6. q.kind = "ship" /\ q.phase = "planned" /\ q.lift = lift /\ q.order = o /\ q.need = n
    <2> HIDE DEF plan
    <2> QED
      BY <1>4, PlanFields
  <1> HIDE DEF q
  <1> QED
    BY <1>2, <1>3, <1>5, <1>6 DEF Fits, Apart

LEMMA RejectPlanFits ==
    ASSUME NEW r \in Requests, TypeOK, RejectRead(r)
    PROVE  \E plan : /\ requests' = [requests EXCEPT ![r] = plan]
                     /\ Fits(plan, orders) /\ \A q : Apart(plan, q)
  <1>1. PICK o \in Orders : \E lift \in HoldOf(o) :
            /\ orders[o].status = "pending"
            /\ Plans(r, "reject", [Idle EXCEPT !.order = o, !.lift = lift])
    BY DEF RejectRead
  <1>2. PICK lift \in HoldOf(o) :
            /\ orders[o].status = "pending"
            /\ Plans(r, "reject", [Idle EXCEPT !.order = o, !.lift = lift])
    BY <1>1
  <1>3. lift \in Split /\ Sum(lift) <= orders[o].quantity
    BY HoldOfFits
  <1> DEFINE plan == [Idle EXCEPT !.order = o, !.lift = lift]
             q == [plan EXCEPT !.kind = "reject", !.phase = "planned"]
  <1>4. plan \in Request /\ plan.lift = lift /\ plan.order = o
    BY <1>3, IdleType DEF Request
  <1>5. requests' = [requests EXCEPT ![r] = q]
    BY <1>2 DEF Plans
  <1>6. q.kind = "reject" /\ q.phase = "planned" /\ q.lift = lift /\ q.order = o
    <2> HIDE DEF plan
    <2> QED
      BY <1>4, PlanFields
  <1> HIDE DEF q
  <1> QED
    BY <1>2, <1>3, <1>5, <1>6 DEF Fits, Apart

LEMMA CountPlanFits ==
    ASSUME NEW r \in Requests, TypeOK, CountRead(r)
    PROVE  \E plan : /\ requests' = [requests EXCEPT ![r] = plan]
                     /\ Fits(plan, orders) /\ \A q : Apart(plan, q)
  <1>1. PICK plan \in Request : Plans(r, "count", plan) /\ (plan.take = Nothing \/ plan.give = Nothing)
    <2>1. PICK found \in 0..MaxUnits :
              \/ \E take \in FromBins(OnHand(stock) - found, QuantityOf(stock)) :
                    Plans(r, "count", [Idle EXCEPT !.take = take])
              \/ \E n \in 1..found, b \in SurplusBins :
                    Plans(r, "count", [Idle EXCEPT !.give = Only(b, n)])
      BY DEF CountRead
    <2>2. CASE \E take \in FromBins(OnHand(stock) - found, QuantityOf(stock)) :
                    Plans(r, "count", [Idle EXCEPT !.take = take])
      <3>1. PICK take \in Split : Plans(r, "count", [Idle EXCEPT !.take = take])
        BY <2>2, PouredType
      <3>2. [Idle EXCEPT !.take = take] \in Request /\ [Idle EXCEPT !.take = take].give = Nothing
        BY IdleType DEF Request, Idle
      <3> QED
        BY <3>1, <3>2
    <2>3. CASE \E n \in 1..found, b \in SurplusBins :
                    Plans(r, "count", [Idle EXCEPT !.give = Only(b, n)])
      <3>1. PICK n \in 1..found, b \in Bins : Plans(r, "count", [Idle EXCEPT !.give = Only(b, n)])
        BY <2>3, BinsAssumption DEF SurplusBins
      <3>2. n \in Nat
        BY StockAssumption
      <3>3. Only(b, n) \in Split
        BY <3>2, OnlyType
      <3>4. /\ [Idle EXCEPT !.give = Only(b, n)] \in Request
            /\ [Idle EXCEPT !.give = Only(b, n)].take = Nothing
        BY <3>3, IdleType DEF Request, Idle
      <3> QED
        BY <3>1, <3>4
    <2> QED
      BY <2>1, <2>2, <2>3
  <1> DEFINE q == [plan EXCEPT !.kind = "count", !.phase = "planned"]
  <1>2. requests' = [requests EXCEPT ![r] = q]
    BY <1>1 DEF Plans
  <1>3. q.kind = "count" /\ q.phase = "planned" /\ q.take = plan.take /\ q.give = plan.give
    BY PlanFields
  <1> HIDE DEF q
  <1> QED
    BY <1>1, <1>2, <1>3 DEF Fits, Apart

\* The rest plan nothing that the other requests or the orders depend on.
OtherKinds == {"isolate", "restore", "writeOff", "putaway", "blockBin", "unblockBin"}

LEMMA OtherReads ==
    ASSUME NEW r \in Requests,
           \/ IsolateRead(r) \/ RestoreRead(r) \/ WriteOffRead(r)
           \/ PutawayRead(r) \/ BlockBinRead(r) \/ UnblockBinRead(r)
    PROVE  \E kind \in OtherKinds : \E plan : Plans(r, kind, plan)
  BY DEF IsolateRead, RestoreRead, WriteOffRead, PutawayRead, BlockBinRead, UnblockBinRead, OtherKinds

LEMMA ReadsFit ==
    ASSUME TypeOK, TypeOK', PlansFit, NEW r \in Requests,
           \/ SaleRead(r) \/ PlaceRead(r) \/ ShipRead(r) \/ RejectRead(r)
           \/ IsolateRead(r) \/ RestoreRead(r) \/ WriteOffRead(r) \/ PutawayRead(r)
           \/ CountRead(r) \/ BlockBinRead(r) \/ UnblockBinRead(r)
    PROVE  PlansFit'
  <1>1. orders' = orders
    <2>1. \A kind, plan : Plans(r, kind, plan) => orders' = orders
      BY DEF Plans
    <2>2. CASE SaleRead(r) \/ PlaceRead(r) \/ ShipRead(r) \/ RejectRead(r) \/ CountRead(r)
      BY <2>1, <2>2 DEF SaleRead, PlaceRead, ShipRead, RejectRead, CountRead
    <2> QED
      BY <2>1, <2>2, OtherReads
  <1>2. \E plan : /\ requests' = [requests EXCEPT ![r] = plan]
                  /\ Fits(plan, orders) /\ \A s \in Requests : Apart(plan, requests[s])
    <2>1. CASE SaleRead(r)
      BY <2>1, SalePlanFits
    <2>2. CASE PlaceRead(r)
      BY <2>2, PlacePlanFits
    <2>3. CASE ShipRead(r)
      BY <2>3, ShipPlanFits
    <2>4. CASE RejectRead(r)
      BY <2>4, RejectPlanFits
    <2>5. CASE CountRead(r)
      BY <2>5, CountPlanFits
    <2>6. CASE \/ IsolateRead(r) \/ RestoreRead(r) \/ WriteOffRead(r)
               \/ PutawayRead(r) \/ BlockBinRead(r) \/ UnblockBinRead(r)
      <3>1. PICK kind \in OtherKinds : \E plan : Plans(r, kind, plan)
        BY <2>6, OtherReads
      <3>2. PICK plan : Plans(r, kind, plan)
        BY <3>1
      <3> DEFINE q == [plan EXCEPT !.kind = kind, !.phase = "planned"]
      <3>3. requests' = [requests EXCEPT ![r] = q] /\ requests'[r] = q
        BY <3>2 DEF Plans, TypeOK
      <3>4. q \in Request
        BY <3>3 DEF TypeOK
      <3>5. "kind" \in DOMAIN plan /\ "phase" \in DOMAIN plan
        BY <3>4 DEF Request
      <3>6. q.kind = kind /\ q.phase = "planned"
        BY <3>5
      <3> HIDE DEF q
      <3>7. kind \notin {"place", "ship", "reject", "sale", "count"}
        BY DEF OtherKinds
      <3> QED
        BY <3>3, <3>4, <3>6, <3>7, OtherPlanFits
    <2> QED
      BY <2>1, <2>2, <2>3, <2>4, <2>5, <2>6
  <1> QED
    BY <1>1, <1>2, NewPlanFits


\* A request that is done leaves the orders as they were.
LEMMA ClosesFit ==
    ASSUME TypeOK, PlansFit, NEW r \in Requests, Closes(r), orders' = orders
    PROVE  PlansFit'
  BY NewPlanFits, IdleFits DEF Closes

LEMMA PlaceFits ==
    ASSUME TypeOK, PlansFit, NEW r \in Requests, PlaceCommit(r)
    PROVE  PlansFit'
  <1> DEFINE o == requests[r].order
  <1>1. /\ requests[r].kind = "place" /\ Fits(requests[r], orders)
        /\ requests' = [requests EXCEPT ![r] = Idle]
        /\ orders' = [orders EXCEPT ![o] = [status |-> "pending", quantity |-> requests[r].need]]
    BY DEF PlaceCommit, Handling, PlansFit, Closes
  <1>2. o \in Orders /\ orders[o].status = "none" /\ requests[r].need > 0
    BY <1>1 DEF Fits
  <1>3. \A s \in Requests : requests'[s] = IF s = r THEN Idle ELSE requests[s]
    BY <1>1 DEF TypeOK
  <1>4. \A p \in Orders : orders'[p] = IF p = o THEN [status |-> "pending", quantity |-> requests[r].need]
                                       ELSE orders[p]
    BY <1>1 DEF TypeOK
  <1>5. ASSUME NEW s \in Requests, s # r
        PROVE  Fits(requests[s], orders')
    <2>1. Fits(requests[s], orders) /\ Apart(requests[s], requests[r])
      BY <1>5 DEF PlansFit
    <2>2. requests[s].kind \in {"place", "ship", "reject"} => requests[s].order # o
      BY <2>1, <1>1, <1>2 DEF Fits, Apart
    <2>3. requests[s].phase = "freed" => requests[s].kind = "ship"
      BY <2>1 DEF Fits
    <2>4. requests[s].kind \in {"place", "ship", "reject"} =>
              requests[s].order \in Orders /\ orders'[requests[s].order] = orders[requests[s].order]
      BY <2>1, <2>2, <1>4 DEF Fits
    <2> QED
      BY <2>1, <2>3, <2>4 DEF Fits
  <1>6. \A s, t \in Requests : s # t => Apart(requests'[s], requests'[t])
    BY <1>3, IdleFits, ApartBothWays DEF PlansFit
  <1>7. \A s \in Requests : Fits(requests'[s], orders')
    BY <1>3, <1>5, IdleFits
  <1>8. \A p \in Orders : orders'[p].status = "pending" => orders'[p].quantity > 0
    BY <1>2, <1>4 DEF PlansFit
  <1> QED
    BY <1>6, <1>7, <1>8 DEF PlansFit

\* The last writes of a request that closes an order.
ClosesAs(r, o, closed) ==
    /\ Closes(r)
    /\ orders' = [orders EXCEPT ![o].status = closed]

\* Whoever closes an order finds it pending, and nobody else has claimed it.
LEMMA ClosingFits ==
    ASSUME TypeOK, PlansFit, NEW r \in Requests, NEW o \in Orders, NEW closed \in {"confirmed", "cancelled"},
           ClosesAs(r, o, closed),
           orders[o].status = "pending",
           \A s \in Requests \ {r} : requests[s].order = o => requests[s].phase # "freed"
    PROVE  PlansFit'
  <1>3. \A s \in Requests : requests'[s] = IF s = r THEN Idle ELSE requests[s]
    BY DEF TypeOK, ClosesAs, Closes
  <1>4. \A p \in Orders : /\ orders'[p].quantity = orders[p].quantity
                          /\ orders'[p].status = IF p = o THEN closed ELSE orders[p].status
    BY DEF TypeOK, Order, ClosesAs
  <1>5. ASSUME NEW s \in Requests, s # r
        PROVE  Fits(requests[s], orders')
    <2>1. Fits(requests[s], orders)
      BY <1>5 DEF PlansFit
    <2>2. requests[s].kind = "place" => requests[s].order # o
      BY <2>1 DEF Fits
    <2>3. requests[s].phase = "freed" => requests[s].order # o /\ requests[s].kind = "ship"
      BY <2>1, <1>5 DEF Fits
    <2>4. ASSUME requests[s].kind \in {"place", "ship", "reject"}
          PROVE  LET p == requests[s].order
                 IN /\ p \in Orders /\ orders'[p].quantity = orders[p].quantity
                    /\ p # o => orders'[p].status = orders[p].status
                    /\ p = o => orders'[p].status = closed
      BY <2>1, <2>4, <1>4 DEF Fits
    <2> QED
      BY <2>1, <2>2, <2>3, <2>4 DEF Fits
  <1>6. \A s, t \in Requests : s # t => Apart(requests'[s], requests'[t])
    BY <1>3, IdleFits, ApartBothWays DEF PlansFit
  <1>7. \A s \in Requests : Fits(requests'[s], orders')
    BY <1>3, <1>5, IdleFits
  <1>8. \A p \in Orders : orders'[p].status = "pending" => orders'[p].quantity > 0
    BY <1>4 DEF PlansFit
  <1> QED
    BY <1>6, <1>7, <1>8 DEF PlansFit

\* What a closing commit finds, by the claim or because it has claimed before.
LEMMA ShipFinds ==
    ASSUME TypeOK, PlansFit, NEW r \in Requests, ShipCommit(r)
    PROVE  LET o == requests[r].order
           IN /\ o \in Orders /\ orders[o].status = "pending"
              /\ Sum(requests[r].lift) <= orders[o].quantity
              /\ Sum(requests[r].take) \in 1..orders[o].quantity
              /\ \A s \in Requests \ {r} : requests[s].order = o => requests[s].phase # "freed"
  <1>1. requests[r].kind = "ship" /\ requests[r].phase = "freed"
    BY DEF ShipCommit, Handling
  <1>2. Fits(requests[r], orders) /\ \A s \in Requests \ {r} : Apart(requests[r], requests[s])
    BY DEF PlansFit
  <1> QED
    BY <1>1, <1>2 DEF Fits, Apart

LEMMA RejectFinds ==
    ASSUME TypeOK, PlansFit, NEW r \in Requests, RejectCommit(r)
    PROVE  LET o == requests[r].order
           IN /\ o \in Orders /\ orders[o].status = "pending"
              /\ Sum(requests[r].lift) <= orders[o].quantity
              /\ \A s \in Requests \ {r} : requests[s].order = o => requests[s].phase # "freed"
  <1>1. requests[r].kind = "reject" /\ MayClaim(r)
    BY DEF RejectCommit, Handling
  <1>2. Fits(requests[r], orders)
    BY DEF PlansFit
  <1> QED
    BY <1>1, <1>2 DEF Fits, MayClaim

LEMMA FreeFits ==
    ASSUME TypeOK, PlansFit, NEW r \in Requests, ShipFree(r)
    PROVE  PlansFit'
  <1>1. PICK take : /\ Sum(take) = requests[r].need
                    /\ requests' = [requests EXCEPT ![r].phase = "freed", ![r].take = take]
    BY FromBinsSum DEF ShipFree
  <1> DEFINE q == [requests[r] EXCEPT !.phase = "freed", !.take = take]
  <1>2. requests' = [requests EXCEPT ![r] = q]
    BY <1>1 DEF TypeOK
  <1>3. requests[r] \in Request
    BY DEF TypeOK
  <1>4. /\ q.kind = requests[r].kind /\ q.phase = "freed" /\ q.take = take
        /\ q.order = requests[r].order /\ q.need = requests[r].need /\ q.lift = requests[r].lift
        /\ q.give = requests[r].give
    BY <1>3 DEF Request
  <1> HIDE DEF q
  <1>5. requests[r].kind = "ship" /\ MayClaim(r) /\ orders' = orders
    BY DEF ShipFree, Handling
  <1>6. Fits(requests[r], orders) /\ \A s \in Requests \ {r} : Apart(requests[r], requests[s])
    BY DEF PlansFit
  <1>7. Fits(q, orders)
    BY <1>1, <1>4, <1>5, <1>6 DEF Fits, MayClaim
  <1>8. \A s \in Requests \ {r} : Apart(q, requests[s])
    BY <1>4, <1>5, <1>6 DEF Apart, MayClaim
  <1> QED
    BY <1>2, <1>5, <1>7, <1>8, NewPlanFits

LEMMA OtherCommits ==
    ASSUME NEW r \in Requests,
           \/ SaleCommit(r) \/ IsolateCommit(r) \/ RestoreCommit(r) \/ WriteOffCommit(r)
           \/ PutawayCommit(r) \/ CountCommit(r) \/ BlockBinCommit(r) \/ UnblockBinCommit(r)
           \/ Abandon(r)
    PROVE  Closes(r) /\ orders' = orders
  BY DEF SaleCommit, IsolateCommit, RestoreCommit, WriteOffCommit, PutawayCommit, CountCommit,
         BlockBinCommit, UnblockBinCommit, Abandon

LEMMA StepFitsPlans == TypeOK /\ TypeOK' /\ PlansFit /\ [Next]_vars => PlansFit'
  <1> SUFFICES ASSUME TypeOK, TypeOK', PlansFit, [Next]_vars PROVE PlansFit'
    OBVIOUS
  <1>1. CASE Receive \/ UNCHANGED vars
    <2>1. requests' = requests /\ orders' = orders
      BY <1>1 DEF Receive, vars
    <2> QED
      BY <2>1 DEF PlansFit
  <1>2. ASSUME NEW r \in Requests, Trade(r) \/ Warehouse(r) \/ Abandon(r)
        PROVE  PlansFit'
    <2>1. CASE \/ SaleRead(r) \/ PlaceRead(r) \/ ShipRead(r) \/ RejectRead(r)
               \/ IsolateRead(r) \/ RestoreRead(r) \/ WriteOffRead(r) \/ PutawayRead(r)
               \/ CountRead(r) \/ BlockBinRead(r) \/ UnblockBinRead(r)
      BY <2>1, ReadsFit
    <2>2. CASE \/ SaleCommit(r) \/ IsolateCommit(r) \/ RestoreCommit(r) \/ WriteOffCommit(r)
               \/ PutawayCommit(r) \/ CountCommit(r) \/ BlockBinCommit(r) \/ UnblockBinCommit(r)
               \/ Abandon(r)
      BY <2>2, OtherCommits, ClosesFit
    <2>3. CASE PlaceCommit(r)
      BY <2>3, PlaceFits
    <2>4. CASE ShipFree(r)
      BY <2>4, FreeFits
    <2>5. CASE ShipCommit(r)
      <3> DEFINE o == requests[r].order
      <3>1. ClosesAs(r, o, "confirmed")
        BY <2>5 DEF ShipCommit, ClosesAs
      <3>2. /\ o \in Orders /\ orders[o].status = "pending"
            /\ \A s \in Requests \ {r} : requests[s].order = o => requests[s].phase # "freed"
        BY <2>5, ShipFinds
      <3>3. "confirmed" \in {"confirmed", "cancelled"}
        OBVIOUS
      <3> HIDE DEF o
      <3> QED
        BY <3>1, <3>2, <3>3, ClosingFits
    <2>6. CASE RejectCommit(r)
      <3> DEFINE o == requests[r].order
      <3>1. ClosesAs(r, o, "cancelled")
        BY <2>6 DEF RejectCommit, ClosesAs
      <3>2. /\ o \in Orders /\ orders[o].status = "pending"
            /\ \A s \in Requests \ {r} : requests[s].order = o => requests[s].phase # "freed"
        BY <2>6, RejectFinds
      <3>3. "cancelled" \in {"confirmed", "cancelled"}
        OBVIOUS
      <3> HIDE DEF o
      <3> QED
        BY <3>1, <3>2, <3>3, ClosingFits
    <2> QED
      BY <1>2, <2>1, <2>2, <2>3, <2>4, <2>5, <2>6 DEF Trade, Warehouse
  <1> QED
    BY <1>1, <1>2 DEF Next

LEMMA PlansAlwaysFit == Spec => []PlansFit
  BY InitFits, StepFitsPlans, Typing, PTL DEF Spec


-----------------------------------------------------------------------------
(* How the goods, the holds and the promises move with each step. *)

\* Units of each order that is placed and not yet closed.
OpenOf(book) == [o \in Orders |-> IF book[o].status = "pending" THEN book[o].quantity ELSE 0]

LEMMA OpenType ==
    ASSUME NEW book \in [Orders -> Order]
    PROVE  /\ Sum(OpenOf(book)) = SumOver(OpenOf(book), Orders)
           /\ Sum(OpenOf(book)) \in Nat
           /\ \A o \in Orders : OpenOf(book)[o] \in Nat
  <1>1. DOMAIN OpenOf(book) = Orders /\ \A o \in Orders : OpenOf(book)[o] \in Nat
    BY DEF OpenOf, Order
  <1> QED
    BY <1>1, SumIsOverDomain, SumOverNat, StockAssumption

LEMMA OpenChange ==
    ASSUME NEW book \in [Orders -> Order], NEW after \in [Orders -> Order], NEW o \in Orders,
           \A p \in Orders \ {o} : after[p] = book[p]
    PROVE  Sum(OpenOf(after)) = Sum(OpenOf(book)) + OpenOf(after)[o] - OpenOf(book)[o]
  <1>1. \A p \in Orders : OpenOf(book)[p] \in Int /\ OpenOf(after)[p] \in Int
    BY OpenType
  <1>2. \A p \in Orders \ {o} : OpenOf(after)[p] = OpenOf(book)[p]
    BY DEF OpenOf
  <1>3. SumOver(OpenOf(after), Orders) = SumOver(OpenOf(book), Orders) + OpenOf(after)[o] - OpenOf(book)[o]
    BY <1>1, <1>2, SumOverChange, StockAssumption
  <1> QED
    BY <1>3, OpenType

\* Steps that leave the goods of the point, the holds and the promises alone.
LEMMA QuietSteps ==
    ASSUME TypeOK, NEW r \in Requests,
           \/ SaleRead(r) \/ PlaceRead(r) \/ ShipRead(r) \/ RejectRead(r)
           \/ IsolateRead(r) \/ RestoreRead(r) \/ WriteOffRead(r) \/ PutawayRead(r)
           \/ CountRead(r) \/ BlockBinRead(r) \/ UnblockBinRead(r) \/ ShipFree(r)
           \/ IsolateCommit(r) \/ RestoreCommit(r) \/ BlockBinCommit(r) \/ UnblockBinCommit(r)
           \/ Abandon(r)
    PROVE  /\ OnHand(stock') = OnHand(stock) /\ Held(stock') = Held(stock)
           /\ told' = told /\ orders' = orders
  <1>1. /\ stock \in [Bins -> Row]
        /\ requests[r].take \in Split /\ requests[r].lift \in Split
    BY DEF TypeOK, Request
  <1>2. CASE \/ SaleRead(r) \/ PlaceRead(r) \/ ShipRead(r) \/ RejectRead(r)
             \/ IsolateRead(r) \/ RestoreRead(r) \/ WriteOffRead(r) \/ PutawayRead(r)
             \/ CountRead(r) \/ BlockBinRead(r) \/ UnblockBinRead(r) \/ ShipFree(r)
    <2>1. stock' = stock
      BY <1>2, ReadsWriteNothing
    <2>2. \A kind, plan : Plans(r, kind, plan) => told' = told /\ orders' = orders
      BY DEF Plans
    <2>3. CASE SaleRead(r) \/ PlaceRead(r) \/ ShipRead(r) \/ RejectRead(r) \/ CountRead(r)
      BY <2>1, <2>2, <2>3 DEF SaleRead, PlaceRead, ShipRead, RejectRead, CountRead
    <2>4. CASE \/ IsolateRead(r) \/ RestoreRead(r) \/ WriteOffRead(r)
               \/ PutawayRead(r) \/ BlockBinRead(r) \/ UnblockBinRead(r)
      BY <2>1, <2>2, <2>4, OtherReads
    <2>5. CASE ShipFree(r)
      BY <2>1, <2>5 DEF ShipFree
    <2> QED
      BY <1>2, <2>3, <2>4, <2>5
  <1>3. CASE IsolateCommit(r) \/ BlockBinCommit(r)
    <2>1. stock' = Blocked(stock, requests[r].take) /\ told' = told /\ orders' = orders
      BY <1>3 DEF IsolateCommit, BlockBinCommit, Writes
    <2> QED
      BY <1>1, <2>1, BlockedFigures
  <1>4. CASE RestoreCommit(r) \/ UnblockBinCommit(r)
    <2>1. stock' = Unblocked(stock, requests[r].lift) /\ told' = told /\ orders' = orders
      BY <1>4 DEF RestoreCommit, UnblockBinCommit, Writes
    <2> QED
      BY <1>1, <2>1, BlockedFigures
  <1>5. CASE Abandon(r)
    BY <1>5 DEF Abandon
  <1> QED
    BY <1>2, <1>3, <1>4, <1>5

LEMMA SaleFigures ==
    ASSUME TypeOK, PlansFit, NEW r \in Requests, SaleCommit(r)
    PROVE  /\ OnHand(stock') < OnHand(stock) /\ Held(stock') = Held(stock)
           /\ told' = told /\ orders' = orders
  <1> DEFINE take == requests[r].take
  <1>1. /\ stock \in [Bins -> Row] /\ take \in Split
        /\ CoversUnreserved(stock, take) /\ stock' = Taken(stock, take)
    BY DEF TypeOK, Request, SaleCommit, Writes
  <1>2. Sum(take) > 0
    BY DEF SaleCommit, Handling, PlansFit, Fits
  <1> HIDE DEF take
  <1>3. OnHand(stock') = OnHand(stock) - Sum(take) /\ Held(stock') = Held(stock)
    BY <1>1, UnreservedIsOnHand, TakenFigures
  <1>4. OnHand(stock) \in Nat /\ Sum(take) \in Nat
    BY <1>1, FigureTypes, SplitSum
  <1> QED
    BY <1>2, <1>3, <1>4 DEF SaleCommit

LEMMA PlaceFigures ==
    ASSUME TypeOK, TypeOK', PlansFit, NEW r \in Requests, PlaceCommit(r)
    PROVE  LET o == requests[r].order
               n == requests[r].need
           IN /\ OnHand(stock') = OnHand(stock) /\ Held(stock') = Held(stock) + n
              /\ told' = told /\ o \in Orders /\ n > 0
              /\ OpenOf(orders)[o] = 0 /\ OpenOf(orders')[o] = n
              /\ \A p \in Orders \ {o} : orders'[p] = orders[p]
              /\ Sum(OpenOf(orders')) = Sum(OpenOf(orders)) + n
  <1> DEFINE o == requests[r].order
             n == requests[r].need
             take == requests[r].take
  <1>1. /\ stock \in [Bins -> Row] /\ take \in Split /\ stock' = Reserved(stock, take)
        /\ told' = told /\ n \in Nat
    BY DEF TypeOK, Request, PlaceCommit, Writes
  <1>2. o \in Orders /\ orders[o].status = "none" /\ n > 0 /\ Sum(take) = n
    BY DEF PlaceCommit, Handling, PlansFit, Fits
  <1>3. /\ \A p \in Orders \ {o} : orders'[p] = orders[p]
        /\ orders'[o] = [status |-> "pending", quantity |-> n]
    BY <1>2 DEF PlaceCommit, TypeOK
  <1> HIDE DEF o, n, take
  <1>4. OnHand(stock') = OnHand(stock) /\ Held(stock') = Held(stock) + n
    BY <1>1, <1>2, ReservedFigures
  <1>5. OpenOf(orders)[o] = 0 /\ OpenOf(orders')[o] = n
    BY <1>2, <1>3 DEF OpenOf
  <1>6. Sum(OpenOf(orders')) = Sum(OpenOf(orders)) + OpenOf(orders')[o] - OpenOf(orders)[o]
    BY <1>2, <1>3, OpenChange DEF TypeOK
  <1>7. Sum(OpenOf(orders)) \in Nat
    BY OpenType DEF TypeOK
  <1>8. Sum(OpenOf(orders')) = Sum(OpenOf(orders)) + n
    BY <1>1, <1>5, <1>6, <1>7
  <1> QED
    BY <1>1, <1>2, <1>3, <1>4, <1>5, <1>8 DEF o, n

\* An order that is closed lets go of at most its own hold.
LEMMA ClosingFigures ==
    ASSUME TypeOK, TypeOK', NEW o \in Orders, NEW lift \in Split,
           orders[o].status = "pending", orders'[o].status # "pending",
           \A p \in Orders \ {o} : orders'[p] = orders[p],
           Sum(lift) <= orders[o].quantity,
           Held(stock') >= Held(stock) - Sum(lift)
    PROVE  /\ OpenOf(orders)[o] = orders[o].quantity /\ OpenOf(orders')[o] = 0
           /\ Sum(OpenOf(orders')) = Sum(OpenOf(orders)) - orders[o].quantity
           /\ Held(stock) - Held(stock') <= orders[o].quantity
           /\ Held(stock') - Sum(OpenOf(orders')) >= Held(stock) - Sum(OpenOf(orders))
  <1>1. OpenOf(orders)[o] = orders[o].quantity /\ OpenOf(orders')[o] = 0
    BY DEF OpenOf
  <1>2. Sum(OpenOf(orders')) = Sum(OpenOf(orders)) + OpenOf(orders')[o] - OpenOf(orders)[o]
    BY OpenChange DEF TypeOK
  <1>3. Sum(OpenOf(orders)) \in Nat /\ orders[o].quantity \in Nat
    BY OpenType DEF TypeOK, Order
  <1>4. Held(stock) \in Nat /\ Held(stock') \in Nat /\ Sum(lift) \in Nat
    BY FigureTypes, SplitSum DEF TypeOK
  <1>5. Sum(OpenOf(orders')) = Sum(OpenOf(orders)) - orders[o].quantity
    BY <1>1, <1>2, <1>3
  <1> QED
    BY <1>1, <1>3, <1>4, <1>5

LEMMA ShipFigures ==
    ASSUME TypeOK, TypeOK', PlansFit, NEW r \in Requests, ShipCommit(r)
    PROVE  LET o == requests[r].order
           IN /\ told' = told /\ o \in Orders /\ orders[o].status = "pending"
              /\ OnHand(stock) - OnHand(stock') \in 1..orders[o].quantity
              /\ \A p \in Orders \ {o} : orders'[p] = orders[p]
              /\ OpenOf(orders)[o] = orders[o].quantity /\ OpenOf(orders')[o] = 0
              /\ Held(stock) - Held(stock') <= orders[o].quantity
              /\ Held(stock') - Sum(OpenOf(orders')) >= Held(stock) - Sum(OpenOf(orders))
  <1> DEFINE o == requests[r].order
             take == requests[r].take
             lift == requests[r].lift
             freed == Released(stock, lift)
  <1>1. /\ stock \in [Bins -> Row] /\ take \in Split /\ lift \in Split
        /\ CoversUnreserved(freed, take) /\ stock' = Taken(freed, take) /\ told' = told
    BY DEF TypeOK, Request, ShipCommit, Writes
  <1>2. /\ o \in Orders /\ orders[o].status = "pending"
        /\ Sum(lift) <= orders[o].quantity
        /\ Sum(take) \in 1..orders[o].quantity
    BY ShipFinds
  <1>3. orders[o].quantity \in Nat /\ orders[o] \in Order
    BY <1>2 DEF TypeOK, Order
  <1>4. /\ \A p \in Orders \ {o} : orders'[p] = orders[p]
        /\ orders'[o].status # "pending"
    BY <1>2, <1>3 DEF ShipCommit, TypeOK, Order
  <1> HIDE DEF o, take, lift
  <1>5. freed \in [Bins -> Row] /\ OnHand(freed) = OnHand(stock) /\ Held(stock) - Sum(lift) <= Held(freed)
    BY <1>1, HeldType, ReleasedFigures
  <1> HIDE DEF freed
  <1>6. OnHand(stock') = OnHand(freed) - Sum(take) /\ Held(stock') = Held(freed)
    BY <1>1, <1>5, UnreservedIsOnHand, TakenFigures
  <1>7. OnHand(stock) \in Nat
    BY <1>1, FigureTypes
  <1>8. OnHand(stock) - OnHand(stock') \in 1..orders[o].quantity
    BY <1>2, <1>3, <1>5, <1>6, <1>7
  <1>9. Held(stock') >= Held(stock) - Sum(lift)
    BY <1>5, <1>6
  <1>10. /\ OpenOf(orders)[o] = orders[o].quantity /\ OpenOf(orders')[o] = 0
         /\ Held(stock) - Held(stock') <= orders[o].quantity
         /\ Held(stock') - Sum(OpenOf(orders')) >= Held(stock) - Sum(OpenOf(orders))
    BY <1>1, <1>2, <1>4, <1>9, ClosingFigures
  <1> QED
    BY <1>1, <1>2, <1>4, <1>8, <1>10 DEF o

LEMMA RejectFigures ==
    ASSUME TypeOK, TypeOK', PlansFit, NEW r \in Requests, RejectCommit(r)
    PROVE  LET o == requests[r].order
           IN /\ told' = told /\ o \in Orders /\ orders[o].status = "pending"
              /\ OnHand(stock) = OnHand(stock')
              /\ \A p \in Orders \ {o} : orders'[p] = orders[p]
              /\ OpenOf(orders)[o] = orders[o].quantity /\ OpenOf(orders')[o] = 0
              /\ Held(stock) - Held(stock') <= orders[o].quantity
              /\ Held(stock') - Sum(OpenOf(orders')) >= Held(stock) - Sum(OpenOf(orders))
  <1> DEFINE o == requests[r].order
             lift == requests[r].lift
  <1>1. /\ stock \in [Bins -> Row] /\ lift \in Split
        /\ stock' = Released(stock, lift) /\ told' = told
    BY DEF TypeOK, Request, RejectCommit, Writes
  <1>2. /\ o \in Orders /\ orders[o].status = "pending"
        /\ Sum(lift) <= orders[o].quantity
    BY RejectFinds
  <1>3. orders[o] \in Order
    BY <1>2 DEF TypeOK, Order
  <1>4. /\ \A p \in Orders \ {o} : orders'[p] = orders[p]
        /\ orders'[o].status # "pending"
    BY <1>2, <1>3 DEF RejectCommit, TypeOK, Order
  <1> HIDE DEF o, lift
  <1>5. OnHand(stock') = OnHand(stock) /\ Held(stock) - Sum(lift) <= Held(stock')
    BY <1>1, ReleasedFigures
  <1>6. Held(stock') >= Held(stock) - Sum(lift)
    BY <1>5, <1>1, FigureTypes, SplitSum DEF TypeOK
  <1>7. /\ OpenOf(orders)[o] = orders[o].quantity /\ OpenOf(orders')[o] = 0
        /\ Held(stock) - Held(stock') <= orders[o].quantity
        /\ Held(stock') - Sum(OpenOf(orders')) >= Held(stock) - Sum(OpenOf(orders))
    BY <1>1, <1>2, <1>4, <1>6, ClosingFigures
  <1> QED
    BY <1>1, <1>2, <1>4, <1>5, <1>7 DEF o

\* A count says what it lets go of, and lets go of promises only when it found
\* fewer goods than somebody had believed.
LEMMA CountFigures ==
    ASSUME TypeOK, TypeOK', PlansFit, NEW r \in Requests, CountCommit(r)
    PROVE  /\ orders' = orders
           /\ Held(stock') + Sum(told') = Held(stock) + Sum(told)
           /\ Sum(told') >= Sum(told)
           /\ PromisesCovered /\ Sum(told') > Sum(told) => OnHand(stock') < OnHand(stock)
  <1> DEFINE take == requests[r].take
             give == requests[r].give
             taken == Taken(stock, take)
             counted == Added(taken, give)
             gone == [b \in Bins |-> TrimHolds(counted[b]).reserved]
  <1>1. /\ stock \in [Bins -> Row] /\ take \in Split /\ give \in Split /\ told \in Split /\ told' \in Split
        /\ CoversOnHand(stock, take) /\ stock' = Trimmed(counted) /\ orders' = orders
        /\ told' = [b \in Bins |-> told[b] + TrimHolds(counted[b]).reserved]
        /\ take = Nothing \/ give = Nothing
    BY DEF TypeOK, Request, CountCommit, Writes, Tells, Handling, PlansFit, Fits
  <1> HIDE DEF take, give
  <1>2. /\ taken \in [Bins -> Row]
        /\ OnHand(taken) = OnHand(stock) - Sum(take) /\ Held(taken) = Held(stock)
    BY <1>1, TakenType, TakenFigures
  <1>3. \A b \in Bins : taken[b].quantity = stock[b].quantity - take[b] /\ taken[b].reserved = stock[b].reserved
    BY <1>1 DEF Taken, Row
  <1> HIDE DEF taken
  <1>4. /\ counted \in [Bins -> Row]
        /\ OnHand(counted) = OnHand(taken) + Sum(give) /\ Held(counted) = Held(taken)
    BY <1>1, <1>2, AddedType, AddedFigures
  <1>5. \A b \in Bins : /\ counted[b].quantity = taken[b].quantity + give[b]
                        /\ counted[b].reserved = taken[b].reserved
    BY <1>2 DEF Added, Row
  <1> HIDE DEF counted
  <1>6. gone \in Split
    <2>1. \A b \in Bins : TrimHolds(counted[b]).reserved \in Nat
      <3> TAKE b \in Bins
      <3>1. counted[b] \in Row /\ counted[b].reserved \in Nat
        BY <1>4 DEF Row
      <3> QED
        BY <3>1, TrimType
    <2> QED
      BY <2>1 DEF Split
  <1>7. \A b \in Bins : gone[b] = TrimHolds(counted[b]).reserved /\ told'[b] = told[b] + gone[b]
    BY <1>1
  <1>8. \A b \in Bins : gone[b] > 0 => counted[b].reserved > counted[b].quantity
    <2> SUFFICES ASSUME NEW b \in Bins, TrimHolds(counted[b]).reserved > 0
                 PROVE  counted[b].reserved > counted[b].quantity
      OBVIOUS
    <2>1. counted[b] \in Row
      BY <1>4
    <2> QED
      BY <2>1 DEF TrimHolds, AtLeastZero, Smaller, Row
  <1> HIDE DEF gone
  <1>9. Held(stock') = Held(counted) - Sum(gone) /\ OnHand(stock') = OnHand(counted)
    BY <1>1, <1>4, <1>6, <1>7, TrimmedFigures
  <1>10. Sum(told') = Sum(told) + Sum(gone)
    BY <1>1, <1>6, <1>7, SplitPlus
  <1>11. /\ Held(stock) \in Nat /\ OnHand(stock) \in Nat /\ Sum(gone) \in Nat
         /\ Sum(told) \in Nat /\ Sum(take) \in Nat /\ Sum(give) \in Nat
    BY <1>1, <1>6, FigureTypes, SplitSum
  <1>12. ASSUME PromisesCovered, Sum(told') > Sum(told)
         PROVE  OnHand(stock') < OnHand(stock)
    <2>1. Sum(gone) > 0
      BY <1>10, <1>11, <1>12
    <2>2. PICK b \in Bins : gone[b] > 0
      <3>1. ASSUME \A b \in Bins : ~(gone[b] > 0) PROVE FALSE
        <4>1. gone = Nothing
          BY <3>1, <1>6 DEF Split, Nothing
        <4> QED
          BY <4>1, <2>1, NothingSum
      <3> QED
        BY <3>1
    <2>3. take[b] > give[b]
      <3>1. /\ stock[b].reserved \in Nat /\ stock[b].quantity \in Nat
            /\ stock[b].reserved <= stock[b].quantity /\ take[b] \in Nat /\ give[b] \in Nat
        BY <1>1, <1>12 DEF PromisesCovered, Row, Split
      <3> QED
        BY <3>1, <1>3, <1>5, <1>8, <2>2
    <2>4. take[b] > 0 /\ give = Nothing
      BY <2>3, <1>1 DEF Nothing, Split
    <2>5. Sum(take) > 0 /\ Sum(give) = 0
      BY <2>4, <1>1, SplitPositive, NothingSum
    <2> QED
      BY <2>5, <1>2, <1>4, <1>9, <1>11
  <1>13. Held(stock') + Sum(told') = Held(stock) + Sum(told) /\ Sum(told') >= Sum(told)
    BY <1>2, <1>4, <1>9, <1>10, <1>11
  <1> QED
    BY <1>1, <1>12, <1>13


\* Writes that only the ledger of goods is concerned with.
LEMMA FloorFigures ==
    ASSUME TypeOK, NEW r \in Requests, WriteOffCommit(r) \/ PutawayCommit(r)
    PROVE  Held(stock') = Held(stock) /\ told' = told /\ orders' = orders
  <1> DEFINE take == requests[r].take
             give == requests[r].give
             lift == requests[r].lift
  <1>1. /\ stock \in [Bins -> Row] /\ take \in Split /\ give \in Split /\ lift \in Split
        /\ CoversOnHand(stock, take) /\ told' = told /\ orders' = orders
    BY DEF TypeOK, Request, WriteOffCommit, PutawayCommit
  <1>2. stock' = Unblocked(Taken(stock, take), lift) \/ stock' = Added(Taken(stock, take), give)
    BY DEF WriteOffCommit, PutawayCommit, Writes
  <1> HIDE DEF take, give, lift
  <1>3. Taken(stock, take) \in [Bins -> Row] /\ Held(Taken(stock, take)) = Held(stock)
    BY <1>1, TakenType, TakenFigures
  <1>4. CASE stock' = Unblocked(Taken(stock, take), lift)
    BY <1>1, <1>3, <1>4, BlockedFigures
  <1>5. CASE stock' = Added(Taken(stock, take), give)
    BY <1>1, <1>3, <1>5, AddedFigures
  <1> QED
    BY <1>1, <1>2, <1>4, <1>5

LEMMA ReceiveFigures ==
    ASSUME TypeOK, Receive
    PROVE  /\ OnHand(stock') > OnHand(stock) /\ Held(stock') = Held(stock)
           /\ told' = told /\ orders' = orders
  <1>1. PICK n \in 1..MaxUnits : stock' = Added(stock, Only(Unplaced, n))
    BY DEF Receive
  <1>2. n \in Nat /\ n > 0 /\ stock \in [Bins -> Row]
    BY StockAssumption DEF TypeOK
  <1>3. Only(Unplaced, n) \in Split /\ Sum(Only(Unplaced, n)) = n
    BY <1>2, OnlyType, OnlySum, BinsAssumption
  <1>4. OnHand(stock') = OnHand(stock) + n /\ Held(stock') = Held(stock)
    BY <1>1, <1>2, <1>3, AddedFigures
  <1>5. OnHand(stock) \in Nat
    BY <1>2, FigureTypes
  <1> QED
    BY <1>2, <1>4, <1>5 DEF Receive

LEMMA PromisedIsOpen == Promised = Sum(OpenOf(orders))
  BY DEF Promised, OpenOf

LEMMA StepCovers ==
    TypeOK /\ TypeOK' /\ PlansFit /\ HoldsCoverPromises /\ [Next]_vars => HoldsCoverPromises'
  <1> SUFFICES ASSUME TypeOK, TypeOK', PlansFit, HoldsCoverPromises, [Next]_vars
               PROVE  Held(stock') + Sum(told') >= Sum(OpenOf(orders'))
    BY DEF HoldsCoverPromises, Promised, OpenOf
  <1>1. Held(stock) + Sum(told) >= Sum(OpenOf(orders))
    BY PromisedIsOpen DEF HoldsCoverPromises
  <1>2. /\ Held(stock) \in Nat /\ Sum(told) \in Nat /\ Sum(OpenOf(orders)) \in Nat
        /\ Held(stock') \in Nat /\ Sum(told') \in Nat /\ Sum(OpenOf(orders')) \in Nat
    BY FigureTypes, SplitSum, OpenType DEF TypeOK
  <1>3. ASSUME Held(stock') = Held(stock), told' = told, orders' = orders
        PROVE  Held(stock') + Sum(told') >= Sum(OpenOf(orders'))
    BY <1>1, <1>3
  <1>4. CASE Receive
    BY <1>3, <1>4, ReceiveFigures
  <1>5. CASE UNCHANGED vars
    BY <1>3, <1>5 DEF vars
  <1>6. ASSUME NEW r \in Requests, Trade(r) \/ Warehouse(r) \/ Abandon(r)
        PROVE  Held(stock') + Sum(told') >= Sum(OpenOf(orders'))
    <2>1. CASE \/ SaleRead(r) \/ PlaceRead(r) \/ ShipRead(r) \/ RejectRead(r)
               \/ IsolateRead(r) \/ RestoreRead(r) \/ WriteOffRead(r) \/ PutawayRead(r)
               \/ CountRead(r) \/ BlockBinRead(r) \/ UnblockBinRead(r) \/ ShipFree(r)
               \/ IsolateCommit(r) \/ RestoreCommit(r) \/ BlockBinCommit(r) \/ UnblockBinCommit(r)
               \/ Abandon(r)
      BY <1>3, <2>1, QuietSteps
    <2>2. CASE SaleCommit(r)
      BY <1>3, <2>2, SaleFigures
    <2>3. CASE WriteOffCommit(r) \/ PutawayCommit(r)
      BY <1>3, <2>3, FloorFigures
    <2>4. CASE PlaceCommit(r)
      <3>1. /\ Held(stock') = Held(stock) + requests[r].need /\ told' = told
            /\ Sum(OpenOf(orders')) = Sum(OpenOf(orders)) + requests[r].need
        BY <2>4, PlaceFigures
      <3>2. requests[r].need \in Nat
        BY DEF TypeOK, Request
      <3> QED
        BY <1>1, <1>2, <3>1, <3>2
    <2>5. CASE ShipCommit(r) \/ RejectCommit(r)
      <3>1. /\ told' = told
            /\ Held(stock') - Sum(OpenOf(orders')) >= Held(stock) - Sum(OpenOf(orders))
        BY <2>5, ShipFigures, RejectFigures
      <3> QED
        BY <1>1, <1>2, <3>1
    <2>6. CASE CountCommit(r)
      BY <1>1, <2>6, CountFigures
    <2> QED
      BY <1>6, <2>1, <2>2, <2>3, <2>4, <2>5, <2>6 DEF Trade, Warehouse
  <1> QED
    BY <1>4, <1>5, <1>6 DEF Next

LEMMA NoneOpen ==
    ASSUME NEW book \in [Orders -> Order], \A o \in Orders : book[o].status # "pending"
    PROVE  Sum(OpenOf(book)) = 0
  <1>1. \A o \in Orders : OpenOf(book)[o] \in Int /\ OpenOf(book)[o] = OpenOf(book)[o] + OpenOf(book)[o]
    BY DEF OpenOf
  <1>2. SumOver(OpenOf(book), Orders) = SumOver(OpenOf(book), Orders) + SumOver(OpenOf(book), Orders)
    BY <1>1, SumOverPlus, StockAssumption
  <1>3. Sum(OpenOf(book)) = SumOver(OpenOf(book), Orders) /\ Sum(OpenOf(book)) \in Nat
    BY OpenType
  <1>4. \A n \in Nat : n = n + n => n = 0
    OBVIOUS
  <1>5. Sum(OpenOf(book)) = Sum(OpenOf(book)) + Sum(OpenOf(book))
    BY <1>2, <1>3
  <1> QED
    BY <1>3, <1>4, <1>5

\* Units promised to open orders are held on some row, or a count has said that
\* it let go of them: for any number of orders and bins, whichever rows the
\* overlapping requests read, and also beside write-offs and putaways.
THEOREM PromisesAlwaysHeld == Spec => []HoldsCoverPromises
  <1>1. Init => HoldsCoverPromises
    <2> SUFFICES ASSUME Init PROVE Held(stock) + Sum(told) >= Sum(OpenOf(orders))
      BY PromisedIsOpen DEF HoldsCoverPromises
    <2>1. TypeOK
      BY InitType
    <2>2. Sum(OpenOf(orders)) = 0
      BY <2>1, NoneOpen DEF Init, TypeOK
    <2>3. Held(stock) \in Nat /\ Sum(told) \in Nat
      BY <2>1, FigureTypes, SplitSum DEF TypeOK
    <2> QED
      BY <2>2, <2>3
  <1> QED
    BY <1>1, StepCovers, Typing, PlansAlwaysFit, PTL DEF Spec

-----------------------------------------------------------------------------
(* Closing orders. *)

\* Only the three commits of the storefront touch an order, and only its own.
LEMMA OrderSteps ==
    ASSUME TypeOK, TypeOK', PlansFit, [Next]_vars, NEW o \in Orders, orders'[o] # orders[o]
    PROVE  \/ orders[o].status = "none" /\ orders'[o].status = "pending"
           \/ /\ orders[o].status = "pending"
              /\ Held(stock) - Held(stock') <= orders[o].quantity
  <1>1. orders' # orders
    OBVIOUS
  <1>2. PICK r \in Requests : Trade(r) \/ Warehouse(r) \/ Abandon(r)
    BY <1>1 DEF Next, Receive, vars
  <1>3. PlaceCommit(r) \/ ShipCommit(r) \/ RejectCommit(r)
    BY <1>1, <1>2, QuietSteps, SaleFigures, FloorFigures, CountFigures DEF Trade, Warehouse
  <1>4. CASE PlaceCommit(r)
    <2>1. o = requests[r].order
      BY <1>4, PlaceFigures
    <2>2. orders[o].status = "none"
      BY <1>4, <2>1 DEF PlaceCommit, Handling, PlansFit, Fits
    <2>3. orders'[o].status = "pending"
      BY <1>4, <2>1 DEF PlaceCommit, TypeOK
    <2> QED
      BY <2>2, <2>3
  <1>5. CASE ShipCommit(r)
    BY <1>5, ShipFigures
  <1>6. CASE RejectCommit(r)
    BY <1>6, RejectFigures
  <1> QED
    BY <1>3, <1>4, <1>5, <1>6

\* An order that is delivered or cancelled stays so, however often and by
\* however many people its closing is asked for (MayClaim).
THEOREM OrdersClosedOnce == Spec => ClosedOnce
  <1>1. TypeOK /\ TypeOK' /\ PlansFit /\ [Next]_vars =>
            [\A o \in Orders :
                orders[o].status \in {"confirmed", "cancelled"} => orders'[o] = orders[o]]_vars
    BY OrderSteps
  <1> QED
    BY <1>1, Typing, PlansAlwaysFit, PTL DEF Spec, ClosedOnce

\* Closing an order lifts at most the hold of that order, although the rows the
\* hold is lifted from were chosen on a snapshot (allocateRelease, releaseStock).
THEOREM OrdersLiftOwnHold == Spec => LiftsOwnHold
  <1>1. TypeOK /\ TypeOK' /\ PlansFit /\ [Next]_vars =>
            [\A o \in Orders :
                orders'[o].status \in {"confirmed", "cancelled"} /\ orders[o].status = "pending"
                => Held(stock) - Held(stock') <= orders[o].quantity]_vars
    <2> SUFFICES ASSUME TypeOK, TypeOK', PlansFit, [Next]_vars, NEW o \in Orders,
                        orders'[o].status \in {"confirmed", "cancelled"}, orders[o].status = "pending"
                 PROVE  Held(stock) - Held(stock') <= orders[o].quantity
      OBVIOUS
    <2>1. orders'[o] # orders[o]
      OBVIOUS
    <2> QED
      BY <2>1, OrderSteps
  <1> QED
    BY <1>1, Typing, PlansAlwaysFit, PTL DEF Spec, LiftsOwnHold

-----------------------------------------------------------------------------
(* The rows implement the promise of the point. *)

\* What the point owes is covered by goods.
LEMMA OwedIsThere ==
    ASSUME TypeOK, PromisesCovered, HoldsCoverPromises
    PROVE  OnHand(stock) >= Sum(OpenOf(orders)) - Sum(told)
  <1>1. \A b \in Bins : ReservedOf(stock)[b] <= QuantityOf(stock)[b]
    BY DEF PromisesCovered, ReservedOf, QuantityOf
  <1>2. Held(stock) <= OnHand(stock)
    BY <1>1, FigureTypes, SplitSmaller DEF TypeOK, Held, OnHand
  <1>3. /\ Held(stock) \in Nat /\ OnHand(stock) \in Nat /\ Sum(told) \in Nat
        /\ Sum(OpenOf(orders)) \in Nat
    BY FigureTypes, SplitSum, OpenType DEF TypeOK
  <1> QED
    BY <1>2, <1>3, PromisedIsOpen DEF HoldsCoverPromises

LEMMA ShopOwes == Shop!Owed = Sum(OpenOf(orders)) - Sum(told)
  BY DEF Shop!Owed, Shop!Sum, Shop!Fn!SumFunction, Shop!Fn!SumFunctionOnSet, Shop!Fn!FoldFunctionOnSet,
         Shop!Fn!MapThenFoldSet, OpenOf, Sum, Fn!SumFunction, Fn!SumFunctionOnSet, Fn!FoldFunctionOnSet,
         Fn!MapThenFoldSet


LEMMA HeldIsThere ==
    ASSUME NEW rows \in [Bins -> Row], \A b \in Bins : rows[b].reserved <= rows[b].quantity
    PROVE  Held(rows) <= OnHand(rows)
  <1>1. \A b \in Bins : ReservedOf(rows)[b] <= QuantityOf(rows)[b]
    BY DEF ReservedOf, QuantityOf
  <1> QED
    BY <1>1, FigureTypes, SplitSmaller DEF Held, OnHand

\* The same a step later.
LEMMA ShopWillOwe == (Shop!Owed)' = Sum(OpenOf(orders')) - Sum(told')
  BY DEF Shop!Owed, Shop!Sum, Shop!Fn!SumFunction, Shop!Fn!SumFunctionOnSet, Shop!Fn!FoldFunctionOnSet,
         Shop!Fn!MapThenFoldSet, OpenOf, Sum, Fn!SumFunction, Fn!SumFunctionOnSet, Fn!FoldFunctionOnSet,
         Fn!MapThenFoldSet

LEMMA ShopInit == Init => Shop!Init
  <1> SUFFICES ASSUME Init PROVE Shop!Init
    OBVIOUS
  <1>1. TypeOK
    BY InitType
  <1>2. OnHand(stock) \in Nat
    BY <1>1, FigureTypes DEF TypeOK
  <1>3. OpenOf(orders) = [o \in Orders |-> 0]
    BY DEF Init, OpenOf
  <1>4. Sum(told) = 0
    BY NothingSum DEF Init
  <1> QED
    BY <1>2, <1>3, <1>4 DEF Shop!Init, OpenOf

\* The steps of the promise, told by the figures of the rows.
LEMMA ShopPlaces ==
    ASSUME NEW o \in Orders, orders' \in [Orders -> Order],
           OpenOf(orders)[o] = 0, OpenOf(orders')[o] > 0,
           \A p \in Orders \ {o} : orders'[p] = orders[p],
           OnHand(stock') = OnHand(stock), told' = told,
           OnHand(stock) >= Sum(OpenOf(orders')) - Sum(told')
    PROVE  Shop!Place(o)
  <1>1. \A p \in Orders \ {o} : OpenOf(orders')[p] = OpenOf(orders)[p]
    BY DEF OpenOf
  <1>2. OpenOf(orders') = [OpenOf(orders) EXCEPT ![o] = OpenOf(orders')[o]]
    BY <1>1 DEF OpenOf
  <1>3. OnHand(stock) >= (Shop!Owed)'
    BY ShopWillOwe
  <1> QED
    BY <1>2, <1>3 DEF Shop!Place, OpenOf

LEMMA ShopCloses ==
    ASSUME NEW o \in Orders, OpenOf(orders)[o] > 0, OpenOf(orders')[o] = 0,
           \A p \in Orders \ {o} : orders'[p] = orders[p],
           told' = told
    PROVE  /\ OnHand(stock) = OnHand(stock') => Shop!Cancel(o)
           /\ /\ OnHand(stock) - OnHand(stock') \in 1..OpenOf(orders)[o]
              /\ OnHand(stock') >= Sum(OpenOf(orders')) - Sum(told')
              => Shop!Deliver(o)
  <1>1. \A p \in Orders \ {o} : OpenOf(orders')[p] = OpenOf(orders)[p]
    BY DEF OpenOf
  <1>2. OpenOf(orders') = [OpenOf(orders) EXCEPT ![o] = 0]
    BY <1>1 DEF OpenOf
  <1>3. OnHand(stock) = OnHand(stock') => Shop!Cancel(o)
    BY <1>2 DEF Shop!Cancel, OpenOf
  <1>4. /\ OnHand(stock) - OnHand(stock') \in 1..OpenOf(orders)[o]
        /\ OnHand(stock') >= Sum(OpenOf(orders')) - Sum(told')
        => Shop!Deliver(o)
    BY <1>2, ShopWillOwe DEF Shop!Deliver, OpenOf
  <1> QED
    BY <1>3, <1>4

\* Without the two operations that look at no promise, each step of the rows is
\* a step of the promise or none.
LEMMA ShopStep ==
    ASSUME {"writeOff", "putaway"} \cap Kinds = {}, TypeOK, TypeOK', PlansFit,
           PromisesCovered, PromisesCovered', HoldsCoverPromises', [Next]_vars
    PROVE  [Shop!Next]_(Shop!vars)
  <1>1. /\ OnHand(stock) \in Nat /\ OnHand(stock') \in Nat /\ Held(stock') \in Nat
        /\ Sum(told) \in Nat /\ Sum(told') \in Nat /\ Sum(OpenOf(orders')) \in Nat
    BY FigureTypes, SplitSum, OpenType DEF TypeOK
  <1>2. OnHand(stock') >= Sum(OpenOf(orders')) - Sum(told')
    <2>1. Held(stock') <= OnHand(stock')
      BY HeldIsThere DEF TypeOK, PromisesCovered
    <2>2. Held(stock') + Sum(told') >= Sum(OpenOf(orders'))
      BY DEF HoldsCoverPromises, Promised, OpenOf
    <2> QED
      BY <1>1, <2>1, <2>2
  <1>3. ASSUME OnHand(stock') = OnHand(stock), told' = told, orders' = orders
        PROVE  UNCHANGED Shop!vars
    BY <1>3 DEF Shop!vars
  <1>4. CASE UNCHANGED vars
    BY <1>3, <1>4 DEF vars
  <1>5. CASE Receive
    <2>1. Shop!Arrive
      BY <1>5, ReceiveFigures DEF Shop!Arrive
    <2> QED
      BY <2>1 DEF Shop!Next
  <1>6. ASSUME NEW r \in Requests, Trade(r) \/ Warehouse(r) \/ Abandon(r)
        PROVE  Shop!Next \/ UNCHANGED Shop!vars
    <2>1. CASE \/ SaleRead(r) \/ PlaceRead(r) \/ ShipRead(r) \/ RejectRead(r)
               \/ IsolateRead(r) \/ RestoreRead(r) \/ WriteOffRead(r) \/ PutawayRead(r)
               \/ CountRead(r) \/ BlockBinRead(r) \/ UnblockBinRead(r) \/ ShipFree(r)
               \/ IsolateCommit(r) \/ RestoreCommit(r) \/ BlockBinCommit(r) \/ UnblockBinCommit(r)
               \/ Abandon(r)
      BY <1>3, <2>1, QuietSteps
    <2>2. CASE SaleCommit(r)
      <3>1. OnHand(stock') >= (Shop!Owed)'
        BY <1>2, ShopWillOwe
      <3>2. Shop!Sell
        <4>1. (Shop!Owed)' = Shop!Owed
          BY <2>2, SaleFigures, ShopWillOwe, ShopOwes
        <4> QED
          BY <2>2, <3>1, <4>1, SaleFigures DEF Shop!Sell
      <3> QED
        BY <3>2 DEF Shop!Next
    <2>3. CASE PlaceCommit(r)
      <3>1. PICK o \in Orders :
            /\ OpenOf(orders)[o] = 0 /\ OpenOf(orders')[o] > 0
            /\ \A p \in Orders \ {o} : orders'[p] = orders[p]
            /\ OnHand(stock') = OnHand(stock) /\ told' = told
        BY <2>3, PlaceFigures
      <3>2. Shop!Place(o)
        BY <1>2, <3>1, ShopPlaces DEF TypeOK
      <3> QED
        BY <3>1, <3>2 DEF Shop!Next
    <2>4. CASE ShipCommit(r)
      <3>1. PICK o \in Orders :
            /\ OpenOf(orders)[o] = orders[o].quantity /\ OpenOf(orders')[o] = 0
            /\ orders[o].status = "pending"
            /\ \A p \in Orders \ {o} : orders'[p] = orders[p]
            /\ OnHand(stock) - OnHand(stock') \in 1..orders[o].quantity /\ told' = told
        BY <2>4, ShipFigures
      <3>2. OpenOf(orders)[o] > 0
        BY <3>1 DEF PlansFit
      <3>3. Shop!Deliver(o)
        BY <1>2, <3>1, <3>2, ShopCloses
      <3> QED
        BY <3>1, <3>3 DEF Shop!Next
    <2>5. CASE RejectCommit(r)
      <3>1. PICK o \in Orders :
            /\ OpenOf(orders)[o] = orders[o].quantity /\ OpenOf(orders')[o] = 0
            /\ orders[o].status = "pending"
            /\ \A p \in Orders \ {o} : orders'[p] = orders[p]
            /\ OnHand(stock) = OnHand(stock') /\ told' = told
        BY <2>5, RejectFigures
      <3>2. OpenOf(orders)[o] > 0
        BY <3>1 DEF PlansFit
      <3>3. Shop!Cancel(o)
        BY <3>1, <3>2, ShopCloses
      <3> QED
        BY <3>1, <3>3 DEF Shop!Next
    <2>6. CASE CountCommit(r)
      <3>1. OnHand(stock') >= (Shop!Owed)'
        BY <1>2, ShopWillOwe
      <3>2. Shop!Recount
        BY <2>6, <3>1, CountFigures DEF Shop!Recount
      <3> QED
        BY <3>2 DEF Shop!Next
    <2>7. CASE WriteOffCommit(r) \/ PutawayCommit(r)
      BY <2>7 DEF WriteOffCommit, PutawayCommit, Handling, TypeOK, Request
    <2> QED
      BY <1>6, <2>1, <2>2, <2>3, <2>4, <2>5, <2>6, <2>7 DEF Trade, Warehouse
  <1> QED
    BY <1>4, <1>5, <1>6 DEF Next

\* Sales, orders, shipments, counts, quarantines and blocked shelves, with any
\* number of requests over any number of bins, do what the point promises: goods
\* somebody has an open order for go to that customer or to nobody.
THEOREM PromiseKept ==
    ASSUME {"writeOff", "putaway"} \cap Kinds = {}
    PROVE  Spec => KeepsItsWord
  <1>1. /\ TypeOK /\ TypeOK' /\ PlansFit /\ PromisesCovered /\ PromisesCovered'
        /\ HoldsCoverPromises' /\ [Next]_vars
        => [Shop!Next]_(Shop!vars)
    BY ShopStep
  <1>2. Spec => []PromisesCovered
    BY PromisesAlwaysCovered
  <1> QED
    BY <1>1, <1>2, ShopInit, Typing, PlansAlwaysFit, PromisesAlwaysHeld, PTL
       DEF Spec, KeepsItsWord, Shop!Spec


\* A step serves one request.
LEMMA OneRequest ==
    ASSUME TypeOK, NEW r \in Requests, Trade(r) \/ Warehouse(r) \/ Abandon(r)
    PROVE  \A s \in Requests \ {r} : requests'[s] = requests[s]
  <1>1. \A q : requests' = [requests EXCEPT ![r] = q] =>
            \A s \in Requests \ {r} : requests'[s] = requests[s]
    BY DEF TypeOK
  <1>2. \A kind, plan : Plans(r, kind, plan) => \E q : requests' = [requests EXCEPT ![r] = q]
    BY DEF Plans
  <1>3. Closes(r) => \E q : requests' = [requests EXCEPT ![r] = q]
    BY DEF Closes
  <1>4. CASE SaleRead(r) \/ PlaceRead(r) \/ ShipRead(r) \/ RejectRead(r) \/ CountRead(r)
    <2>1. \E kind, plan : Plans(r, kind, plan)
      BY <1>4 DEF SaleRead, PlaceRead, ShipRead, RejectRead, CountRead
    <2> QED
      BY <1>1, <1>2, <2>1
  <1>5. CASE \/ IsolateRead(r) \/ RestoreRead(r) \/ WriteOffRead(r)
             \/ PutawayRead(r) \/ BlockBinRead(r) \/ UnblockBinRead(r)
    BY <1>1, <1>2, <1>5, OtherReads
  <1>6. CASE ShipFree(r)
    BY <1>6 DEF ShipFree, TypeOK
  <1>7. CASE PlaceCommit(r) \/ ShipCommit(r) \/ RejectCommit(r)
    BY <1>1, <1>3, <1>7 DEF PlaceCommit, ShipCommit, RejectCommit
  <1>8. CASE \/ SaleCommit(r) \/ IsolateCommit(r) \/ RestoreCommit(r) \/ WriteOffCommit(r)
             \/ PutawayCommit(r) \/ CountCommit(r) \/ BlockBinCommit(r) \/ UnblockBinCommit(r)
             \/ Abandon(r)
    BY <1>1, <1>3, <1>8, OtherCommits
  <1> QED
    BY <1>4, <1>5, <1>6, <1>7, <1>8 DEF Trade, Warehouse

\* In the theme of blocked shelves, nobody does anything else.
KeepsTheme ==
    theme.kinds = BlockKinds => \A r \in Requests : requests[r].kind \in BlockKinds \cup {"none"}

LEMMA ThemeSpec == MCSpec => Spec
  <1>1. MCInit => Init
    BY DEF MCInit
  <1>2. [MCNext]_<<vars, theme>> => [Next]_vars
    BY DEF MCNext, Next
  <1> QED
    BY <1>1, <1>2, PTL DEF MCSpec, Spec

LEMMA StepTheme == TypeOK /\ KeepsTheme /\ [MCNext]_<<vars, theme>> => KeepsTheme'
  <1> SUFFICES ASSUME TypeOK, KeepsTheme, [MCNext]_<<vars, theme>>, theme'.kinds = BlockKinds,
                      NEW s \in Requests
               PROVE  requests'[s].kind \in BlockKinds \cup {"none"}
    BY DEF KeepsTheme
  <1>1. theme' = theme
    BY DEF MCNext
  <1>2. requests[s].kind \in BlockKinds \cup {"none"}
    BY <1>1 DEF KeepsTheme
  <1>3. CASE requests'[s] = requests[s]
    BY <1>2, <1>3
  <1>4. CASE requests'[s] # requests[s]
    <2>1. PICK r \in Requests : /\ Trade(r) \/ Warehouse(r) \/ Abandon(r)
                                /\ requests'[r].kind \in theme.kinds \cup {"none"}
      BY <1>4 DEF MCNext, Receive, vars
    <2>2. s = r
      BY <1>4, <2>1, OneRequest
    <2> QED
      BY <1>1, <2>1, <2>2
  <1> QED
    BY <1>3, <1>4

\* Where managers only isolate, restore, count, receive and block shelves, no
\* row holds out of sale more than it has (blockStock, trimHoldsToStock).
THEOREM BlocksAlwaysFit == MCSpec => []BlocksFit
  <1>1. MCInit => KeepsTheme /\ BlocksFit
    BY StockAssumption DEF MCInit, Init, KeepsTheme, Idle, BlocksFit, HoldsFit, NoRow, Available
  <1>2. TypeOK /\ KeepsTheme /\ BlocksFit /\ [MCNext]_<<vars, theme>> => BlocksFit'
    <2> SUFFICES ASSUME TypeOK, KeepsTheme, BlocksFit, [MCNext]_<<vars, theme>>, theme'.kinds = BlockKinds
                 PROVE  HoldsFit'
      BY DEF BlocksFit
    <2>1. theme' = theme
      BY DEF MCNext
    <2>2. \A r \in Requests : requests[r].kind \notin Careless
      BY <2>1 DEF KeepsTheme, BlockKinds, Careless
    <2>3. HoldsFit /\ [Next]_vars
      BY <2>1 DEF BlocksFit, MCNext, Next
    <2> QED
      BY <2>2, <2>3, StepFits
  <1> QED
    BY <1>1, <1>2, StepTheme, ThemeSpec, Typing, PTL DEF MCSpec

\* Both shops of the runs close an order once, and lift its own hold and no
\* other (pos.ts:8535, allocateRelease).
THEOREM OneClosingForEach == MCSpec => OneClosingEach
  BY ThemeSpec, OrdersClosedOnce, OrdersLiftOwnHold, PTL DEF OneClosingEach
=============================================================================
