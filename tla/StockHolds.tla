------------------------------ MODULE StockHolds ------------------------------
(***************************************************************************)
(* One product at one location, and everything the server does to its      *)
(* stock rows: sales, storefront orders, quarantine, write-offs, putaway,  *)
(* counts and blocked shelves, as concurrent requests.                     *)
(*                                                                         *)
(* Postgres runs every transaction of the API at READ COMMITTED.  A        *)
(* request reads the rows once and plans from that snapshot which rows to   *)
(* write; its writes are conditional UPDATEs whose conditions are evaluated *)
(* on the locked row and whose locks are kept to the commit.  So a request  *)
(* is two steps here, the read that makes the plan and the commit with all  *)
(* its write guards, and anything may happen in between.  Shipping an order *)
(* is three: it lifts its hold, reads again, and only then takes the goods. *)
(*                                                                         *)
(* Left out: fractions (a unit here is the smallest step of a quantity),   *)
(* batches, marked codes and money, which have their own books, and        *)
(* deliveries to rows other than this product's.                           *)
(***************************************************************************)
EXTENDS StockRows

CONSTANTS
    Requests,   \* the requests the server can have in flight at once
    Orders,     \* storefront orders
    Kinds,      \* the operations that take part
    MaxUnits,   \* bound: the most units delivered, asked for or counted
    MaxBlocks,  \* bound: how many times one shelf is blocked
    Opening     \* opening stock, per bin

ASSUME StockAssumption ==
    /\ MaxUnits \in Nat
    /\ MaxBlocks \in Nat
    /\ Opening \in [Bins -> Nat]
    /\ IsFiniteSet(Orders)

VARIABLES
    stock,      \* the rows of table "stocks"
    ledger,     \* sum of the stock movements of each bin
    orders,     \* storefront orders: documents of type 'order'
    shelf,      \* storage bins: blocked or not, and the confirmed bin_block documents
    told,       \* per bin, units of reservation the counts reported as released
    requests    \* the plan each request in flight has made from what it read

vars == <<stock, ledger, orders, shelf, told, requests>>

NoOrder == "no order"

Order == [status : {"none", "pending", "confirmed", "cancelled"}, quantity : Nat]

\* held is the sum of the shelf's confirmed block documents, turn counts the
\* blocks so that a document of an earlier block can be told from a later one.
Shelf == [blocked : BOOLEAN, held : Nat, turn : Nat]

\* A plan: how many units to take from each row (or to hold on it), how many to
\* put there, how many units of hold to lift off it.
Request ==
    [kind : Kinds \cup {"none"}, phase : {"idle", "planned", "freed"},
     take : Split, give : Split, lift : Split,
     need : Nat, order : Orders \cup {NoOrder}, bin : Bins, turn : Nat]

Idle ==
    [kind |-> "none", phase |-> "idle",
     take |-> Nothing, give |-> Nothing, lift |-> Nothing,
     need |-> 0, order |-> NoOrder, bin |-> Unplaced, turn |-> 0]

Init ==
    /\ stock = [b \in Bins |-> [NoRow EXCEPT !.quantity = Opening[b]]]
    /\ ledger = Opening
    /\ orders = [o \in Orders |-> [status |-> "none", quantity |-> 0]]
    /\ shelf = [b \in Bins |-> [blocked |-> FALSE, held |-> 0, turn |-> 0]]
    /\ told = Nothing
    /\ requests = [r \in Requests |-> Idle]

-----------------------------------------------------------------------------
(* The life of a request. *)

Plans(r, kind, plan) ==
    /\ kind \in Kinds
    /\ requests[r] = Idle
    /\ requests' = [requests EXCEPT ![r] = [plan EXCEPT !.kind = kind, !.phase = "planned"]]
    /\ UNCHANGED <<stock, ledger, orders, shelf, told>>

Handling(r, kind, phase) == requests[r].kind = kind /\ requests[r].phase = phase

Closes(r) == requests' = [requests EXCEPT ![r] = Idle]

\* Rows another transaction has written and not committed.
LockedAgainst(r) ==
    {b \in Bins : \E s \in Requests \ {r} : requests[s].phase = "freed" /\ requests[s].lift[b] > 0}

Writes(r, rows) ==
    /\ \A b \in LockedAgainst(r) : rows[b] = stock[b]
    /\ stock' = rows

\* Movements that name the building and not the shelf, as those of new rows
\* once did.
MovesUnplaced(give, take) ==
    ledger' = [ledger EXCEPT ![Unplaced] = @ + Sum(give) - Sum(take)]

\* The ledger gets one movement per row: the change of its quantity.
Moves(give, take) == ledger' = [b \in Bins |-> ledger[b] + give[b] - take[b]]

\* A request that is refused by a guard, killed as a deadlock victim, timed
\* out or cut off by a crash of the server: its transaction leaves nothing.
Abandon(r) ==
    /\ requests[r].kind # "none"
    /\ Closes(r)
    /\ UNCHANGED <<stock, ledger, orders, shelf, told>>

-----------------------------------------------------------------------------
(* Goods leaving against what is on offer.  A sale stands for the other     *)
(* reasons that respect reservations as well: a transfer out, production,   *)
(* a table order and a return to the supplier.                              *)

SaleRead(r) ==
    \E n \in 1..MaxUnits : \E take \in FromBins(n, AvailableOf(stock)) :
        /\ OnOffer(stock) >= n
        /\ Plans(r, "sale", [Idle EXCEPT !.take = take])

SaleCommit(r) ==
    /\ Handling(r, "sale", "planned")
    /\ CoversUnreserved(stock, requests[r].take)
    /\ Writes(r, Taken(stock, requests[r].take))
    /\ Moves(Nothing, requests[r].take)
    /\ Closes(r)
    /\ UNCHANGED <<orders, shelf, told>>

-----------------------------------------------------------------------------
(* Storefront orders. *)

PlaceRead(r) ==
    \E o \in Orders, n \in 1..MaxUnits : \E take \in FromBins(n, AvailableOf(stock)) :
        /\ orders[o].status = "none"
        /\ OnOffer(stock) >= n
        /\ \A s \in Requests : requests[s].order # o
        /\ Plans(r, "place", [Idle EXCEPT !.order = o, !.need = n, !.take = take])

PlaceCommit(r) ==
    /\ Handling(r, "place", "planned")
    /\ CoversUnreserved(stock, requests[r].take)
    /\ Writes(r, Reserved(stock, requests[r].take))
    /\ orders' = [orders EXCEPT ![requests[r].order] =
                     [status |-> "pending", quantity |-> requests[r].need]]
    /\ Closes(r)
    /\ UNCHANGED <<ledger, shelf, told>>

\* Closing an order without claiming it first.
MayAlways(r) == TRUE

\* The claim on the order document.  It precedes the reading of the rows; as
\* only a transaction that claims may change the order, and the loser of a
\* claim does nothing, it is asked here where the first write is.
MayClaim(r) ==
    LET o == requests[r].order
    IN /\ orders[o].status = "pending"
       /\ \A s \in Requests \ {r} : requests[s].order = o => requests[s].phase # "freed"

\* All of the order's hold, off the rows that hold most.
HoldOf(o) == ReleaseParts(orders[o].quantity, ReservedOf(stock))

\* need is what was picked, which may be less than what was ordered.
ShipRead(r) ==
    \E o \in Orders :
        /\ orders[o].status = "pending"
        /\ \E picked \in 1..orders[o].quantity, lift \in HoldOf(o) :
              /\ OnHand(stock) >= picked
              /\ Plans(r, "ship", [Idle EXCEPT !.order = o, !.need = picked, !.lift = lift])

\* The hold comes off and the rows are read once more.  The rows are locked
\* from here on, so what is lifted is written to stock at the commit.
ShipFree(r) ==
    LET lift == requests[r].lift
    IN /\ Handling(r, "ship", "planned")
       /\ MayClaim(r)
       /\ Touched(lift) \cap LockedAgainst(r) = {}
       /\ \E take \in FromBins(requests[r].need, AvailableOf(Released(stock, lift))) :
             requests' = [requests EXCEPT ![r].phase = "freed", ![r].take = take]
       /\ UNCHANGED <<stock, ledger, orders, shelf, told>>

ShipCommit(r) ==
    LET freed == Released(stock, requests[r].lift)
        take == requests[r].take
    IN /\ Handling(r, "ship", "freed")
       /\ CoversUnreserved(freed, take)
       /\ Writes(r, Taken(freed, take))
       /\ Moves(Nothing, take)
       /\ orders' = [orders EXCEPT ![requests[r].order].status = "confirmed"]
       /\ Closes(r)
       /\ UNCHANGED <<shelf, told>>

RejectRead(r) ==
    \E o \in Orders :
        /\ orders[o].status = "pending"
        /\ \E lift \in HoldOf(o) :
              Plans(r, "reject", [Idle EXCEPT !.order = o, !.lift = lift])

RejectCommit(r) ==
    /\ Handling(r, "reject", "planned")
    /\ MayClaim(r)
    /\ Writes(r, Released(stock, requests[r].lift))
    /\ orders' = [orders EXCEPT ![requests[r].order].status = "cancelled"]
    /\ Closes(r)
    /\ UNCHANGED <<ledger, shelf, told>>

-----------------------------------------------------------------------------
(* Quarantine and write-off.  Both read the rows before their transaction. *)

IsolateRead(r) ==
    \E n \in 1..MaxUnits :
        /\ OnOffer(stock) >= n
        /\ \E take \in InReadOrder(n, AvailableOf(stock)) :
              Plans(r, "isolate", [Idle EXCEPT !.take = take])

IsolateCommit(r) ==
    /\ Handling(r, "isolate", "planned")
    /\ CoversAvailable(stock, requests[r].take)
    /\ Writes(r, Blocked(stock, requests[r].take))
    /\ Closes(r)
    /\ UNCHANGED <<ledger, orders, shelf, told>>

RestoreRead(r) ==
    \E n \in 1..MaxUnits : \E lift \in InReadOrder(n, BlockedOf(stock)) :
        Plans(r, "restore", [Idle EXCEPT !.lift = lift])

RestoreCommit(r) ==
    /\ Handling(r, "restore", "planned")
    /\ CoversBlocked(stock, requests[r].lift)
    /\ Writes(r, Unblocked(stock, requests[r].lift))
    /\ Closes(r)
    /\ UNCHANGED <<ledger, orders, shelf, told>>

\* Goods are taken wherever they are, held or not, and as much quarantine is
\* lifted, wherever that lies.
WriteOffRead(r) ==
    \E n \in 1..MaxUnits :
        \E take \in FromBins(n, QuantityOf(stock)), lift \in ReleaseParts(n, BlockedOf(stock)) :
            Plans(r, "writeOff", [Idle EXCEPT !.take = take, !.lift = lift])

WriteOffCommit(r) ==
    LET take == requests[r].take
    IN /\ Handling(r, "writeOff", "planned")
       /\ CoversOnHand(stock, take)
       /\ Writes(r, Unblocked(Taken(stock, take), requests[r].lift))
       /\ Moves(Nothing, take)
       /\ Closes(r)
       /\ UNCHANGED <<orders, shelf, told>>

-----------------------------------------------------------------------------
(* Goods moving between bins, arriving, and being counted. *)

PutawayRead(r) ==
    \E from, to \in Bins, n \in 1..MaxUnits :
        /\ from # to
        /\ ~shelf[from].blocked /\ ~shelf[to].blocked
        /\ Available(stock[from]) >= n
        /\ Plans(r, "putaway",
                 [Idle EXCEPT !.take = Only(from, n), !.give = Only(to, n), !.bin = from])

\* Written as an 'adjustment', which asks only that the goods be there.
PutawayCommit(r) ==
    LET take == requests[r].take
        give == requests[r].give
    IN /\ Handling(r, "putaway", "planned")
       /\ CoversOnHand(stock, take)
       /\ Writes(r, Added(Taken(stock, take), give))
       /\ Moves(give, take)
       /\ Closes(r)
       /\ UNCHANGED <<orders, shelf, told>>

\* A delivery lands on the row without an address.  It reads nothing that it
\* later relies on, so it is one step.
Receive ==
    \E n \in 1..MaxUnits :
        /\ "receive" \in Kinds
        /\ OnHand(stock) + n <= MaxUnits
        /\ \A r \in Requests : Unplaced \notin LockedAgainst(r)
        /\ stock' = Added(stock, Only(Unplaced, n))
        /\ Moves(Only(Unplaced, n), Nothing)
        /\ UNCHANGED <<orders, shelf, told, requests>>

\* A surplus has no shelf of its own: it goes to the unplaced row, or to
\* whichever row there is when that one does not exist.
SurplusBins ==
    {Unplaced} \cup (IF stock[Unplaced] = NoRow THEN {b \in Bins : stock[b] # NoRow} ELSE {})

\* The correction is the difference between the figure somebody found and the
\* rows that were read.
CountRead(r) ==
    \E found \in 0..MaxUnits :
        \/ \E take \in FromBins(OnHand(stock) - found, QuantityOf(stock)) :
              Plans(r, "count", [Idle EXCEPT !.take = take])
        \/ \E surplus \in 1..found, b \in SurplusBins :
              /\ OnHand(stock) + surplus = found
              /\ Plans(r, "count", [Idle EXCEPT !.give = Only(b, surplus)])

\* A count that lets go of promised goods and tells nobody.
TellsNobody(rows) == told' = told

\* What trimHoldsToStock lets go of and returns, for the count's answer.
Tells(rows) == told' = [b \in Bins |-> told[b] + TrimHolds(rows[b]).reserved]

\* It is followed, in the same transaction and from rows read again, by cutting
\* the holds down to the goods that are left.
CountCommit(r) ==
    LET take == requests[r].take
        give == requests[r].give
        counted == Added(Taken(stock, take), give)
    IN /\ Handling(r, "count", "planned")
       /\ CoversOnHand(stock, take)
       /\ Writes(r, Trimmed(counted))
       /\ Moves(give, take)
       /\ Tells(counted)
       /\ Closes(r)
       /\ UNCHANGED <<orders, shelf>>

-----------------------------------------------------------------------------
(* Blocking a whole shelf.  The document remembers what this block took. *)

BlockBinRead(r) ==
    \E b \in Bins \ {Unplaced} :
        /\ ~shelf[b].blocked
        /\ shelf[b].turn < MaxBlocks
        /\ Plans(r, "blockBin",
                 [Idle EXCEPT !.bin = b, !.take = Only(b, AtLeastZero(Available(stock[b])))])

BlockBinCommit(r) ==
    LET b == requests[r].bin
        take == requests[r].take
    IN /\ Handling(r, "blockBin", "planned")
       /\ ~shelf[b].blocked
       /\ shelf[b].turn < MaxBlocks
       /\ CoversAvailable(stock, take)
       /\ Writes(r, Blocked(stock, take))
       /\ shelf' = [shelf EXCEPT ![b] = [blocked |-> TRUE,
                                         held |-> @.held + take[b],
                                         turn |-> @.turn + 1]]
       /\ Closes(r)
       /\ UNCHANGED <<ledger, orders, told>>

\* Lifts what the shelf's documents took, as far as it is still blocked.
UnblockBinRead(r) ==
    \E b \in Bins \ {Unplaced} :
        /\ shelf[b].blocked
        /\ Plans(r, "unblockBin",
                 [Idle EXCEPT !.bin = b, !.turn = shelf[b].turn,
                              !.lift = Only(b, Smaller(shelf[b].held, stock[b].blocked))])

\* Only the documents that were read are marked released.
UnblockBinCommit(r) ==
    LET b == requests[r].bin
    IN /\ Handling(r, "unblockBin", "planned")
       /\ shelf[b].blocked
       /\ CoversBlocked(stock, requests[r].lift)
       /\ Writes(r, Unblocked(stock, requests[r].lift))
       /\ shelf' = [shelf EXCEPT ![b] =
                        [blocked |-> FALSE,
                         held |-> IF requests[r].turn = @.turn THEN 0 ELSE @.held,
                         turn |-> @.turn]]
       /\ Closes(r)
       /\ UNCHANGED <<ledger, orders, told>>

-----------------------------------------------------------------------------
Trade(r) ==
    \/ SaleRead(r)   \/ SaleCommit(r)
    \/ PlaceRead(r)  \/ PlaceCommit(r)
    \/ ShipRead(r)   \/ ShipFree(r)   \/ ShipCommit(r)
    \/ RejectRead(r) \/ RejectCommit(r)

Warehouse(r) ==
    \/ IsolateRead(r)    \/ IsolateCommit(r)
    \/ RestoreRead(r)    \/ RestoreCommit(r)
    \/ WriteOffRead(r)   \/ WriteOffCommit(r)
    \/ PutawayRead(r)    \/ PutawayCommit(r)
    \/ CountRead(r)      \/ CountCommit(r)
    \/ BlockBinRead(r)   \/ BlockBinCommit(r)
    \/ UnblockBinRead(r) \/ UnblockBinCommit(r)

Next ==
    \/ Receive
    \/ \E r \in Requests : Trade(r) \/ Warehouse(r) \/ Abandon(r)

Spec == Init /\ [][Next]_vars

-----------------------------------------------------------------------------
(* What is true of the rows. *)

\* No write ever drives a counter of a row below zero, whatever snapshot it was
\* decided from (applyStockDelta, unblockStock, releaseStock).
TypeOK ==
    /\ stock \in [Bins -> Row]
    /\ ledger \in [Bins -> Int]
    /\ orders \in [Orders -> Order]
    /\ shelf \in [Bins -> Shelf]
    /\ told \in Split
    /\ requests \in [Requests -> Request]

\* The quantity of every row is the sum of the movements of that bin: the cache
\* can always be rebuilt from the ledger (applyStockDelta, createStockWithMovement).
LedgerAgrees == \A b \in Bins : ledger[b] = stock[b].quantity

\* A bin never holds fewer goods than it is promised to give to open orders.
\* Sales, orders, quarantine, counts and blocked shelves keep it; a write-off
\* and a putaway do not look at promises.
PromisesCovered == \A b \in Bins : stock[b].reserved <= stock[b].quantity

Promised ==
    Sum([o \in Orders |->
              IF orders[o].status = "pending" THEN orders[o].quantity ELSE 0])

\* Units promised to open orders are held somewhere, unless a count has said
\* that it let go of them.  Reservations are placed and lifted from snapshots,
\* and the floor at zero of releaseStock must not eat another order's hold.
HoldsCoverPromises == Held(stock) + Sum(told) >= Promised

\* Quarantines and blocked shelves never hold more than the goods that are
\* there and unpromised, so no row offers less than nothing.  Two managers who
\* isolate the same goods, or one who blocks a shelf while another isolates,
\* keep it (blockStock, unblockStock); a sale or an order in between does not.
HoldsFit == \A b \in Bins : Available(stock[b]) >= 0

\* A sale or a shipped order never takes goods that a row holds for someone
\* else's order, not even a row that a write-off or a putaway has left short.
TradeKeepsPromises ==
    [][\A r \in Requests, b \in Bins :
          /\ requests[r].kind \in {"sale", "ship"}
          /\ requests'[r] # requests[r]
          /\ stock'[b].quantity < stock[b].quantity
          => stock'[b].reserved <= stock'[b].quantity]_vars

\* An order leaves "pending" once, and with it at most its own quantity of
\* holds: a double click never lifts the hold twice (fulfill, ship, reject).
ClosedOnce ==
    [][\A o \in Orders :
          orders[o].status \in {"confirmed", "cancelled"} => orders'[o] = orders[o]]_vars

LiftsOwnHold ==
    [][\A o \in Orders :
          orders'[o].status \in {"confirmed", "cancelled"} /\ orders[o].status = "pending"
          => Held(stock) - Held(stock') <= orders[o].quantity]_vars

\* The rows implement the promise of the point: an open order's goods are given
\* to its customer or to nobody, although holds are placed and lifted bin by
\* bin, from snapshots, by requests that overlap.
Shop == INSTANCE PromisedGoods WITH
    onHand <- OnHand(stock),
    open <- [o \in Orders |->
                IF orders[o].status = "pending" THEN orders[o].quantity ELSE 0],
    missing <- Sum(told)

KeepsItsWord == Shop!Spec

-----------------------------------------------------------------------------
(* What the comments and tests of the code say, and the code does not keep. *)

\* When the last open order is closed nothing stays reserved; while orders are
\* open exactly their goods are.
HeldMatchesPromises == Held(stock) + Sum(told) = Promised
=============================================================================
