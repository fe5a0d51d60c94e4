------------------------------ MODULE OrderDesk ------------------------------
(***************************************************************************)
(* Orders at the counter: walking the shelves with the list, shipping what *)
(* was found, handing out the whole order, turning it down.                *)
(*                                                                         *)
(* StockHolds shows how one order's hold is spread over the bins.  Here an *)
(* order has lines and each line may be picked, so that less is shipped    *)
(* than was ordered; one of the products is marked, so that packs leave    *)
(* with the goods.  A location keeps one stock row per product here.       *)
(***************************************************************************)
EXTENDS Collections, FiniteSetsExt

CONSTANTS
    Goods,          \* products
    MarkedGoods,    \* those of them with a code on every pack
    GoodsPacks,     \* the marked packs: [pack -> product]
    Ordered,        \* what was ordered: [order -> [product -> units]]
    FirstShelf,     \* [product -> units] on the shelf at the start
    Pickers         \* requests being served at a time

Orders == DOMAIN Ordered

InStock == "in_stock"
OverCounter == "sale"

ASSUME OrderDeskAssumption ==
    /\ IsFiniteSet(Orders) /\ Orders \cap {InStock, OverCounter} = {}
    /\ Ordered \in [Orders -> [Goods -> Nat]]
    /\ FirstShelf \in [Goods -> Nat]
    /\ MarkedGoods \subseteq Goods
    /\ IsFiniteSet(DOMAIN GoodsPacks)
    /\ \A k \in DOMAIN GoodsPacks : GoodsPacks[k] \in MarkedGoods

\* An order is taken for goods that are there, and packs come with their goods.
ASSUME FirstShelfAssumption ==
    /\ \A p \in Goods : Sum([o \in Orders |-> Ordered[o][p]]) <= FirstShelf[p]
    /\ \A p \in MarkedGoods :
          Cardinality({k \in DOMAIN GoodsPacks : GoodsPacks[k] = p}) <= FirstShelf[p]

VARIABLES
    shelf,      \* the goods of each stock row
    held,       \* what the row promises
    orders,     \* the documents with what was picked on each line
    spentOn,    \* what each marked pack was handed out for, or InStock
    picking,    \* requests between what they read and what they write
    shipped     \* what left for each order

deskVars == <<shelf, held, orders, spentOn, picking, shipped>>

NotLooked == -1     \* nobody looked for this line yet
NotPicking == [at |-> "idle"]
NothingOf == [p \in Goods |-> 0]

DeskRequests ==
    [at : {"pick"}, order : Orders, picked : [Goods -> Nat \cup {NotLooked}]]
    \cup [at : {"ship"}, order : Orders, take : [Goods -> Nat], packs : SUBSET DOMAIN GoodsPacks]
    \cup [at : {"reject"}, order : Orders]

PacksOf(p) == {k \in DOMAIN GoodsPacks : GoodsPacks[k] = p /\ spentOn[k] = InStock}
OpenOrders == {o \in Orders : orders[o].status = "pending"}
Promised(p) == Sum([o \in OpenOrders |-> Ordered[o][p]])

DeskInit ==
    /\ shelf = FirstShelf
    /\ orders = [o \in Orders |-> [status |-> "pending", picked |-> [p \in Goods |-> NotLooked]]]
    /\ held = [p \in Goods |-> Promised(p)]
    /\ spentOn = [k \in DOMAIN GoodsPacks |-> InStock]
    /\ picking = [c \in Pickers |-> NotPicking]
    /\ shipped = [o \in Orders |-> NothingOf]

Starting(c, request) ==
    /\ picking[c] = NotPicking
    /\ orders[request.order].status = "pending"
    /\ picking' = [picking EXCEPT ![c] = request]
    /\ UNCHANGED <<shelf, held, orders, spentOn, shipped>>

-----------------------------------------------------------------------------
(* Picking. *)

\* A line may be reported with anything from nothing to what was ordered and
\* what is there, and is left as it was when the request does not name it.
PickedNow(o, p) ==
    {orders[o].picked[p]} \cup 0..Lesser(Ordered[o][p], shelf[p])

ResolvedPicks(o) ==
    {line \in [Goods -> UNION {PickedNow(o, p) : p \in Goods}] :
        \A p \in Goods : line[p] \in PickedNow(o, p)}

\* Every line that was ever looked at is written again, named or not.
PickReads(c, o) ==
    \E lines \in ResolvedPicks(o) : Starting(c, [at |-> "pick", order |-> o, picked |-> lines])

\* No status in the condition of the write: the order may be closed by now.
PickCommits(c) ==
    LET d == picking[c] IN
    /\ d.at = "pick"
    /\ picking' = [picking EXCEPT ![c] = NotPicking]
    /\ orders' = [orders EXCEPT ![d.order].picked =
          [p \in Goods |-> IF d.picked[p] = NotLooked THEN @[p] ELSE d.picked[p]]]
    /\ UNCHANGED <<shelf, held, spentOn, shipped>>

-----------------------------------------------------------------------------
(* Closing. *)

\* A line nobody looked for ships in full.
Found(o) == [p \in Goods |->
    IF orders[o].picked[p] = NotLooked THEN Ordered[o][p] ELSE orders[o].picked[p]]

\* The packs for all the lines together.
CodesFor(take) ==
    {S \in SUBSET DOMAIN GoodsPacks :
        \A p \in Goods :
            LET mine == {k \in S : GoodsPacks[k] = p}
            IN mine \in PickedCodes(take[p], PacksOf(p))}

HandsOut(c, o, take) ==
    \E codes \in CodesFor(take) :
        Starting(c, [at |-> "ship", order |-> o, take |-> take, packs |-> codes])

\* Nothing found is nothing to ship: such an order has to be turned down.
ShipReads(c, o) == Sum(Found(o)) > 0 /\ HandsOut(c, o, Found(o))

\* The other door: the whole order, whatever was picked.
FulfillReads(c, o) == HandsOut(c, o, Ordered[o])

\* Giving back the hold of what ships, and keeping the rest for nobody.
ReleasedPart(d) == d.take

\* The hold covered the whole order, so all of it comes off.
ReleasedWith(d) == Ordered[d.order]

CodesAfter(d) == [k \in DOMAIN GoodsPacks |-> IF k \in d.packs THEN d.order ELSE spentOn[k]]

\* The order is claimed, the hold lifted, and the goods taken from what is then
\* free; a pack or a unit that went elsewhere undoes all of it.
ShipGoesThrough(d) ==
    /\ orders[d.order].status = "pending"
    /\ \A p \in Goods : shelf[p] - NotNegative(held[p] - Ordered[d.order][p]) >= d.take[p]
    /\ \A k \in d.packs : spentOn[k] = InStock

ShipCommits(c) ==
    LET d == picking[c] IN
    /\ d.at = "ship"
    /\ picking' = [picking EXCEPT ![c] = NotPicking]
    /\ IF ShipGoesThrough(d)
       THEN /\ orders' = [orders EXCEPT ![d.order].status = "confirmed"]
            /\ held' = [p \in Goods |-> NotNegative(held[p] - ReleasedWith(d)[p])]
            /\ shelf' = [p \in Goods |-> shelf[p] - d.take[p]]
            /\ spentOn' = CodesAfter(d)
            /\ shipped' = [shipped EXCEPT ![d.order] = d.take]
       ELSE UNCHANGED <<shelf, held, orders, spentOn, shipped>>

RejectReads(c, o) == Starting(c, [at |-> "reject", order |-> o])

RejectCommits(c) ==
    LET d == picking[c] IN
    /\ d.at = "reject"
    /\ picking' = [picking EXCEPT ![c] = NotPicking]
    /\ UNCHANGED <<shelf, spentOn, shipped>>
    /\ IF orders[d.order].status = "pending"
       THEN /\ orders' = [orders EXCEPT ![d.order].status = "cancelled"]
            /\ held' = [p \in Goods |-> NotNegative(held[p] - Ordered[d.order][p])]
       ELSE UNCHANGED <<orders, held>>

\* A customer at the counter buys one unit that nobody was promised.
OverTheCounter(p) ==
    /\ shelf[p] > held[p]
    /\ shelf' = [shelf EXCEPT ![p] = @ - 1]
    /\ IF PacksOf(p) = {} THEN UNCHANGED spentOn
       ELSE \E k \in PacksOf(p) : spentOn' = [spentOn EXCEPT ![k] = OverCounter]
    /\ UNCHANGED <<held, orders, picking, shipped>>

DeskNext ==
    \/ \E c \in Pickers, o \in Orders :
          PickReads(c, o) \/ ShipReads(c, o) \/ FulfillReads(c, o) \/ RejectReads(c, o)
    \/ \E c \in Pickers : PickCommits(c) \/ ShipCommits(c) \/ RejectCommits(c)
    \/ \E p \in Goods : OverTheCounter(p)

DeskSpec == DeskInit /\ [][DeskNext]_deskVars

-----------------------------------------------------------------------------
\* The shape of the state.
DeskTypeOK ==
    /\ shelf \in [Goods -> Nat] /\ held \in [Goods -> Nat]
    /\ orders \in [Orders -> [status : {"pending", "confirmed", "cancelled"},
                              picked : [Goods -> Nat \cup {NotLooked}]]]
    /\ spentOn \in [DOMAIN GoodsPacks -> Orders \cup {InStock, OverCounter}]
    /\ \A c \in Pickers : picking[c] \in DeskRequests \cup {NotPicking}
    /\ shipped \in [Orders -> [Goods -> Nat]]

\* What the shelf holds back is what the open orders were promised and is
\* there, however the others were closed: "goods held for an order that has
\* already shipped and will never claim them" (picking.ts:144) do not exist.
HoldsAreOpenOrders == \A p \in Goods : held[p] = Promised(p) /\ held[p] <= shelf[p]

\* A pack is marked as handed out when, and only when, its unit left: there
\* are never more packs to sell than goods, nor more packs out for an order
\* than went to that customer (pos.ts:8409).
PacksLeaveWithGoods ==
    /\ \A p \in MarkedGoods : Cardinality(PacksOf(p)) <= shelf[p]
    /\ \A o \in Orders, p \in MarkedGoods :
          Cardinality({k \in DOMAIN GoodsPacks : GoodsPacks[k] = p /\ spentOn[k] = o}) <= shipped[o][p]

\* What the list of orders shows as shipped, which "is the number the
\* wholesaler bills" (pos.ts:8276), is what left the shelf.
\* (The code does not keep this: README.)
BilledAsShipped ==
    \A o \in Orders : orders[o].status = "confirmed" => Found(o) = shipped[o]
=============================================================================
