--------------------------- MODULE Replenishment ---------------------------
(***************************************************************************)
(* What to order of one product (replenishment.ts; routes/pos.ts,          *)
(* replenishmentFor).  A screen reads the stock and the vans on their way  *)
(* here, in either order, and after both the orders suppliers have yet to  *)
(* fulfil, of which those long overdue are given up.  What is missing is   *)
(* suggested in whole packs.  Of what a screen shows drafts are made, as   *)
(* often as somebody asks; whoever may approves and sends a draft or puts  *)
(* it aside.  A draft is not on its way.                                   *)
(***************************************************************************)
EXTENDS Collections, FiniteSetsExt

CONSTANTS
    Screens,        \* calculations being made or shown at a time
    Policies,       \* [min, target] an owner may set, 0 for none
    Covers,         \* units sold in the lead time and the safety days; 0: no demand known
    UnitsPerPack,
    Lead, Grace,    \* days an order takes; least it may be late by
    Promised,       \* days a supplier may name for an order instead
    LastDate, MaxOrders, MaxStock, MaxTransit, Extra    \* bounds: days, orders, units in
                    \* the shop, on vans, and delivered beyond what was ordered

ASSUME ReplenishmentAssumption ==
    /\ Policies \subseteq [min : Nat, target : Nat] /\ Covers \subseteq Nat
    /\ \A policy \in Policies : policy.target > 0 => policy.target >= policy.min
    /\ UnitsPerPack \in Nat \ {0} /\ Lead \in Nat \ {0} /\ Grace \in Nat
    /\ Promised \subseteq Int /\ MaxStock \in Nat /\ MaxTransit \in Nat /\ Extra \in Nat

VARIABLES
    date,
    inStock,     \* what may be sold
    inTransit,   \* on vans that were sent here and not received yet
    orders,      \* purchase orders
    looking      \* what each screen has read, and then shows

replenishmentVars == <<date, inStock, inTransit, orders, looking>>

Figures == {"stock", "transit", "orders"}
NotLooking == [at |-> "away", day |-> 0, read |-> {}, found |-> 0,
               suggestion |-> 0, upTo |-> 0, overtaken |-> FALSE]

ReplenishmentInit ==
    /\ date = 0 /\ inStock \in 0..MaxStock /\ inTransit = 0 /\ orders = <<>>
    /\ looking = [b \in Screens |-> NotLooking]

-----------------------------------------------------------------------------
(* The calculation. *)

\* As if nobody ever brought more than was ordered.
OutstandingUnfloored(o) == o.ordered - o.received
Outstanding(o) == Max({o.ordered - o.received, 0})
GivenUp(o, day) == day > o.due + Max({Lead, Grace})
\* Counting what has not begun to come.
OnOrderUntouched(o, day) == o.status = "sent" /\ o.received = 0 /\ ~GivenUp(o, day)
\* On its way: sent, in part received or not, and not so late that nobody counts on it.
OnOrder(o, day) == o.status = "sent" /\ ~GivenUp(o, day)
Coming(day) ==
    Sum([i \in DOMAIN orders |-> IF OnOrder(orders[i], day) THEN Outstanding(orders[i]) ELSE 0])

RoundToPacks(quantity) ==
    IF quantity <= 0 THEN 0
    ELSE ((quantity + UnitsPerPack - 1) \div UnitsPerPack) * UnitsPerPack

\* Up to where: what the owner set, else what is sold until the goods are here,
\* else the minimum.
OrderUpTo(policy, cover) ==
    IF policy.target > 0 THEN policy.target ELSE IF cover > 0 THEN cover ELSE policy.min

RecommendOrder(position, policy, cover) ==
    IF (policy.min > 0 /\ position < policy.min) \/ position < cover
    THEN RoundToPacks(OrderUpTo(policy, cover) - position) ELSE 0

\* History, which no action reads.  Units that move from one figure to another, or
\* come from nowhere, are missed by whoever has read the one they move to and not
\* the one they leave; who shows or has ordered a suggestion has read all of them.
Misses(read, from, to) == to \in read /\ from \notin read

ScreensAfter(from, to) ==
    [b \in Screens |->
        [looking[b] EXCEPT !.overtaken = @ \/ Misses(looking[b].read, from, to)]]

DraftsAfter(from, to, book) ==
    [i \in DOMAIN book |-> [book[i] EXCEPT
        !.overtaken = @ \/ (book[i].status = "draft" /\ Misses(Figures, from, to))]]

\* What a draft was meant to fill, and what overtook it, is history with the draft.
Decided(i, status) ==
    [orders EXCEPT ![i].status = status, ![i].upTo = 0, ![i].overtaken = FALSE]

-----------------------------------------------------------------------------
StartsLooking(b) ==
    /\ looking' = [looking EXCEPT ![b] = [NotLooking EXCEPT !.at = "looking", !.day = date]]
    /\ UNCHANGED <<date, inStock, inTransit, orders>>

Reads(b, figure, amount) ==
    /\ looking[b].at = "looking" /\ figure \notin looking[b].read
    /\ looking' = [looking EXCEPT ![b].read = @ \cup {figure}, ![b].found = @ + amount]
    /\ UNCHANGED <<date, inStock, inTransit, orders>>

ReadsStock(b) == Reads(b, "stock", inStock)
ReadsVans(b) == Reads(b, "transit", inTransit)

\* The policy is whatever the owner has set by now, the demand whatever was sold.
ReadsOrders(b) ==
    /\ looking[b].at = "looking" /\ looking[b].read = {"stock", "transit"}
    /\ \E policy \in Policies, cover \in Covers :
          LET found == looking[b].found + Coming(looking[b].day)
              suggestion == RecommendOrder(found, policy, cover)
          IN looking' = [looking EXCEPT ![b] =
                IF suggestion = 0 THEN NotLooking
                ELSE [NotLooking EXCEPT
                        !.at = "ordering", !.read = Figures, !.suggestion = suggestion,
                        !.upTo = OrderUpTo(policy, cover), !.overtaken = looking[b].overtaken]]
    /\ UNCHANGED <<date, inStock, inTransit, orders>>

\* The screen stays as it is, and may be ordered from again.
MakesOrder(b) ==
    /\ looking[b].at = "ordering" /\ Len(orders) < MaxOrders
    /\ \E days \in {Lead} \cup Promised :
          orders' = Append(orders,
             [ordered |-> looking[b].suggestion, received |-> 0, status |-> "draft",
              due |-> date + days,
              upTo |-> looking[b].upTo, overtaken |-> looking[b].overtaken])
    /\ UNCHANGED <<date, inStock, inTransit, looking>>

\* Approved and sent: from now on the others have not counted it.
SendsOrder(i) ==
    /\ orders[i].status = "draft"
    /\ orders' = DraftsAfter("nowhere", "orders", Decided(i, "sent"))
    /\ looking' = ScreensAfter("nowhere", "orders")
    /\ UNCHANGED <<date, inStock, inTransit>>

PutsAside(i) ==
    /\ orders[i].status = "draft"
    /\ orders' = Decided(i, "cancelled")
    /\ UNCHANGED <<date, inStock, inTransit, looking>>

-----------------------------------------------------------------------------
(* Goods. *)

\* What a delivery may have read of an order: what had come until now, or nothing
\* (bound: it read just now, or before anything came).
ReadingsOf(o) == {before \in {0, o.received} : before < o.ordered}

\* A delivery writes the sum it has read plus its own, and the status: what came
\* meanwhile is lost from the sum, and an order called off meanwhile is back.
Receives(i, quantity, before) ==
    LET from == IF OnOrder(orders[i], date) /\ before = orders[i].received
                   /\ quantity <= Outstanding(orders[i])
                THEN "orders" ELSE "nowhere"
    IN
    /\ orders[i].status \in {"sent", "called off"}
    /\ quantity <= orders[i].ordered - before + Extra /\ inStock + quantity <= MaxStock
    /\ orders' = DraftsAfter(from, "stock",
          [orders EXCEPT ![i].received = before + quantity, ![i].status = "sent"])
    /\ inStock' = inStock + quantity
    /\ looking' = ScreensAfter(from, "stock")
    /\ UNCHANGED <<date, inTransit>>

\* What was sent can still be called off, before it has come or in the middle.
CallsOff(i) ==
    /\ orders[i].status = "sent" /\ Outstanding(orders[i]) > 0
    /\ orders' = [orders EXCEPT ![i].status = "called off"]
    /\ UNCHANGED <<date, inStock, inTransit, looking>>

\* Returned, delivered without an order, counted, or promised to somebody no more.
ComesIn(quantity) ==
    /\ inStock + quantity <= MaxStock
    /\ inStock' = inStock + quantity
    /\ orders' = DraftsAfter("nowhere", "stock", orders)
    /\ looking' = ScreensAfter("nowhere", "stock")
    /\ UNCHANGED <<date, inTransit>>

SellsSome ==
    /\ inStock > 0 /\ inStock' = inStock - 1
    /\ UNCHANGED <<date, inTransit, orders, looking>>

VanSetsOut(units) ==
    /\ inTransit + units <= MaxTransit
    /\ inTransit' = inTransit + units
    /\ orders' = DraftsAfter("nowhere", "transit", orders)
    /\ looking' = ScreensAfter("nowhere", "transit")
    /\ UNCHANGED <<date, inStock>>

\* Received in full or short; called back when nothing of it comes.
VanEnds(units, count) ==
    /\ units <= inTransit /\ inStock + count <= MaxStock
    /\ inTransit' = inTransit - units /\ inStock' = inStock + count
    /\ looking' = IF count > 0 THEN ScreensAfter("transit", "stock") ELSE looking
    /\ UNCHANGED <<date, orders>>

PassesDate ==
    /\ date < LastDate /\ date' = date + 1
    /\ UNCHANGED <<inStock, inTransit, orders, looking>>

ReplenishmentNext ==
    \/ SellsSome \/ PassesDate
    \/ \E quantity \in 1..MaxStock : ComesIn(quantity)
    \/ \E units \in 1..MaxTransit :
          VanSetsOut(units) \/ \E count \in 0..units : VanEnds(units, count)
    \/ \E i \in DOMAIN orders :
          \/ SendsOrder(i) \/ PutsAside(i) \/ CallsOff(i)
          \/ \E quantity \in 1..(orders[i].ordered + Extra), before \in ReadingsOf(orders[i]) :
                Receives(i, quantity, before)
    \/ \E b \in Screens :
          StartsLooking(b) \/ ReadsStock(b) \/ ReadsVans(b) \/ ReadsOrders(b) \/ MakesOrder(b)

ReplenishmentSpec == ReplenishmentInit /\ [][ReplenishmentNext]_replenishmentVars

-----------------------------------------------------------------------------
\* What suppliers owe and may still be expected to bring.
Owed ==
    Sum([i \in DOMAIN orders |->
            IF orders[i].status = "sent" /\ ~GivenUp(orders[i], date)
            THEN Outstanding(orders[i]) ELSE 0])

ReplenishmentTypeOK ==
    /\ inStock \in Nat /\ inTransit \in Nat /\ Owed \in Nat
    /\ \A i \in DOMAIN orders : orders[i].ordered > 0 /\ orders[i].received >= 0

AtHandAndComing == inStock + inTransit + Owed

(***************************************************************************)
(* What is ordered once is not ordered again: whoever sends a draft has no *)
(* more in the shop, on vans and owed than up to where the order was       *)
(* meant to fill the shelf, and less than a pack over, however the orders  *)
(* before it are received in parts, called off or given up, and whatever   *)
(* was sold or arrived while the suggestion was worked out and waited.     *)
(* Except for what the draft could not know of: another order sent, a van  *)
(* that set out or goods nobody announced that came after they were read   *)
(* (those of an order given up or called off and of one that brings more   *)
(* than it owes among them), and goods that came in between the readings.  *)
(***************************************************************************)
NeverOrderedTwice ==
    \A i \in DOMAIN orders :
        orders[i].status = "draft" /\ ~orders[i].overtaken
           => AtHandAndComing + orders[i].ordered < orders[i].upTo + UnitsPerPack

\* The same of every draft.
\* (The code does not keep this: README.)
OrderedOnceByAnybody ==
    \A i \in DOMAIN orders :
        orders[i].status = "draft"
           => AtHandAndComing + orders[i].ordered < orders[i].upTo + UnitsPerPack
=============================================================================
