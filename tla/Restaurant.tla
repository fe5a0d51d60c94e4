------------------------------ MODULE Restaurant ------------------------------
(***************************************************************************)
(* Tables, the kitchen and production: a waiter adds lines to the open     *)
(* bill of a table, somebody takes the money, the kitchen marks what is    *)
(* ready, and goods are made from other goods.                             *)
(*                                                                         *)
(* Goods leave the pantry when they are ordered: a dish as the ingredients *)
(* of its recipe, anything else as itself.                                 *)
(***************************************************************************)
EXTENDS Collections, Sequences

CONSTANTS
    Tables,
    Bills,          \* bills that may be written
    Pantry,         \* [product -> units] at the start
    Menu,           \* what may be ordered: [product -> price]
    Recipes,        \* [dish or made product -> [makes, takes : [product -> units]]]
    Waiters,        \* requests being served at a time
    MaxLines        \* bound: lines on one bill

Stocked == DOMAIN Pantry
Dishes == DOMAIN Recipes \ Stocked

ASSUME RestaurantAssumption ==
    /\ IsFiniteSet(Bills) /\ IsFiniteSet(DOMAIN Recipes)
    /\ Pantry \in [Stocked -> Nat]
    /\ Menu \in [DOMAIN Menu -> Nat] /\ DOMAIN Menu \subseteq Stocked \cup Dishes
    /\ \A r \in DOMAIN Recipes : Recipes[r].makes \in Nat \ {0} /\ Recipes[r].takes \in [Stocked -> Nat]
    /\ MaxLines \in Nat

VARIABLES
    pantry,     \* the goods
    bills,      \* the sale documents of tables
    occupied,   \* the tables marked so
    made,       \* how often each recipe was produced
    serving     \* requests between what they read and what they write

restaurantVars == <<pantry, bills, occupied, made, serving>>

NoBill == "none"
NotServing == [at |-> "idle"]
BillLine == [product : DOMAIN Menu, kitchen : {"pending", "ready"}]
ServingRequests ==
    [at : {"order"}, table : Tables, bill : Bills \cup {NoBill}, product : DOMAIN Menu]
    \cup [at : {"pay"}, bill : Bills, total : Nat]

RestaurantInit ==
    /\ pantry = Pantry
    /\ bills = [b \in Bills |-> [table |-> NoBill, status |-> "none", lines |-> <<>>, billed |-> 0]]
    /\ occupied = {}
    /\ made = [r \in DOMAIN Recipes |-> 0]
    /\ serving = [c \in Waiters |-> NotServing]

OpenBills(t) == {b \in Bills : bills[b].table = t /\ bills[b].status = "open"}
TotalOf(lines) == Sum([i \in DOMAIN lines |-> Menu[lines[i].product]])

\* What one of the product takes out of the pantry.
Uses(product) ==
    IF product \in Dishes THEN Recipes[product].takes
    ELSE [g \in Stocked |-> IF g = product THEN 1 ELSE 0]

Suffices(uses) == \A g \in Stocked : pantry[g] >= uses[g]

-----------------------------------------------------------------------------
\* The bill to add to is looked up, and the stock checked, before either is
\* written.
TableOrderReads(c, t, product) ==
    /\ serving[c] = NotServing
    /\ Suffices(Uses(product))
    /\ \E bill \in IF OpenBills(t) = {} THEN {NoBill} ELSE OpenBills(t) :
          serving' = [serving EXCEPT
                         ![c] = [at |-> "order", table |-> t, bill |-> bill, product |-> product]]
    /\ UNCHANGED <<pantry, bills, occupied, made>>

LeftAfter(product) == [g \in Stocked |-> pantry[g] - Uses(product)[g]]

Added(bill, d) ==
    [bill EXCEPT !.lines = Append(@, [product |-> d.product, kitchen |-> "pending"])]

\* Onto the bill that was found, whatever became of it, or onto a new one.
TableOrderCommits(c) ==
    LET d == serving[c] IN
    /\ d.at = "order"
    /\ serving' = [serving EXCEPT ![c] = NotServing]
    /\ UNCHANGED made
    /\ IF Suffices(Uses(d.product))
       THEN /\ pantry' = LeftAfter(d.product)
            /\ \/ /\ d.bill # NoBill
                  /\ Len(bills[d.bill].lines) < MaxLines
                  /\ bills' = [bills EXCEPT ![d.bill] = Added(@, d)]
                  /\ UNCHANGED occupied
               \/ /\ d.bill = NoBill
                  /\ \E b \in Bills :
                        /\ bills[b].status = "none"
                        /\ bills' = [bills EXCEPT
                              ![b] = Added([@ EXCEPT !.table = d.table, !.status = "open"], d)]
                  /\ occupied' = occupied \cup {d.table}
       ELSE UNCHANGED <<pantry, bills, occupied>>

\* The sum is worked out from the bill as it was read.
PayReads(c, t) ==
    /\ serving[c] = NotServing
    /\ \E b \in OpenBills(t) :
          serving' = [serving EXCEPT
                         ![c] = [at |-> "pay", bill |-> b, total |-> TotalOf(bills[b].lines)]]
    /\ UNCHANGED <<pantry, bills, occupied, made>>

\* Without a condition on the bill.
PayCommits(c) ==
    LET d == serving[c] IN
    /\ d.at = "pay"
    /\ serving' = [serving EXCEPT ![c] = NotServing]
    /\ bills' = [bills EXCEPT ![d.bill].status = "confirmed", ![d.bill].billed = d.total]
    /\ occupied' = occupied \ {bills[d.bill].table}
    /\ UNCHANGED <<pantry, made>>

KitchenMarks(b, i, kitchen) ==
    /\ bills[b].status = "open"
    /\ bills' = [bills EXCEPT ![b].lines[i].kitchen = kitchen]
    /\ UNCHANGED <<pantry, occupied, made, serving>>

\* Whole batches, as many as the wish needs.
Batches(wish, makes) == (wish + makes - 1) \div makes

Produces(product, wish) ==
    LET r == Recipes[product]
        batches == Batches(wish, r.makes)
        takes == [g \in Stocked |-> batches * r.takes[g]]
    IN
    /\ product \in Stocked
    /\ wish > 0
    /\ Suffices(takes)
    /\ pantry' = [g \in Stocked |->
          pantry[g] - takes[g] + IF g = product THEN batches * r.makes ELSE 0]
    /\ made' = [made EXCEPT ![product] = @ + batches]
    /\ UNCHANGED <<bills, occupied, serving>>

RestaurantNext ==
    \/ \E c \in Waiters, t \in Tables :
          PayReads(c, t) \/ \E product \in DOMAIN Menu : TableOrderReads(c, t, product)
    \/ \E c \in Waiters : TableOrderCommits(c) \/ PayCommits(c)
    \/ \E b \in Bills, kitchen \in {"pending", "ready"} :
          \E i \in DOMAIN bills[b].lines : KitchenMarks(b, i, kitchen)
    \/ \E product \in DOMAIN Recipes :
           \E wish \in 1..(Recipes[product].makes + 1) : Produces(product, wish)

RestaurantSpec == RestaurantInit /\ [][RestaurantNext]_restaurantVars

-----------------------------------------------------------------------------
\* The shape of the state; the pantry never goes below nothing.
RestaurantTypeOK ==
    /\ pantry \in [Stocked -> Nat]
    /\ bills \in [Bills -> [table : Tables \cup {NoBill}, status : {"none", "open", "confirmed"},
                            lines : Seq(BillLine), billed : Nat]]
    /\ occupied \subseteq Tables
    /\ made \in [DOMAIN Recipes -> Nat]
    /\ \A c \in Waiters : serving[c] \in ServingRequests \cup {NotServing}

\* Whatever was ordered and made at the same time, the goods that are missing
\* from the pantry are on somebody's bill - a dish as its ingredients - or went
\* into what was made (pos.ts:10398).
PantryAccountedFor ==
    \A g \in Stocked :
        pantry[g]
          + Sum([b \in Bills |->
                     Sum([i \in DOMAIN bills[b].lines |-> Uses(bills[b].lines[i].product)[g]])])
          + Sum([r \in DOMAIN Recipes |-> made[r] * Recipes[r].takes[g]])
          = Pantry[g] + IF g \in DOMAIN Recipes THEN made[g] * Recipes[g].makes ELSE 0

\* Nobody is asked for more than is on the bill: lines are added to it, never
\* taken off.
NeverOvercharged ==
    \A b \in Bills : bills[b].billed <= TotalOf(bills[b].lines)

\* Who pays for a table pays for what is on its bill (pos.ts:10510).
\* (The code does not keep this: README.)
BillPaidInFull ==
    \A b \in Bills : bills[b].status = "confirmed" => bills[b].billed = TotalOf(bills[b].lines)

\* A table has one open bill (pos.ts:10380).
\* (The code does not keep this: README.)
OneBillPerTable == \A t \in Tables : Cardinality(OpenBills(t)) <= 1
=============================================================================
