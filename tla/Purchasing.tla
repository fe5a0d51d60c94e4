------------------------------ MODULE Purchasing ------------------------------
(***************************************************************************)
(* Orders to suppliers, the deliveries against them, and what is sent back *)
(* of a delivery.  One line per order, counted in units.                   *)
(*                                                                         *)
(* Every request looks at the order or the delivery before its transaction *)
(* and writes what it computed from that.                                  *)
(***************************************************************************)
EXTENDS Collections

CONSTANTS
    Wanted,         \* what each order is for: [order -> units]
    Deliveries,     \* receipts that may be written
    Buyers,         \* requests being served at a time
    Heads,          \* the people who may approve and send
    OtherStaff      \* the people who may not

PurchaseOrders == DOMAIN Wanted
People == Heads \cup OtherStaff

ASSUME PurchasingAssumption == Wanted \in [PurchaseOrders -> Nat] /\ Heads \cap OtherStaff = {}

VARIABLES
    purchases,      \* the orders
    deliveries,     \* the receipts with what was sent back of them
    stockroom,      \* the goods
    buying          \* requests between what they read and what they write

buyVars == <<purchases, deliveries, stockroom, buying>>

NoOrder == "none"
NotBuying == [at |-> "idle"]
Statuses == {"draft", "approved", "sent", "partially_received", "received", "cancelled"}
BuyRequests ==
    [at : {"decide"}, order : PurchaseOrders, by : People, from : Statuses, to : Statuses]
    \cup [at : {"receive"}, order : PurchaseOrders, units : Nat, before : Nat]
    \cup [at : {"sendBack"}, delivery : Deliveries, units : Nat]

BuyInit ==
    /\ purchases = [o \in PurchaseOrders |-> [status |-> "draft", received |-> 0, approvedBy |-> NoOrder]]
    /\ deliveries = [d \in Deliveries |-> [order |-> NoOrder, units |-> 0, sentBack |-> 0]]
    /\ stockroom = 0
    /\ buying = [c \in Buyers |-> NotBuying]

\* Which action leads where; anything not listed is refused.
Allowed ==
    {<<"draft", "approve", "approved">>, <<"draft", "cancel", "cancelled">>,
     <<"approved", "send", "sent">>, <<"approved", "cancel", "cancelled">>,
     <<"sent", "receive", "partially_received">>, <<"sent", "cancel", "cancelled">>,
     <<"partially_received", "receive", "partially_received">>,
     <<"partially_received", "cancel", "cancelled">>}

BuyStarts(c, request) ==
    /\ buying[c] = NotBuying
    /\ buying' = [buying EXCEPT ![c] = request]
    /\ UNCHANGED <<purchases, deliveries, stockroom>>

-----------------------------------------------------------------------------
(* Approving, sending, cancelling. *)

DecideReads(c, o, who, action) ==
    /\ action \in {"approve", "send"} => who \in Heads
    /\ \E to \in Statuses :
          /\ <<purchases[o].status, action, to>> \in Allowed
          /\ BuyStarts(c, [at |-> "decide", order |-> o, by |-> who,
                           from |-> purchases[o].status, to |-> to])

\* Writing the decision over whatever became of the order.
StillDecidable(d) == TRUE

StillAsRead(d) == purchases[d.order].status = d.from

DecideCommits(c) ==
    LET d == buying[c] IN
    /\ d.at = "decide"
    /\ buying' = [buying EXCEPT ![c] = NotBuying]
    /\ purchases' =
          IF StillAsRead(d)
          THEN [purchases EXCEPT ![d.order].status = d.to,
                                 ![d.order].approvedBy = IF d.to = "approved" THEN d.by ELSE @]
          ELSE purchases
    /\ UNCHANGED <<deliveries, stockroom>>

-----------------------------------------------------------------------------
(* A delivery against an order. *)

ReceiveOrderReads(c, o, units) ==
    /\ \E to \in Statuses : <<purchases[o].status, "receive", to>> \in Allowed
    /\ BuyStarts(c, [at |-> "receive", order |-> o, units |-> units, before |-> purchases[o].received])

Progress(o, received) == IF received >= Wanted[o] THEN "received" ELSE "partially_received"

\* The sum over what was read, and the status that follows from it, whatever
\* became of the order meanwhile.
ReceiveOrderCommits(c, delivery) ==
    LET d == buying[c]
        received == d.before + d.units
    IN
    /\ d.at = "receive"
    /\ deliveries[delivery].order = NoOrder
    /\ buying' = [buying EXCEPT ![c] = NotBuying]
    /\ deliveries' = [deliveries EXCEPT
                          ![delivery] = [order |-> d.order, units |-> d.units, sentBack |-> 0]]
    /\ stockroom' = stockroom + d.units
    /\ purchases' = [purchases EXCEPT ![d.order].received = received,
                                      ![d.order].status = Progress(d.order, received)]

-----------------------------------------------------------------------------
(* Sending goods back.  What went back before is read outside the            *)
(* transaction; the stock rows are asked again inside.                       *)

Returnable(delivery) == 0..(deliveries[delivery].units - deliveries[delivery].sentBack)

SendBackReads(c, delivery, units) ==
    /\ units > 0 /\ units \in Returnable(delivery)
    /\ units <= stockroom
    /\ BuyStarts(c, [at |-> "sendBack", delivery |-> delivery, units |-> units])

TakenIfThere(units) == stockroom >= units

SendBackCommits(c) ==
    LET d == buying[c] IN
    /\ d.at = "sendBack"
    /\ buying' = [buying EXCEPT ![c] = NotBuying]
    /\ UNCHANGED purchases
    /\ IF TakenIfThere(d.units)
       THEN /\ stockroom' = stockroom - d.units
            /\ deliveries' = [deliveries EXCEPT ![d.delivery].sentBack = @ + d.units]
       ELSE UNCHANGED <<stockroom, deliveries>>

BuyNext ==
    \/ \E c \in Buyers, o \in PurchaseOrders, who \in People, action \in {"approve", "send", "cancel"} :
          DecideReads(c, o, who, action)
    \/ \E c \in Buyers, o \in PurchaseOrders : \E units \in 1..Wanted[o] : ReceiveOrderReads(c, o, units)
    \/ \E c \in Buyers, delivery \in Deliveries :
          \/ ReceiveOrderCommits(c, delivery)
          \/ \E units \in Returnable(delivery) : SendBackReads(c, delivery, units)
    \/ \E c \in Buyers : DecideCommits(c) \/ SendBackCommits(c)

BuySpec == BuyInit /\ [][BuyNext]_buyVars

-----------------------------------------------------------------------------
\* The shape of the state; the stock never goes below nothing.
BuyTypeOK ==
    /\ purchases \in [PurchaseOrders ->
           [status : Statuses, received : Nat, approvedBy : People \cup {NoOrder}]]
    /\ deliveries \in [Deliveries ->
           [order : PurchaseOrders \cup {NoOrder}, units : Nat, sentBack : Nat]]
    /\ stockroom \in Nat
    /\ \A c \in Buyers : buying[c] \in BuyRequests \cup {NotBuying}

\* No goods come in on an order that nobody with the right to spend agreed to,
\* whatever was pressed at the same time ("Approving is the moment somebody
\* takes responsibility for the money", pos.ts:5382).
OnlyApprovedArrives ==
    \A d \in Deliveries :
        deliveries[d].order # NoOrder => purchases[deliveries[d].order].approvedBy \in Heads

\* A decision is taken about the order as it is: it is approved as a draft and
\* once only, sent when approved, cancelled before it is complete, however many
\* people act on it at once (pos.ts:5424).
DecisionsInOrder ==
    [][\A o \in PurchaseOrders :
          LET was == purchases[o]
              is == purchases'[o]
          IN /\ is.approvedBy # was.approvedBy => was.status = "draft"
             /\ was.status # is.status /\ is.status \in {"approved", "sent", "cancelled"} =>
                   \E action \in {"approve", "send", "cancel"} :
                       <<was.status, action, is.status>> \in Allowed]_buyVars

\* What the order says came is what came on its deliveries.
\* (The code does not keep this: README.)
ReceivedAddsUp ==
    \A o \in PurchaseOrders :
        purchases[o].received
           = Sum([d \in Deliveries |-> IF deliveries[d].order = o THEN deliveries[d].units ELSE 0])

\* A cancelled order leads nowhere ("cancelled: {}", purchasing.ts:26).
\* (The code does not keep this: README.)
CancelledStaysCancelled ==
    [][\A o \in PurchaseOrders :
         purchases[o].status = "cancelled" => purchases'[o].status = "cancelled"]_buyVars

\* No more goes back of a delivery than came with it ("what stops the same
\* delivery being returned twice", supplier-returns.ts:106).
\* (The code does not keep this: README.)
SentBackOnce == \A d \in Deliveries : deliveries[d].sentBack <= deliveries[d].units
=============================================================================
