-------------------------- MODULE DocumentsProofs ---------------------------
(***************************************************************************)
(* The papers goods move by, for any number of places, orders, sales,      *)
(* tables and people who press at once.  Each component is proved of its   *)
(* own specification; the last section puts them together.                 *)
(***************************************************************************)
EXTENDS Documents, CollectionsProofs

-----------------------------------------------------------------------------
(***************************************************************************)
(* For any number of orders, deliveries and people who press at once:      *)
(* goods come in only on orders that somebody with the right to spend has  *)
(* approved, and every decision is one the table of decisions allows from  *)
(* the order as it stands.                                                 *)
(*                                                                         *)
(* OnlyApprovedArrives is not inductive: a delivery is written for an      *)
(* order that was looked at before, and that may have been cancelled and   *)
(* what not since.  What survives is the name of whoever approved it,      *)
(* because nobody but a head is ever written there.                        *)
(***************************************************************************)

\* Whoever approved it stands on every order that goods may come for.
ApprovedOrders ==
    \A o \in PurchaseOrders :
        purchases[o].status \notin {"draft", "cancelled"} => purchases[o].approvedBy \in Heads

\* What waits to be written was allowed when it was read: a decision from the
\* status that was read, a delivery on an approved order.
RequestsAreAllowed ==
    \A c \in Buyers :
        /\ buying[c].at = "decide" =>
              \E action \in {"approve", "send", "cancel"} :
                  /\ <<buying[c].from, action, buying[c].to>> \in Allowed
                  /\ action = "approve" => buying[c].by \in Heads
        /\ buying[c].at = "receive" => purchases[buying[c].order].approvedBy \in Heads

BuyingInv ==
    /\ BuyTypeOK /\ buying = [c \in Buyers |-> buying[c]]
    /\ ApprovedOrders /\ RequestsAreAllowed /\ OnlyApprovedArrives

LEMMA BuyInitHolds == BuyInit => BuyingInv
BY PurchasingAssumption
   DEF BuyInit, BuyingInv, BuyTypeOK, ApprovedOrders, RequestsAreAllowed, OnlyApprovedArrives,
       NotBuying, Statuses, NoOrder, People

-----------------------------------------------------------------------------
\* An order of which a decision or a delivery has written two fields.
Rewritten(new, s, r, a) == new \in [status : {s}, received : {r}, approvedBy : {a}]

\* What a decision and what a delivery make of the orders.
Decided(o, s, a) == [purchases EXCEPT ![o].status = s, ![o].approvedBy = a]
Delivered(o, r, s) == [purchases EXCEPT ![o].received = r, ![o].status = s]

LEMMA OrderDecided ==
    ASSUME BuyTypeOK, NEW o \in PurchaseOrders, NEW s, NEW a
    PROVE  \E new : /\ Rewritten(new, s, purchases[o].received, a)
                    /\ Decided(o, s, a) = [p \in PurchaseOrders |-> IF p = o THEN new ELSE purchases[p]]
<1> DEFINE old == purchases[o]
           written == [old EXCEPT !.status = s, !.approvedBy = a]
<1>1. /\ old \in [status : {old.status}, received : {old.received}, approvedBy : {old.approvedBy}]
      /\ purchases = [p \in PurchaseOrders |-> purchases[p]]
    BY DEF BuyTypeOK
<1>2. Rewritten(written, s, old.received, a)
    BY <1>1 DEF Rewritten
<1>3. Decided(o, s, a) = [p \in PurchaseOrders |-> IF p = o THEN written ELSE purchases[p]]
    BY <1>1 DEF Decided
<1> HIDE DEF written
<1> QED
    BY <1>2, <1>3

LEMMA OrderDelivered ==
    ASSUME BuyTypeOK, NEW o \in PurchaseOrders, NEW r, NEW s
    PROVE  \E new : /\ Rewritten(new, s, r, purchases[o].approvedBy)
                    /\ Delivered(o, r, s) = [p \in PurchaseOrders |-> IF p = o THEN new ELSE purchases[p]]
<1> DEFINE old == purchases[o]
           written == [old EXCEPT !.received = r, !.status = s]
<1>1. /\ old \in [status : {old.status}, received : {old.received}, approvedBy : {old.approvedBy}]
      /\ purchases = [p \in PurchaseOrders |-> purchases[p]]
    BY DEF BuyTypeOK
<1>2. Rewritten(written, s, r, old.approvedBy)
    BY <1>1 DEF Rewritten
<1>3. Delivered(o, r, s) = [p \in PurchaseOrders |-> IF p = o THEN written ELSE purchases[p]]
    BY <1>1 DEF Delivered
<1> HIDE DEF written
<1> QED
    BY <1>2, <1>3

-----------------------------------------------------------------------------
(* One step. *)

\* Whoever starts a request changes nothing else.
LEMMA StartKeeps ==
    ASSUME BuyingInv, NEW c \in Buyers, NEW request \in BuyRequests, BuyStarts(c, request),
           request.at = "decide" =>
              \E action \in {"approve", "send", "cancel"} :
                  /\ <<request.from, action, request.to>> \in Allowed
                  /\ action = "approve" => request.by \in Heads,
           request.at = "receive" => purchases[request.order].approvedBy \in Heads
    PROVE  BuyingInv'
<1>1. /\ buying' = [buying EXCEPT ![c] = request]
      /\ UNCHANGED <<purchases, deliveries, stockroom>>
    BY DEF BuyStarts
<1>2. buying' = [b \in Buyers |-> IF b = c THEN request ELSE buying[b]]
    BY <1>1 DEF BuyingInv
<1>3. BuyTypeOK' /\ buying' = [b \in Buyers |-> buying'[b]]
    BY <1>1, <1>2 DEF BuyingInv, BuyTypeOK
<1>4. RequestsAreAllowed'
    BY <1>1, <1>2 DEF BuyingInv, RequestsAreAllowed
<1> QED
    BY <1>1, <1>3, <1>4 DEF BuyingInv, ApprovedOrders, OnlyApprovedArrives

LEMMA DecideReadsKeeps ==
    ASSUME BuyingInv, NEW c \in Buyers, NEW o \in PurchaseOrders, NEW who \in People,
           NEW action \in {"approve", "send", "cancel"}, DecideReads(c, o, who, action)
    PROVE  BuyingInv'
<1>1. PICK to \in Statuses :
          /\ <<purchases[o].status, action, to>> \in Allowed
          /\ BuyStarts(c, [at |-> "decide", order |-> o, by |-> who,
                           from |-> purchases[o].status, to |-> to])
    BY DEF DecideReads
<1> DEFINE request == [at |-> "decide", order |-> o, by |-> who,
                       from |-> purchases[o].status, to |-> to]
<1>2. request \in BuyRequests
    BY DEF BuyRequests, BuyingInv, BuyTypeOK
<1>3. action = "approve" => who \in Heads
    BY DEF DecideReads
<1> QED
    BY <1>1, <1>2, <1>3, StartKeeps

\* An order that may be received on is neither a draft nor cancelled.
LEMMA ReceiveReadsKeeps ==
    ASSUME BuyingInv, NEW c \in Buyers, NEW o \in PurchaseOrders, NEW units \in 1..Wanted[o],
           ReceiveOrderReads(c, o, units)
    PROVE  BuyingInv'
<1> DEFINE request == [at |-> "receive", order |-> o, units |-> units,
                       before |-> purchases[o].received]
<1>1. purchases[o].status \in {"sent", "partially_received"} /\ BuyStarts(c, request)
    BY DEF ReceiveOrderReads, Allowed
<1>2. request \in BuyRequests
    BY PurchasingAssumption DEF BuyRequests, BuyingInv, BuyTypeOK
<1>3. purchases[o].approvedBy \in Heads
    BY <1>1 DEF BuyingInv, ApprovedOrders
<1> QED
    BY <1>1, <1>2, <1>3, StartKeeps

LEMMA SendBackReadsKeeps ==
    ASSUME BuyingInv, NEW c \in Buyers, NEW delivery \in Deliveries,
           NEW units \in Returnable(delivery), SendBackReads(c, delivery, units)
    PROVE  BuyingInv'
<1> DEFINE request == [at |-> "sendBack", delivery |-> delivery, units |-> units]
<1>1. request \in BuyRequests
    BY DEF BuyRequests, SendBackReads, Returnable, BuyingInv, BuyTypeOK
<1> QED
    BY <1>1, StartKeeps DEF SendBackReads

\* A decision names a head or leaves the name as it was.
LEMMA DecideCommitsKeeps ==
    ASSUME BuyingInv, NEW c \in Buyers, DecideCommits(c)
    PROVE  /\ BuyingInv'
           /\ \A o \in PurchaseOrders : purchases[o].approvedBy \in Heads => purchases'[o].approvedBy \in Heads
<1> DEFINE d == buying[c]
<1>1. d \in [at : {"decide"}, order : PurchaseOrders, by : People, from : Statuses, to : Statuses]
    BY DEF BuyingInv, BuyTypeOK, BuyRequests, DecideCommits, NotBuying
<1>2. PICK action \in {"approve", "send", "cancel"} :
          <<d.from, action, d.to>> \in Allowed /\ (action = "approve" => d.by \in Heads)
    BY DEF BuyingInv, RequestsAreAllowed, DecideCommits
<1>3. d.to = "approved" => action = "approve" /\ d.by \in Heads
    BY <1>2 DEF Allowed
<1>4. buying' = [b \in Buyers |-> IF b = c THEN NotBuying ELSE buying[b]]
    BY DEF DecideCommits, BuyingInv
<1>5. UNCHANGED <<deliveries, stockroom>>
    BY DEF DecideCommits
<1>6. CASE StillAsRead(d)
  <2> DEFINE o == d.order
             name == IF d.to = "approved" THEN d.by ELSE purchases[o].approvedBy
  <2>1. PICK new : /\ Rewritten(new, d.to, purchases[o].received, name)
                   /\ purchases' = [p \in PurchaseOrders |-> IF p = o THEN new ELSE purchases[p]]
    <3>1. BuyTypeOK /\ o \in PurchaseOrders
        BY <1>1 DEF BuyingInv
    <3>2. purchases' = Decided(o, d.to, name)
        BY <1>6 DEF DecideCommits, Decided
    <3> HIDE DEF d, o, name
    <3> QED
        BY <3>1, <3>2, OrderDecided
  <2>2. \A p \in PurchaseOrders : purchases[p].approvedBy \in Heads => purchases'[p].approvedBy \in Heads
      BY <2>1, <1>3 DEF Rewritten
  <2>3. BuyTypeOK' /\ buying' = [b \in Buyers |-> buying'[b]]
      BY <1>1, <1>4, <1>5, <2>1 DEF BuyingInv, BuyTypeOK, Rewritten
  <2>4. d.to \notin {"draft", "cancelled"} => name \in Heads
      BY <1>1, <1>2, <1>3, <1>6 DEF Allowed, StillAsRead, BuyingInv, ApprovedOrders
  <2>5. ApprovedOrders'
      BY <2>1, <2>4 DEF BuyingInv, ApprovedOrders, Rewritten
  <2>6. RequestsAreAllowed'
    <3>1. \A b \in Buyers : buying[b].at = "receive" => buying[b].order \in PurchaseOrders
        BY DEF BuyingInv, BuyTypeOK, BuyRequests, NotBuying
    <3> QED
        BY <1>4, <2>2, <3>1 DEF BuyingInv, RequestsAreAllowed, NotBuying
  <2>7. OnlyApprovedArrives'
      BY <1>5, <2>2 DEF BuyingInv, BuyTypeOK, OnlyApprovedArrives
  <2> QED
      BY <2>2, <2>3, <2>5, <2>6, <2>7 DEF BuyingInv
<1>7. CASE ~StillAsRead(d)
  <2>1. UNCHANGED purchases
      BY <1>7 DEF DecideCommits
  <2> QED
      BY <1>4, <1>5, <2>1 DEF BuyingInv, BuyTypeOK, ApprovedOrders, RequestsAreAllowed,
                              OnlyApprovedArrives, NotBuying
<1> QED
    BY <1>6, <1>7

LEMMA ReceiveCommitsKeeps ==
    ASSUME BuyingInv, NEW c \in Buyers, NEW delivery \in Deliveries, ReceiveOrderCommits(c, delivery)
    PROVE  BuyingInv'
<1> DEFINE d == buying[c]
           received == d.before + d.units
           new == [order |-> d.order, units |-> d.units, sentBack |-> 0]
<1>1. d \in [at : {"receive"}, order : PurchaseOrders, units : Nat, before : Nat]
    BY DEF BuyingInv, BuyTypeOK, BuyRequests, ReceiveOrderCommits, NotBuying
<1>2. purchases[d.order].approvedBy \in Heads
    BY DEF BuyingInv, RequestsAreAllowed, ReceiveOrderCommits
<1>3. buying' = [b \in Buyers |-> IF b = c THEN NotBuying ELSE buying[b]]
    BY DEF ReceiveOrderCommits, BuyingInv
<1>4. deliveries' = [e \in Deliveries |-> IF e = delivery THEN new ELSE deliveries[e]]
    BY DEF ReceiveOrderCommits, BuyingInv, BuyTypeOK
<1>5. PICK paper : /\ Rewritten(paper, Progress(d.order, received), received,
                                purchases[d.order].approvedBy)
                   /\ purchases' = [p \in PurchaseOrders |->
                                      IF p = d.order THEN paper ELSE purchases[p]]
  <2>1. BuyTypeOK /\ d.order \in PurchaseOrders
      BY <1>1 DEF BuyingInv
  <2>2. purchases' = Delivered(d.order, received, Progress(d.order, received))
      BY DEF ReceiveOrderCommits, Delivered
  <2> HIDE DEF d, received
  <2> QED
      BY <2>1, <2>2, OrderDelivered
<1>6. Progress(d.order, received) \in {"received", "partially_received"}
    BY DEF Progress
<1>7. BuyTypeOK' /\ buying' = [b \in Buyers |-> buying'[b]]
  <2>1. purchases' \in [PurchaseOrders ->
            [status : Statuses, received : Nat, approvedBy : People \cup {NoOrder}]]
      BY <1>1, <1>5, <1>6 DEF BuyingInv, BuyTypeOK, Statuses, Rewritten
  <2>2. deliveries' \in [Deliveries ->
            [order : PurchaseOrders \cup {NoOrder}, units : Nat, sentBack : Nat]]
      BY <1>1, <1>4 DEF BuyingInv, BuyTypeOK
  <2>3. stockroom' \in Nat
      BY <1>1 DEF ReceiveOrderCommits, BuyingInv, BuyTypeOK
  <2> QED
      BY <1>3, <2>1, <2>2, <2>3 DEF BuyingInv, BuyTypeOK
<1>8. ApprovedOrders'
    BY <1>2, <1>5 DEF BuyingInv, ApprovedOrders, Rewritten
<1>9. RequestsAreAllowed'
  <2>1. \A b \in Buyers : buying[b].at = "receive" => buying[b].order \in PurchaseOrders
      BY DEF BuyingInv, BuyTypeOK, BuyRequests, NotBuying
  <2> QED
      BY <1>3, <1>5, <2>1 DEF BuyingInv, RequestsAreAllowed, NotBuying, Rewritten
<1>10. OnlyApprovedArrives'
    BY <1>1, <1>2, <1>4, <1>5 DEF BuyingInv, BuyTypeOK, OnlyApprovedArrives, Rewritten
<1> QED
    BY <1>7, <1>8, <1>9, <1>10 DEF BuyingInv

LEMMA SendBackCommitsKeeps ==
    ASSUME BuyingInv, NEW c \in Buyers, SendBackCommits(c)
    PROVE  BuyingInv'
<1> DEFINE d == buying[c]
<1>1. d \in [at : {"sendBack"}, delivery : Deliveries, units : Nat]
    BY DEF BuyingInv, BuyTypeOK, BuyRequests, SendBackCommits, NotBuying
<1>2. buying' = [b \in Buyers |-> IF b = c THEN NotBuying ELSE buying[b]] /\ UNCHANGED purchases
    BY DEF SendBackCommits, BuyingInv
<1>3. /\ stockroom' \in Nat
      /\ deliveries' \in [Deliveries -> [order : PurchaseOrders \cup {NoOrder}, units : Nat, sentBack : Nat]]
      /\ \A e \in Deliveries : deliveries'[e].order = deliveries[e].order
  <2>1. CASE TakenIfThere(d.units)
    <3>1. deliveries' = [e \in Deliveries |->
              IF e = d.delivery
              THEN [order |-> deliveries[e].order, units |-> deliveries[e].units,
                    sentBack |-> deliveries[e].sentBack + d.units]
              ELSE deliveries[e]]
        BY <1>1, <2>1 DEF SendBackCommits, BuyingInv, BuyTypeOK
    <3>2. stockroom' = stockroom - d.units /\ stockroom >= d.units
        BY <2>1 DEF SendBackCommits, TakenIfThere
    <3> QED
        BY <1>1, <3>1, <3>2 DEF BuyingInv, BuyTypeOK
  <2>2. CASE ~TakenIfThere(d.units)
      BY <2>2 DEF SendBackCommits, BuyingInv, BuyTypeOK
  <2> QED
      BY <2>1, <2>2
<1> QED
    BY <1>2, <1>3 DEF BuyingInv, BuyTypeOK, ApprovedOrders, RequestsAreAllowed,
                      OnlyApprovedArrives, NotBuying

LEMMA BuyStepHolds == BuyingInv /\ [BuyNext]_buyVars => BuyingInv'
<1> SUFFICES ASSUME BuyingInv, [BuyNext]_buyVars PROVE BuyingInv'
    OBVIOUS
<1>1. CASE BuyNext
    BY <1>1, DecideReadsKeeps, ReceiveReadsKeeps, SendBackReadsKeeps, DecideCommitsKeeps,
       ReceiveCommitsKeeps, SendBackCommitsKeeps DEF BuyNext
<1>2. CASE UNCHANGED buyVars
    BY <1>2 DEF buyVars, BuyingInv, BuyTypeOK, ApprovedOrders, RequestsAreAllowed, OnlyApprovedArrives
<1> QED
    BY <1>1, <1>2

LEMMA BuyAlwaysHolds == BuySpec => []BuyingInv
    BY BuyInitHolds, BuyStepHolds, PTL DEF BuySpec

-----------------------------------------------------------------------------
\* No goods come in on an order that nobody with the right to spend agreed to
\* (pos.ts:5382).
THEOREM OnlyApprovedEverArrives == BuySpec => []OnlyApprovedArrives
<1>1. BuyingInv => OnlyApprovedArrives
    BY DEF BuyingInv
<1> QED
    BY <1>1, BuyAlwaysHolds, PTL

\* A step that decides about an order decides about it as it stands.
LEMMA StepDecidesInOrder ==
    ASSUME BuyingInv, [BuyNext]_buyVars, NEW o \in PurchaseOrders
    PROVE  /\ purchases'[o].approvedBy # purchases[o].approvedBy => purchases[o].status = "draft"
           /\ purchases[o].status # purchases'[o].status
                 /\ purchases'[o].status \in {"approved", "sent", "cancelled"} =>
              \E action \in {"approve", "send", "cancel"} :
                  <<purchases[o].status, action, purchases'[o].status>> \in Allowed
<1>1. CASE \E c \in Buyers : DecideCommits(c)
  <2>1. PICK c \in Buyers : DecideCommits(c)
      BY <1>1
  <2> DEFINE d == buying[c]
  <2>2. d \in [at : {"decide"}, order : PurchaseOrders, by : People, from : Statuses, to : Statuses]
      BY <2>1 DEF BuyingInv, BuyTypeOK, BuyRequests, DecideCommits, NotBuying
  <2>3. PICK action \in {"approve", "send", "cancel"} : <<d.from, action, d.to>> \in Allowed
      BY <2>1 DEF BuyingInv, RequestsAreAllowed, DecideCommits
  <2>4. CASE StillAsRead(d)
    <3> DEFINE name == IF d.to = "approved" THEN d.by ELSE purchases[d.order].approvedBy
    <3>1. PICK new : /\ Rewritten(new, d.to, purchases[d.order].received, name)
                     /\ purchases' = [p \in PurchaseOrders |->
                                        IF p = d.order THEN new ELSE purchases[p]]
      <4>1. BuyTypeOK /\ d.order \in PurchaseOrders
          BY <2>2 DEF BuyingInv
      <4>2. purchases' = Decided(d.order, d.to, name)
          BY <2>1, <2>4 DEF DecideCommits, Decided
      <4> HIDE DEF d, name
      <4> QED
          BY <4>1, <4>2, OrderDecided
    <3>2. d.to = "approved" => d.from = "draft"
        BY <2>3 DEF Allowed
    <3> QED
        BY <2>3, <2>4, <3>1, <3>2 DEF StillAsRead, Rewritten
  <2>5. CASE ~StillAsRead(d)
      BY <2>1, <2>5 DEF DecideCommits
  <2> QED
      BY <2>4, <2>5
<1>2. CASE \E c \in Buyers, delivery \in Deliveries : ReceiveOrderCommits(c, delivery)
  <2>1. PICK c \in Buyers, delivery \in Deliveries : ReceiveOrderCommits(c, delivery)
      BY <1>2
  <2> DEFINE d == buying[c]
             received == d.before + d.units
  <2>2. d.order \in PurchaseOrders
      BY <2>1 DEF BuyingInv, BuyTypeOK, BuyRequests, ReceiveOrderCommits, NotBuying
  <2>3. PICK new : /\ Rewritten(new, Progress(d.order, received), received,
                               purchases[d.order].approvedBy)
                   /\ purchases' = [p \in PurchaseOrders |->
                                      IF p = d.order THEN new ELSE purchases[p]]
    <3>1. BuyTypeOK
        BY DEF BuyingInv
    <3>2. purchases' = Delivered(d.order, received, Progress(d.order, received))
        BY <2>1 DEF ReceiveOrderCommits, Delivered
    <3> HIDE DEF d, received
    <3> QED
        BY <2>2, <3>1, <3>2, OrderDelivered
  <2> QED
      BY <2>3 DEF Progress, Rewritten
<1>3. CASE UNCHANGED purchases
    BY <1>3
<1>4. \/ \E c \in Buyers : DecideCommits(c)
      \/ \E c \in Buyers, delivery \in Deliveries : ReceiveOrderCommits(c, delivery)
      \/ UNCHANGED purchases
    BY DEF BuyNext, buyVars, DecideReads, ReceiveOrderReads, SendBackReads, BuyStarts, SendBackCommits
<1> QED
    BY <1>1, <1>2, <1>3, <1>4

\* A decision is taken about the order as it is, however many people act on it
\* at once (pos.ts:5424).
THEOREM DecisionsAlwaysInOrder == BuySpec => DecisionsInOrder
<1>1. BuyingInv /\ [BuyNext]_buyVars =>
          [\A o \in PurchaseOrders :
              LET was == purchases[o]
                  is == purchases'[o]
              IN /\ is.approvedBy # was.approvedBy => was.status = "draft"
                 /\ was.status # is.status /\ is.status \in {"approved", "sent", "cancelled"} =>
                       \E action \in {"approve", "send", "cancel"} :
                           <<was.status, action, is.status>> \in Allowed]_buyVars
    BY StepDecidesInOrder
<1> QED
    BY <1>1, BuyAlwaysHolds, PTL DEF BuySpec, DecisionsInOrder

-----------------------------------------------------------------------------
(***************************************************************************)
(* The order desk.  The holds are of the open orders because whoever       *)
(* closes one asks for its status in the transaction that lifts its hold.  *)
(* The packs follow because a request took as many as the goods, or all    *)
(* there were: and while it waits packs are sold but none comes, so that   *)
(* all there were is still all there are.                                  *)
(***************************************************************************)

OfGoods(S, p) == {k \in S : GoodsPacks[k] = p}
OutFor(o, p) == {k \in DOMAIN GoodsPacks : GoodsPacks[k] = p /\ spentOn[k] = o}

\* No more packs than goods; fewer only if the request took all that are left.
Matches(take, S) ==
    \A p \in MarkedGoods :
        /\ Cardinality(OfGoods(S, p)) <= take[p]
        /\ Cardinality(OfGoods(S, p)) = take[p] \/ PacksOf(p) \subseteq S

ShipsMatch ==
    \A c \in Pickers : picking[c].at = "ship" => Matches(picking[c].take, picking[c].packs)

\* Packs are out for closed orders only.
OutForClosed ==
    \A k \in DOMAIN GoodsPacks : spentOn[k] \in Orders => orders[spentOn[k]].status # "pending"

DeskShapes == DeskTypeOK /\ picking = [c \in Pickers |-> picking[c]]

DeskInv == DeskShapes /\ HoldsAreOpenOrders /\ PacksLeaveWithGoods /\ ShipsMatch /\ OutForClosed

-----------------------------------------------------------------------------
\* What is promised of some orders, and of one fewer.
PromisedBy(S, p) == Sum([o \in S |-> Ordered[o][p]])

LEMMA OnePromiseLess ==
    ASSUME NEW S \in SUBSET Orders, NEW o \in S, NEW p \in Goods
    PROVE  /\ PromisedBy(S, p) \in Nat /\ PromisedBy(S \ {o}, p) \in Nat
           /\ PromisedBy(S, p) = PromisedBy(S \ {o}, p) + Ordered[o][p]
<1> DEFINE f == [x \in S |-> Ordered[x][p]]
           h == [x \in S \ {o} |-> Ordered[x][p]]
<1>1. IsFiniteSet(S) /\ IsFiniteSet(S \ {o})
    BY OrderDeskAssumption, FS_Subset
<1>2. \A x \in Orders : Ordered[x][p] \in Nat
    BY OrderDeskAssumption
<1>3. \A x \in S : f[x] \in Nat /\ f[x] \in Int
    BY <1>2
<1>4. \A x \in S \ {o} : h[x] = f[x] /\ h[x] \in Nat
    BY <1>3
<1>5. DOMAIN f = S /\ DOMAIN h = S \ {o} /\ f[o] = Ordered[o][p]
    OBVIOUS
<1> HIDE DEF f, h
<1>6. SumOver(f, S) \in Nat /\ SumOver(h, S \ {o}) \in Nat
    BY <1>1, <1>3, <1>4, SumOverNat
<1>7. SumOver(f, S) = SumOver(f, S \ {o}) + f[o]
    BY <1>1, <1>3, SumOverRemove
<1>8. SumOver(h, S \ {o}) = SumOver(f, S \ {o})
    BY <1>1, <1>4, SumOverSame
<1>9. PromisedBy(S, p) = SumOver(f, S) /\ PromisedBy(S \ {o}, p) = SumOver(h, S \ {o})
    BY <1>5, SumIsOverDomain DEF PromisedBy, f, h
<1> QED
    BY <1>5, <1>6, <1>7, <1>8, <1>9

LEMMA PromisedIsNat ==
    ASSUME NEW S \in SUBSET Orders, NEW p \in Goods
    PROVE  PromisedBy(S, p) \in Nat
<1> DEFINE f == [x \in S |-> Ordered[x][p]]
<1>1. IsFiniteSet(S)
    BY OrderDeskAssumption, FS_Subset
<1>2. \A x \in S : f[x] \in Nat
    BY OrderDeskAssumption
<1>3. DOMAIN f = S
    OBVIOUS
<1> HIDE DEF f
<1>4. SumOver(f, S) \in Nat
    BY <1>1, <1>2, SumOverNat
<1> QED
    BY <1>3, <1>4, SumIsOverDomain DEF PromisedBy, f

LEMMA PromisedIs == \A p : Promised(p) = PromisedBy(OpenOrders, p)
    BY DEF Promised, PromisedBy

\* An order that is closed takes its hold along.
LEMMA HoldsFollow ==
    ASSUME DeskInv, NEW o \in OpenOrders, OpenOrders' = OpenOrders \ {o}, NEW p \in Goods
    PROVE  /\ NotNegative(held[p] - Ordered[o][p]) = Promised(p)'
           /\ NotNegative(held[p] - Ordered[o][p]) <= held[p]
           /\ Promised(p)' \in Nat
<1>1. OpenOrders \in SUBSET Orders
    BY DEF OpenOrders
<1>2. PICK S : S = OpenOrders
    OBVIOUS
<1>3. held[p] = PromisedBy(S, p) /\ Promised(p)' = PromisedBy(S \ {o}, p)
    BY <1>2, PromisedIs DEF DeskInv, HoldsAreOpenOrders, Promised, PromisedBy
<1>4. /\ PromisedBy(S, p) \in Nat /\ PromisedBy(S \ {o}, p) \in Nat
      /\ PromisedBy(S, p) = PromisedBy(S \ {o}, p) + Ordered[o][p]
    BY <1>1, <1>2, OnePromiseLess
<1>5. Ordered[o][p] \in Nat
    BY <1>1, OrderDeskAssumption
<1> QED
    BY <1>3, <1>4, <1>5 DEF NotNegative

-----------------------------------------------------------------------------
LEMMA PackSets ==
    ASSUME NEW p
    PROVE  /\ IsFiniteSet(PacksOf(p)) /\ Cardinality(PacksOf(p)) \in Nat
           /\ \A S \in SUBSET DOMAIN GoodsPacks :
                 IsFiniteSet(OfGoods(S, p)) /\ Cardinality(OfGoods(S, p)) \in Nat
<1>1. PacksOf(p) \subseteq DOMAIN GoodsPacks
      /\ \A S \in SUBSET DOMAIN GoodsPacks : OfGoods(S, p) \subseteq DOMAIN GoodsPacks
    BY DEF PacksOf, OfGoods
<1> QED
    BY <1>1, OrderDeskAssumption, FS_Subset, FS_CardinalityType

LEMMA DeskInitHolds == DeskInit => DeskInv
<1> SUFFICES ASSUME DeskInit PROVE DeskInv
    OBVIOUS
<1>1. OpenOrders = Orders
    BY DEF DeskInit, OpenOrders
<1>2. \A p \in Goods : Promised(p) \in Nat /\ Promised(p) <= FirstShelf[p]
    BY <1>1, PromisedIs, PromisedIsNat, FirstShelfAssumption DEF PromisedBy
<1>3. \A p \in Goods : FirstShelf[p] \in Nat
    BY OrderDeskAssumption
<1>4. HoldsAreOpenOrders
    BY <1>2 DEF DeskInit, HoldsAreOpenOrders
<1>5. PacksLeaveWithGoods
  <2>1. \A p \in MarkedGoods : PacksOf(p) = {k \in DOMAIN GoodsPacks : GoodsPacks[k] = p}
      BY DEF DeskInit, PacksOf
  <2>2. ASSUME NEW o \in Orders, NEW p \in MarkedGoods
        PROVE  Cardinality({k \in DOMAIN GoodsPacks : GoodsPacks[k] = p /\ spentOn[k] = o})
                  <= shipped[o][p]
    <3>1. {k \in DOMAIN GoodsPacks : GoodsPacks[k] = p /\ spentOn[k] = o} = {}
        BY OrderDeskAssumption DEF DeskInit
    <3>2. shipped[o][p] = 0
        BY OrderDeskAssumption DEF DeskInit, NothingOf
    <3> QED
        BY <3>1, <3>2, FS_EmptySet
  <2> QED
      BY <2>1, <2>2, FirstShelfAssumption DEF DeskInit, PacksLeaveWithGoods
<1>6. DeskShapes
  <2>1. [p \in Goods |-> NotLooked] \in [Goods -> Nat \cup {NotLooked}]
        /\ NothingOf \in [Goods -> Nat]
      BY DEF NothingOf
  <2>2. orders \in [Orders -> [status : {"pending", "confirmed", "cancelled"},
                              picked : [Goods -> Nat \cup {NotLooked}]]]
      BY <2>1 DEF DeskInit
  <2>3. shelf \in [Goods -> Nat] /\ held \in [Goods -> Nat]
      BY <1>2, OrderDeskAssumption DEF DeskInit
  <2> QED
      BY <2>1, <2>2, <2>3 DEF DeskInit, DeskShapes, DeskTypeOK
<1>7. ShipsMatch /\ OutForClosed
    BY OrderDeskAssumption DEF DeskInit, ShipsMatch, NotPicking, OutForClosed
<1> QED
    BY <1>4, <1>5, <1>6, <1>7 DEF DeskInv

-----------------------------------------------------------------------------
\* A request that is begun.
LEMMA StartingHolds ==
    ASSUME DeskInv, NEW c \in Pickers, NEW d, d \in DeskRequests, Starting(c, d),
           d.at = "ship" => Matches(d.take, d.packs)
    PROVE  DeskInv'
<1>1. \A e \in Pickers : picking'[e] = IF e = c THEN d ELSE picking[e]
    BY DEF Starting, DeskInv, DeskShapes
<1>2. DeskShapes'
    BY <1>1 DEF Starting, DeskInv, DeskShapes, DeskTypeOK
<1>3. \A p : PacksOf(p)' = PacksOf(p) /\ Promised(p)' = Promised(p)
    BY DEF Starting, PacksOf, Promised, OpenOrders
<1>4. HoldsAreOpenOrders'
    BY <1>3 DEF Starting, DeskInv, HoldsAreOpenOrders
<1>5. PacksLeaveWithGoods'
    BY <1>3 DEF Starting, DeskInv, PacksLeaveWithGoods
<1>6. ShipsMatch'
  <2>1. \A e \in Pickers : picking'[e].at = "ship" => Matches(picking'[e].take, picking'[e].packs)
      BY <1>1 DEF DeskInv, ShipsMatch
  <2> QED
      BY <1>3, <2>1 DEF ShipsMatch, Matches
<1>7. OutForClosed'
    BY DEF Starting, DeskInv, OutForClosed
<1> QED
    BY <1>2, <1>4, <1>5, <1>6, <1>7 DEF DeskInv

LEMMA PickReadsHold ==
    ASSUME DeskInv, NEW c \in Pickers, NEW o \in Orders, PickReads(c, o)
    PROVE  DeskInv'
<1>1. PICK lines \in ResolvedPicks(o) : Starting(c, [at |-> "pick", order |-> o, picked |-> lines])
    BY DEF PickReads
<1>2. lines \in [Goods -> Nat \cup {NotLooked}]
  <2>1. \A p \in Goods : PickedNow(o, p) \subseteq Nat \cup {NotLooked}
      BY DEF PickedNow, DeskInv, DeskShapes, DeskTypeOK
  <2> QED
      BY <2>1 DEF ResolvedPicks
<1>3. PICK d : d = [at |-> "pick", order |-> o, picked |-> lines]
    OBVIOUS
<1>4. d \in DeskRequests /\ d.at = "pick"
    BY <1>2, <1>3 DEF DeskRequests
<1> QED
    BY <1>1, <1>3, <1>4, StartingHolds

LEMMA HandsOutHolds ==
    ASSUME DeskInv, NEW c \in Pickers, NEW o \in Orders, NEW take \in [Goods -> Nat],
           HandsOut(c, o, take)
    PROVE  DeskInv'
<1>1. PICK codes \in CodesFor(take) :
          Starting(c, [at |-> "ship", order |-> o, take |-> take, packs |-> codes])
    BY DEF HandsOut
<1>2. codes \in SUBSET DOMAIN GoodsPacks
    BY DEF CodesFor
<1>3. Matches(take, codes)
  <2> SUFFICES ASSUME NEW p \in MarkedGoods
               PROVE  /\ Cardinality(OfGoods(codes, p)) <= take[p]
                      /\ Cardinality(OfGoods(codes, p)) = take[p] \/ PacksOf(p) \subseteq codes
      BY DEF Matches
  <2>1. p \in Goods /\ take[p] \in Nat
      BY OrderDeskAssumption
  <2>2. OfGoods(codes, p) \in PickedCodes(take[p], PacksOf(p))
      BY <2>1 DEF CodesFor, OfGoods
  <2>3. CASE PacksOf(p) = {}
      BY <2>1, <2>2, <2>3, FS_EmptySet DEF PickedCodes
  <2>4. CASE PacksOf(p) # {}
      BY <2>1, <2>2, <2>4 DEF PickedCodes
  <2> QED
      BY <2>3, <2>4
<1>4. PICK d : d = [at |-> "ship", order |-> o, take |-> take, packs |-> codes]
    OBVIOUS
<1>5. d \in DeskRequests /\ d.take = take /\ d.packs = codes
    BY <1>2, <1>4 DEF DeskRequests
<1> QED
    BY <1>1, <1>3, <1>4, <1>5, StartingHolds

LEMMA FoundIsThere == ASSUME DeskInv, NEW o \in Orders PROVE Found(o) \in [Goods -> Nat]
<1>1. \A p \in Goods : orders[o].picked[p] \in Nat \cup {NotLooked} /\ Ordered[o][p] \in Nat
    BY OrderDeskAssumption DEF DeskInv, DeskShapes, DeskTypeOK
<1> QED
    BY <1>1 DEF Found

LEMMA RejectReadsHold ==
    ASSUME DeskInv, NEW c \in Pickers, NEW o \in Orders, RejectReads(c, o)
    PROVE  DeskInv'
<1>1. PICK d : d = [at |-> "reject", order |-> o]
    OBVIOUS
<1>2. d \in DeskRequests /\ d.at = "reject"
    BY <1>1 DEF DeskRequests
<1> QED
    BY <1>1, <1>2, StartingHolds DEF RejectReads

-----------------------------------------------------------------------------
\* A request that is over; what others have taken stays right as long as packs
\* only leave.
LEMMA RequestsMatch ==
    ASSUME DeskInv, NEW c \in Pickers, picking' = [picking EXCEPT ![c] = NotPicking],
           \A p : PacksOf(p)' \subseteq PacksOf(p)
    PROVE  /\ ShipsMatch'
           /\ picking' = [e \in Pickers |-> picking'[e]]
           /\ \A e \in Pickers : picking'[e] \in DeskRequests \cup {NotPicking}
<1>1. \A e \in Pickers : picking'[e] = IF e = c THEN NotPicking ELSE picking[e]
    BY DEF DeskInv, DeskShapes
<1>2. NotPicking.at = "idle"
    BY DEF NotPicking
<1>3. \A e \in Pickers : picking'[e].at = "ship" => Matches(picking'[e].take, picking'[e].packs)
    BY <1>1, <1>2 DEF DeskInv, ShipsMatch
<1>4. ShipsMatch'
    BY <1>3 DEF ShipsMatch, Matches
<1> QED
    BY <1>1, <1>4 DEF DeskInv, DeskShapes, DeskTypeOK

LEMMA RequestIs ==
    ASSUME DeskInv, NEW c \in Pickers
    PROVE  /\ picking[c].at = "pick" => picking[c] \in [at : {"pick"}, order : Orders,
                                                        picked : [Goods -> Nat \cup {NotLooked}]]
           /\ picking[c].at = "ship" => picking[c] \in [at : {"ship"}, order : Orders,
                                            take : [Goods -> Nat], packs : SUBSET DOMAIN GoodsPacks]
           /\ picking[c].at = "reject" => picking[c] \in [at : {"reject"}, order : Orders]
<1>1. picking[c] \in DeskRequests \cup {NotPicking} /\ NotPicking.at = "idle"
    BY DEF DeskInv, DeskShapes, DeskTypeOK, NotPicking
<1>2. PICK d : d = picking[c]
    OBVIOUS
<1>3. /\ d \in [at : {"pick"}, order : Orders, picked : [Goods -> Nat \cup {NotLooked}]] => d.at = "pick"
      /\ d \in [at : {"ship"}, order : Orders, take : [Goods -> Nat],
                packs : SUBSET DOMAIN GoodsPacks] => d.at = "ship"
      /\ d \in [at : {"reject"}, order : Orders] => d.at = "reject"
    OBVIOUS
<1> QED
    BY <1>1, <1>2, <1>3 DEF DeskRequests

LEMMA PickCommitsHold ==
    ASSUME DeskInv, NEW c \in Pickers, PickCommits(c)
    PROVE  DeskInv'
<1>1. PICK d : d = picking[c]
    OBVIOUS
<1>2. d \in [at : {"pick"}, order : Orders, picked : [Goods -> Nat \cup {NotLooked}]]
    BY <1>1, RequestIs DEF PickCommits
<1>3. d.order \in Orders /\ d.picked \in [Goods -> Nat \cup {NotLooked}]
    BY <1>2
<1>4. PICK o : o = d.order
    OBVIOUS
<1>5. PICK lines : lines = [p \in Goods |-> IF d.picked[p] = NotLooked THEN orders[o].picked[p] ELSE d.picked[p]]
    OBVIOUS
<1>6. lines \in [Goods -> Nat \cup {NotLooked}]
    BY <1>3, <1>4, <1>5 DEF DeskInv, DeskShapes, DeskTypeOK
<1>7. orders' = [orders EXCEPT ![o].picked = lines]
    BY <1>1, <1>4, <1>5 DEF PickCommits
<1>8. /\ orders' \in [Orders -> [status : {"pending", "confirmed", "cancelled"},
                                picked : [Goods -> Nat \cup {NotLooked}]]]
      /\ \A x \in Orders : orders'[x].status = orders[x].status
  <2>1. o \in Orders /\ \A x \in Orders : orders[x] \in [status : {"pending", "confirmed", "cancelled"},
                                                    picked : [Goods -> Nat \cup {NotLooked}]]
      BY <1>3, <1>4 DEF DeskInv, DeskShapes, DeskTypeOK
  <2>2. PICK row : row = [orders[o] EXCEPT !.picked = lines]
      OBVIOUS
  <2>3. /\ row \in [status : {"pending", "confirmed", "cancelled"}, picked : [Goods -> Nat \cup {NotLooked}]]
        /\ row.status = orders[o].status
      BY <1>6, <2>1, <2>2
  <2>4. orders' = [orders EXCEPT ![o] = row]
      BY <1>7, <2>2
  <2> QED
      BY <2>1, <2>3, <2>4 DEF DeskInv, DeskShapes, DeskTypeOK
<1>9. UNCHANGED <<shelf, held, spentOn, shipped>> /\ picking' = [picking EXCEPT ![c] = NotPicking]
    BY DEF PickCommits
<1>10. \A p : PacksOf(p)' = PacksOf(p)
    BY <1>9 DEF PacksOf
<1>11. OpenOrders' = OpenOrders
    BY <1>8 DEF OpenOrders
<1>12. \A p : Promised(p)' = Promised(p)
    BY <1>11 DEF Promised
<1>13. ShipsMatch' /\ DeskShapes'
    BY <1>8, <1>9, <1>10, RequestsMatch DEF DeskInv, DeskShapes, DeskTypeOK
<1>14. HoldsAreOpenOrders'
    BY <1>9, <1>12 DEF DeskInv, HoldsAreOpenOrders
<1>15. PacksLeaveWithGoods'
    BY <1>9, <1>10 DEF DeskInv, PacksLeaveWithGoods
<1>16. OutForClosed'
    BY <1>8, <1>9 DEF DeskInv, OutForClosed
<1> QED
    BY <1>13, <1>14, <1>15, <1>16 DEF DeskInv

\* A request that is turned away at the last moment.
LEMMA NothingDone ==
    ASSUME DeskInv, NEW c \in Pickers, picking' = [picking EXCEPT ![c] = NotPicking],
           UNCHANGED <<shelf, held, orders, spentOn, shipped>>
    PROVE  DeskInv'
<1>1. \A p : PacksOf(p)' = PacksOf(p) /\ Promised(p)' = Promised(p)
    BY DEF PacksOf, Promised, OpenOrders
<1>2. ShipsMatch' /\ DeskShapes'
    BY <1>1, RequestsMatch DEF DeskInv, DeskShapes, DeskTypeOK
<1>3. HoldsAreOpenOrders' /\ PacksLeaveWithGoods' /\ OutForClosed'
    BY <1>1 DEF DeskInv, HoldsAreOpenOrders, PacksLeaveWithGoods, OutForClosed
<1> QED
    BY <1>2, <1>3 DEF DeskInv

\* An order that leaves the open ones and changes nothing but its status.
LEMMA Closes ==
    ASSUME DeskInv, NEW o \in OpenOrders, NEW status \in {"confirmed", "cancelled"},
           orders' = [orders EXCEPT ![o].status = status]
    PROVE  /\ orders' \in [Orders -> [status : {"pending", "confirmed", "cancelled"},
                                      picked : [Goods -> Nat \cup {NotLooked}]]]
           /\ \A x \in Orders : orders'[x].status = IF x = o THEN status ELSE orders[x].status
           /\ OpenOrders' = OpenOrders \ {o}
<1>1. o \in Orders
    BY DEF OpenOrders
<1>2. \A x \in Orders : orders'[x].status = IF x = o THEN status ELSE orders[x].status
    BY <1>1 DEF DeskInv, DeskShapes, DeskTypeOK
<1>3. OpenOrders' = OpenOrders \ {o}
    BY <1>2 DEF OpenOrders
<1> QED
    BY <1>1, <1>2, <1>3 DEF DeskInv, DeskShapes, DeskTypeOK

LEMMA RejectCommitsHold ==
    ASSUME DeskInv, NEW c \in Pickers, RejectCommits(c)
    PROVE  DeskInv'
<1>1. PICK d : d = picking[c]
    OBVIOUS
<1>2. d \in [at : {"reject"}, order : Orders]
    BY <1>1, RequestIs DEF RejectCommits
<1>3. PICK o \in Orders : o = d.order
    BY <1>2
<1>4. CASE orders[o].status # "pending"
    BY <1>1, <1>3, <1>4, NothingDone DEF RejectCommits
<1>5. CASE orders[o].status = "pending"
  <2>1. /\ orders' = [orders EXCEPT ![o].status = "cancelled"]
        /\ held' = [p \in Goods |-> NotNegative(held[p] - Ordered[o][p])]
        /\ UNCHANGED <<shelf, spentOn, shipped>> /\ picking' = [picking EXCEPT ![c] = NotPicking]
      BY <1>1, <1>3, <1>5 DEF RejectCommits
  <2>2. o \in OpenOrders
      BY <1>5 DEF OpenOrders
  <2>3. /\ orders' \in [Orders -> [status : {"pending", "confirmed", "cancelled"},
                                   picked : [Goods -> Nat \cup {NotLooked}]]]
        /\ \A x \in Orders : orders'[x].status = IF x = o THEN "cancelled" ELSE orders[x].status
        /\ OpenOrders' = OpenOrders \ {o}
      BY <2>1, <2>2, Closes
  <2>4. \A p \in Goods : held'[p] = Promised(p)' /\ held'[p] <= held[p] /\ held'[p] \in Nat
      BY <2>1, <2>2, <2>3, HoldsFollow
  <2>5. \A p : PacksOf(p)' = PacksOf(p)
      BY <2>1 DEF PacksOf
  <2>6. ShipsMatch' /\ DeskShapes'
      BY <2>1, <2>3, <2>4, <2>5, RequestsMatch DEF DeskInv, DeskShapes, DeskTypeOK
  <2>7. HoldsAreOpenOrders'
      BY <2>1, <2>4 DEF DeskInv, HoldsAreOpenOrders, DeskShapes, DeskTypeOK
  <2>8. PacksLeaveWithGoods'
      BY <2>1, <2>5 DEF DeskInv, PacksLeaveWithGoods
  <2>9. OutForClosed'
      BY <2>1, <2>3 DEF DeskInv, OutForClosed
  <2> QED
      BY <2>6, <2>7, <2>8, <2>9 DEF DeskInv
<1> QED
    BY <1>4, <1>5

LEMMA ShipCommitsHold ==
    ASSUME DeskInv, NEW c \in Pickers, ShipCommits(c)
    PROVE  DeskInv'
<1>1. PICK d : d = picking[c]
    OBVIOUS
<1>2. d \in [at : {"ship"}, order : Orders, take : [Goods -> Nat], packs : SUBSET DOMAIN GoodsPacks]
    BY <1>1, RequestIs DEF ShipCommits
<1>3. PICK o \in Orders, take \in [Goods -> Nat], S \in SUBSET DOMAIN GoodsPacks :
          o = d.order /\ take = d.take /\ S = d.packs
    BY <1>2
<1>4. Matches(take, S)
    BY <1>1, <1>3 DEF DeskInv, ShipsMatch, ShipCommits
<1>5. CASE ~ShipGoesThrough(d)
    BY <1>1, <1>5, NothingDone DEF ShipCommits
<1>6. CASE ShipGoesThrough(d)
  <2>1. /\ orders' = [orders EXCEPT ![o].status = "confirmed"]
        /\ held' = [p \in Goods |-> NotNegative(held[p] - Ordered[o][p])]
        /\ shelf' = [p \in Goods |-> shelf[p] - take[p]]
        /\ spentOn' = [k \in DOMAIN GoodsPacks |-> IF k \in S THEN o ELSE spentOn[k]]
        /\ shipped' = [shipped EXCEPT ![o] = take]
        /\ picking' = [picking EXCEPT ![c] = NotPicking]
      BY <1>1, <1>3, <1>6 DEF ShipCommits, ReleasedWith, CodesAfter
  <2>2. /\ o \in OpenOrders /\ \A k \in S : spentOn[k] = InStock
        /\ \A p \in Goods : shelf[p] - NotNegative(held[p] - Ordered[o][p]) >= take[p]
      BY <1>3, <1>6 DEF ShipGoesThrough, OpenOrders
  <2>3. /\ orders' \in [Orders -> [status : {"pending", "confirmed", "cancelled"},
                                   picked : [Goods -> Nat \cup {NotLooked}]]]
        /\ \A x \in Orders : orders'[x].status = IF x = o THEN "confirmed" ELSE orders[x].status
        /\ OpenOrders' = OpenOrders \ {o}
      BY <2>1, <2>2, Closes
  <2>4. \A p \in Goods : held'[p] = Promised(p)' /\ held'[p] \in Nat
      BY <2>1, <2>2, <2>3, HoldsFollow
  <2>5. ASSUME NEW p \in Goods
        PROVE  held'[p] <= shelf'[p] /\ shelf'[p] \in Nat /\ shelf'[p] = shelf[p] - take[p]
    <3>1. shelf'[p] = shelf[p] - take[p] /\ shelf[p] - held'[p] >= take[p]
        BY <2>1, <2>2
    <3>2. shelf[p] \in Nat /\ take[p] \in Nat /\ held'[p] \in Nat
        BY <2>4 DEF DeskInv, DeskShapes, DeskTypeOK
    <3> QED
        BY <3>1, <3>2
  <2>6. \A p : PacksOf(p)' = PacksOf(p) \ S
      BY <2>1, OrderDeskAssumption DEF PacksOf
  <2>7. ShipsMatch' /\ picking' = [e \in Pickers |-> picking'[e]]
        /\ \A e \in Pickers : picking'[e] \in DeskRequests \cup {NotPicking}
      BY <2>1, <2>6, RequestsMatch
  <2>8. DeskShapes'
    <3>1. spentOn' \in [DOMAIN GoodsPacks -> Orders \cup {InStock, OverCounter}]
          /\ shipped' \in [Orders -> [Goods -> Nat]]
        BY <2>1 DEF DeskInv, DeskShapes, DeskTypeOK
    <3>2. shelf' \in [Goods -> Nat] /\ held' \in [Goods -> Nat]
        BY <2>1, <2>4, <2>5
    <3> QED
        BY <2>3, <2>7, <3>1, <3>2 DEF DeskShapes, DeskTypeOK
  <2>9. HoldsAreOpenOrders'
      BY <2>4, <2>5 DEF HoldsAreOpenOrders
  <2>10. PacksLeaveWithGoods'
    <3>1. ASSUME NEW p \in MarkedGoods
          PROVE  Cardinality(PacksOf(p)') <= shelf'[p]
      <4> DEFINE mine == OfGoods(S, p)
      <4>1. p \in Goods
          BY OrderDeskAssumption
      <4>2. PacksOf(p)' = PacksOf(p) \ mine /\ mine \subseteq PacksOf(p)
          BY <2>2, <2>6 DEF PacksOf, OfGoods
      <4>3. IsFiniteSet(PacksOf(p)) /\ Cardinality(PacksOf(p)) \in Nat
            /\ IsFiniteSet(mine) /\ Cardinality(mine) \in Nat
          BY PackSets
      <4>4. Cardinality(PacksOf(p) \ mine) = Cardinality(PacksOf(p)) - Cardinality(mine)
        <5>1. PacksOf(p) \cap mine = mine
            BY <4>2
        <5> QED
            BY <4>3, <5>1, FS_Difference
      <4>5. Cardinality(PacksOf(p)) <= shelf[p]
          BY DEF DeskInv, PacksLeaveWithGoods
      <4>6. shelf[p] \in Nat /\ take[p] \in Nat
          BY <4>1 DEF DeskInv, DeskShapes, DeskTypeOK
      <4>7. shelf'[p] = shelf[p] - take[p] /\ shelf'[p] \in Nat
          BY <2>5, <4>1
      <4>8. CASE Cardinality(mine) = take[p]
          BY <4>2, <4>3, <4>4, <4>5, <4>6, <4>7, <4>8
      <4>9. CASE PacksOf(p) \subseteq S
        <5>1. PacksOf(p) \ S = {} /\ Cardinality({}) = 0
            BY <4>9, FS_EmptySet
        <5> QED
            BY <2>6, <4>7, <5>1
      <4> QED
          BY <1>4, <4>8, <4>9 DEF Matches
    <3>2. ASSUME NEW x \in Orders, NEW p \in MarkedGoods
          PROVE  Cardinality({k \in DOMAIN GoodsPacks : GoodsPacks[k] = p /\ spentOn'[k] = x})
                     <= shipped'[x][p]
      <4>1. CASE x = o
        <5>1. \A k \in DOMAIN GoodsPacks : spentOn[k] # o
            BY <2>2 DEF DeskInv, OutForClosed, OpenOrders
        <5>2. {k \in DOMAIN GoodsPacks : GoodsPacks[k] = p /\ spentOn'[k] = o} = OfGoods(S, p)
            BY <2>1, <5>1 DEF OfGoods
        <5>3. shipped'[o] = take
            BY <2>1 DEF DeskInv, DeskShapes, DeskTypeOK
        <5> QED
            BY <1>4, <4>1, <5>2, <5>3 DEF Matches
      <4>2. CASE x # o
        <5>1. {k \in DOMAIN GoodsPacks : GoodsPacks[k] = p /\ spentOn'[k] = x}
                = {k \in DOMAIN GoodsPacks : GoodsPacks[k] = p /\ spentOn[k] = x}
            BY <2>1, <2>2, <4>2, OrderDeskAssumption
        <5>2. shipped'[x] = shipped[x]
            BY <2>1, <4>2 DEF DeskInv, DeskShapes, DeskTypeOK
        <5> QED
            BY <5>1, <5>2 DEF DeskInv, PacksLeaveWithGoods
      <4> QED
          BY <4>1, <4>2
    <3> QED
        BY <3>1, <3>2 DEF PacksLeaveWithGoods
  <2>11. OutForClosed'
    <3>1. \A k \in DOMAIN GoodsPacks : spentOn'[k] \in Orders => orders'[spentOn'[k]].status # "pending"
        BY <2>1, <2>3 DEF DeskInv, OutForClosed
    <3> QED
        BY <3>1 DEF OutForClosed
  <2> QED
      BY <2>7, <2>8, <2>9, <2>10, <2>11 DEF DeskInv
<1> QED
    BY <1>5, <1>6

LEMMA OverTheCounterHolds ==
    ASSUME DeskInv, NEW p \in Goods, OverTheCounter(p)
    PROVE  DeskInv'
<1>1. /\ shelf[p] > held[p] /\ shelf' = [shelf EXCEPT ![p] = shelf[p] - 1]
      /\ UNCHANGED <<held, orders, picking, shipped>>
    BY DEF OverTheCounter
<1>2. \A q \in Goods : shelf'[q] = (IF q = p THEN shelf[p] - 1 ELSE shelf[q]) /\ shelf'[q] \in Nat
    BY <1>1 DEF DeskInv, DeskShapes, DeskTypeOK
<1>3. shelf' \in [Goods -> Nat]
    BY <1>1, <1>2 DEF DeskInv, DeskShapes, DeskTypeOK
<1>4. HoldsAreOpenOrders'
  <2>1. \A q : Promised(q)' = Promised(q)
      BY <1>1 DEF Promised, OpenOrders
  <2>2. \A q \in Goods : held[q] <= shelf'[q]
      BY <1>1, <1>2 DEF DeskInv, DeskShapes, DeskTypeOK, HoldsAreOpenOrders
  <2> QED
      BY <1>1, <2>1, <2>2 DEF DeskInv, HoldsAreOpenOrders
<1>5. CASE PacksOf(p) = {} /\ spentOn' = spentOn
  <2>1. \A q : PacksOf(q)' = PacksOf(q)
      BY <1>5 DEF PacksOf
  <2>2. DeskShapes' /\ ShipsMatch' /\ OutForClosed'
      BY <1>1, <1>3, <1>5, <2>1 DEF DeskInv, DeskShapes, DeskTypeOK, ShipsMatch, Matches, OutForClosed
  <2>3. \A q \in MarkedGoods : Cardinality(PacksOf(q)) <= shelf'[q]
    <3> SUFFICES ASSUME NEW q \in MarkedGoods PROVE Cardinality(PacksOf(q)) <= shelf'[q]
        OBVIOUS
    <3>1. q \in Goods
        BY OrderDeskAssumption
    <3>2. CASE q = p
        BY <1>2, <1>5, <3>1, <3>2, FS_EmptySet
    <3>3. CASE q # p
        BY <1>2, <3>1, <3>3 DEF DeskInv, PacksLeaveWithGoods
    <3> QED
        BY <3>2, <3>3
  <2>4. PacksLeaveWithGoods'
      BY <1>1, <1>5, <2>1, <2>3 DEF DeskInv, PacksLeaveWithGoods
  <2> QED
      BY <1>4, <2>2, <2>4 DEF DeskInv
<1>6. ASSUME NEW k \in PacksOf(p), spentOn' = [spentOn EXCEPT ![k] = OverCounter]
      PROVE  DeskInv'
  <2>1. k \in DOMAIN GoodsPacks /\ GoodsPacks[k] = p /\ spentOn[k] = InStock
      BY DEF PacksOf
  <2>2. \A q : PacksOf(q)' = PacksOf(q) \ {k}
      BY <1>6, <2>1 DEF PacksOf, InStock, OverCounter, DeskInv, DeskShapes, DeskTypeOK
  <2>3. spentOn' \in [DOMAIN GoodsPacks -> Orders \cup {InStock, OverCounter}]
      BY <1>6 DEF DeskInv, DeskShapes, DeskTypeOK
  <2>4. DeskShapes'
      BY <1>1, <1>3, <2>3 DEF DeskInv, DeskShapes, DeskTypeOK
  <2>5. ShipsMatch'
    <3>1. \A e \in Pickers : picking'[e].at = "ship" => Matches(picking'[e].take, picking'[e].packs)
        BY <1>1 DEF DeskInv, ShipsMatch
    <3> QED
        BY <2>2, <3>1 DEF ShipsMatch, Matches
  <2>6. OutForClosed'
    <3>1. \A x \in DOMAIN GoodsPacks : spentOn'[x] \in Orders => spentOn'[x] = spentOn[x]
        BY <1>6, OrderDeskAssumption DEF DeskInv, DeskShapes, DeskTypeOK
    <3> QED
        BY <1>1, <3>1 DEF DeskInv, OutForClosed
  <2>7. \A q \in MarkedGoods : Cardinality(PacksOf(q) \ {k}) <= shelf'[q]
    <3> SUFFICES ASSUME NEW q \in MarkedGoods PROVE Cardinality(PacksOf(q) \ {k}) <= shelf'[q]
        OBVIOUS
    <3>1. q \in Goods /\ shelf[q] \in Nat /\ Cardinality(PacksOf(q)) <= shelf[q]
        BY OrderDeskAssumption DEF DeskInv, DeskShapes, DeskTypeOK, PacksLeaveWithGoods
    <3>2. CASE q = p
      <4>1. IsFiniteSet(PacksOf(p)) /\ Cardinality(PacksOf(p)) \in Nat
          BY PackSets
      <4>2. Cardinality(PacksOf(p) \ {k}) = Cardinality(PacksOf(p)) - 1
          BY <4>1, FS_RemoveElement
      <4> QED
          BY <1>2, <3>1, <3>2, <4>1, <4>2
    <3>3. CASE q # p
      <4>1. PacksOf(q) \ {k} = PacksOf(q)
          BY <2>1, <3>3 DEF PacksOf
      <4> QED
          BY <1>2, <3>1, <3>3, <4>1
    <3> QED
        BY <3>2, <3>3
  <2>8. ASSUME NEW x \in Orders, NEW q \in MarkedGoods
        PROVE  {y \in DOMAIN GoodsPacks : GoodsPacks[y] = q /\ spentOn'[y] = x}
                = {y \in DOMAIN GoodsPacks : GoodsPacks[y] = q /\ spentOn[y] = x}
      BY <1>6, <2>1, OrderDeskAssumption DEF DeskInv, DeskShapes, DeskTypeOK
  <2>9. PacksLeaveWithGoods'
      BY <1>1, <2>2, <2>7, <2>8 DEF DeskInv, PacksLeaveWithGoods
  <2> QED
      BY <1>4, <2>4, <2>5, <2>6, <2>9 DEF DeskInv
<1> QED
    BY <1>5, <1>6 DEF OverTheCounter

LEMMA DeskStep ==
    ASSUME DeskInv, [DeskNext]_deskVars
    PROVE  DeskInv'
<1>1. ASSUME NEW c \in Pickers, NEW o \in Orders,
             PickReads(c, o) \/ ShipReads(c, o) \/ FulfillReads(c, o) \/ RejectReads(c, o)
      PROVE  DeskInv'
  <2>1. Ordered[o] \in [Goods -> Nat] /\ Found(o) \in [Goods -> Nat]
      BY OrderDeskAssumption, FoundIsThere
  <2>2. CASE ShipReads(c, o)
      BY <2>1, <2>2, HandsOutHolds DEF ShipReads
  <2>3. CASE FulfillReads(c, o)
      BY <2>1, <2>3, HandsOutHolds DEF FulfillReads
  <2> QED
      BY <1>1, <2>2, <2>3, PickReadsHold, RejectReadsHold
<1>2. ASSUME NEW c \in Pickers, PickCommits(c) \/ ShipCommits(c) \/ RejectCommits(c)
      PROVE  DeskInv'
    BY <1>2, PickCommitsHold, ShipCommitsHold, RejectCommitsHold
<1>3. ASSUME NEW p \in Goods, OverTheCounter(p)
      PROVE  DeskInv'
    BY <1>3, OverTheCounterHolds
<1>4. CASE UNCHANGED deskVars
  <2>1. \A p : PacksOf(p)' = PacksOf(p) /\ Promised(p)' = Promised(p)
      BY <1>4 DEF deskVars, PacksOf, Promised, OpenOrders
  <2>2. HoldsAreOpenOrders' /\ PacksLeaveWithGoods' /\ OutForClosed'
      BY <1>4, <2>1 DEF deskVars, DeskInv, HoldsAreOpenOrders, PacksLeaveWithGoods, OutForClosed
  <2>3. DeskShapes' /\ ShipsMatch'
      BY <1>4, <2>1 DEF deskVars, DeskInv, DeskShapes, DeskTypeOK, ShipsMatch, Matches
  <2> QED
      BY <2>2, <2>3 DEF DeskInv
<1> QED
    BY <1>1, <1>2, <1>3, <1>4 DEF DeskNext

LEMMA DeskInvHolds == DeskSpec => []DeskInv
<1>1. DeskInv /\ [DeskNext]_deskVars => DeskInv'
    BY DeskStep
<1> QED
    BY <1>1, DeskInitHolds, PTL DEF DeskSpec

\* The shape of rows, orders and requests at the desk (DeskTypeOK; picking.ts:144).
THEOREM DeskTypes == DeskSpec => []DeskTypeOK
<1>1. DeskInv => DeskTypeOK
    BY DEF DeskInv, DeskShapes
<1> QED
    BY <1>1, DeskInvHolds, PTL

\* What the shelf holds back is what the open orders were promised, and is there
\* (HoldsAreOpenOrders; picking.ts:144).
THEOREM HoldsAreAlwaysOpenOrders == DeskSpec => []HoldsAreOpenOrders
<1>1. DeskInv => HoldsAreOpenOrders
    BY DEF DeskInv
<1> QED
    BY <1>1, DeskInvHolds, PTL

\* Packs leave with their goods (PacksLeaveWithGoods; pos.ts:8409).
THEOREM PacksAlwaysLeaveWithGoods == DeskSpec => []PacksLeaveWithGoods
<1>1. DeskInv => PacksLeaveWithGoods
    BY DEF DeskInv
<1> QED
    BY <1>1, DeskInvHolds, PTL

-----------------------------------------------------------------------------
(***************************************************************************)
(* Transfers.  Every request that waits holds what keeps the books right   *)
(* when it is written: a sending one packs that fit its lines, on a        *)
(* document nobody else sends; a receiving one a count that fits the       *)
(* lines, which stay as they are once a van has left.                      *)
(***************************************************************************)

\* What left with a van, read off its document alone.
OutAs(paper, l) ==
    CASE paper.state = "in_transit" -> paper.lines[l]
      [] paper.state = "confirmed" -> paper.lines[l] - paper.got[l]
      [] OTHER -> 0
AllOut(paper) == Sum([l \in Lines |-> OutAs(paper, l)])

\* The books of units, over figures as they are or as they will be.
Balanced(at, batches, papers, sold) ==
    /\ \A l \in Lots :
          Sum([p \in Places |-> batches[p][l]]) + Sum([v \in Vans |-> OutAs(papers[v], l)]) + sold[l]
             = Sum([p \in Places |-> FirstStock[p][l]])
    /\ Sum(at) + Sum([v \in Vans |-> AllOut(papers[v])]) + Sum(sold)
          = Sum([p \in Places |-> Sum(FirstStock[p])])

Papers == [state : {"none", "in_transit", "confirmed", "cancelled"},
           from : Places \cup {NoVan}, to : Places \cup {NoVan},
           lines : [Lines -> Nat], got : [Lines -> Nat]]

RequestStands(d) ==
    /\ d.at = "send" =>
          vans[d.van].state = "none" /\ Cardinality(d.packs) <= Sum(d.lines)
    /\ d.at = "receive" =>
          vans[d.van].state # "none" /\ d.count <= Sum(vans[d.van].lines)
    /\ d.at = "cancel" => vans[d.van].state # "none"

RequestsStand == \A c \in Loaders : RequestStands(loading[c])

OneSenderEach ==
    \A c, e \in Loaders :
        loading[c].at = "send" /\ loading[e].at = "send" /\ loading[c].van = loading[e].van => c = e

\* A document that was sent says from where and where to, and no more arrived
\* than was sent.
PapersStand ==
    \A v \in Vans :
        /\ vans[v].state # "none" => vans[v].from \in Places /\ vans[v].to \in Places
        /\ \A l \in Lines : vans[v].got[l] <= vans[v].lines[l]

TransferShapes == TransferTypeOK /\ loading = [c \in Loaders |-> loading[c]]

TransferInv ==
    /\ TransferShapes /\ PapersStand /\ RequestsStand /\ OneSenderEach
    /\ TransfersAccountedFor /\ PacksFollowGoods

-----------------------------------------------------------------------------
LEMMA LinesFinite == IsFiniteSet(Lines) /\ Lines \subseteq Int /\ Loose \notin Lots /\ Loose \in Lines
<1>1. IsFiniteSet(Lots) /\ \A l \in Lots : l \in Nat /\ l # Loose
    BY TransfersAssumption
<1>2. IsFiniteSet(Lots \cup {Loose})
    BY <1>1, FS_AddElement
<1> QED
    BY <1>1, <1>2, TransfersAssumption DEF Lines

LEMMA BooksNow == TransfersAccountedFor <=> Balanced(atPlace, lots, vans, soldFrom)
    BY DEF TransfersAccountedFor, Balanced, OutWith, OutAs, AllOut

LEMMA BooksThen == TransfersAccountedFor' <=> Balanced(atPlace', lots', vans', soldFrom')
    BY DEF TransfersAccountedFor, Balanced, OutWith, OutAs, AllOut

LEMMA OutIs == \A v \in Vans : Sum([l \in Lines |-> OutWith(v, l)]) = AllOut(vans[v])
    BY DEF OutWith, OutAs, AllOut

LEMMA OutWillBe == \A v \in Vans : Sum([l \in Lines |-> OutWith(v, l)])' = AllOut(vans'[v])
    BY DEF OutWith, OutAs, AllOut

LEMMA OutType ==
    ASSUME NEW paper \in Papers
    PROVE  /\ [l \in Lines |-> OutAs(paper, l)] \in [Lines -> Int]
           /\ \A l \in Lines : OutAs(paper, l) \in Int
           /\ AllOut(paper) \in Int
<1>1. \A l \in Lines : paper.lines[l] \in Nat /\ paper.got[l] \in Nat
    BY DEF Papers
<1>2. \A l \in Lines : OutAs(paper, l) \in Int
    BY <1>1 DEF OutAs
<1>3. [l \in Lines |-> OutAs(paper, l)] \in [Lines -> Int]
    BY <1>2
<1> QED
    BY <1>2, <1>3, LinesFinite, IntSum DEF AllOut

\* What a document stands for, by its state.
LEMMA OutOnRoad ==
    ASSUME NEW paper \in Papers, paper.state = "in_transit"
    PROVE  AllOut(paper) = Sum(paper.lines) /\ \A l \in Lines : OutAs(paper, l) = paper.lines[l]
<1>1. \A l \in Lines : OutAs(paper, l) = paper.lines[l]
    BY DEF OutAs
<1>2. paper.lines = [l \in Lines |-> paper.lines[l]]
    BY DEF Papers
<1>3. [l \in Lines |-> OutAs(paper, l)] = paper.lines
    BY <1>1, <1>2
<1> QED
    BY <1>1, <1>3 DEF AllOut

LEMMA OutArrived ==
    ASSUME NEW paper \in Papers, paper.state = "confirmed"
    PROVE  /\ AllOut(paper) = Sum(paper.lines) - Sum(paper.got)
           /\ \A l \in Lines : OutAs(paper, l) = paper.lines[l] - paper.got[l]
<1>1. \A l \in Lines : OutAs(paper, l) = paper.lines[l] - paper.got[l]
    BY DEF OutAs
<1>2. PICK k : k = [l \in Lines |-> OutAs(paper, l)]
    OBVIOUS
<1>3. paper.lines \in [Lines -> Int] /\ paper.got \in [Lines -> Int] /\ k \in [Lines -> Int]
    BY <1>2, OutType DEF Papers
<1>4. \A l \in Lines : k[l] = paper.lines[l] - paper.got[l]
    BY <1>1, <1>2
<1>5. LessEach(k, paper.lines, paper.got, Lines)
    BY <1>3, <1>4, LinesFinite DEF LessEach
<1>6. Sum(k) = Sum(paper.lines) - Sum(paper.got)
    BY <1>5, LessSum
<1> QED
    BY <1>1, <1>2, <1>6 DEF AllOut

LEMMA OutNowhere ==
    ASSUME NEW paper, paper.state \in {"none", "cancelled"}
    PROVE  AllOut(paper) = 0 /\ \A l \in Lines : OutAs(paper, l) = 0
<1>1. \A l \in Lines : OutAs(paper, l) = 0
    BY DEF OutAs
<1>2. PICK k : k = [l \in Lines |-> OutAs(paper, l)]
    OBVIOUS
<1>3. DOMAIN k = Lines /\ \A l \in DOMAIN k : k[l] = 0
    BY <1>1, <1>2
<1>4. Sum(k) = 0
    BY <1>3, LinesFinite, ZeroSum
<1> QED
    BY <1>1, <1>2, <1>4 DEF AllOut

\* What leaves one place with one van, or comes back from it, keeps the books.
Books == [at : [Places -> Int], batches : [Places -> [Lots -> Int]],
          papers : [Vans -> Papers], sold : [Lines -> Nat]]

BooksRight(b) == Balanced(b.at, b.batches, b.papers, b.sold)

OnePlaceOneVan(b, c, p, v) ==
    /\ b \in Books /\ c \in Books /\ p \in Places /\ v \in Vans
    /\ \A q \in Places \ {p} : c.at[q] = b.at[q] /\ c.batches[q] = b.batches[q]
    /\ \A w \in Vans \ {v} : c.papers[w] = b.papers[w]
    /\ c.at[p] + AllOut(c.papers[v]) = b.at[p] + AllOut(b.papers[v])
    /\ \A l \in Lots :
          c.batches[p][l] + OutAs(c.papers[v], l) = b.batches[p][l] + OutAs(b.papers[v], l)
    /\ c.sold = b.sold

LEMMA FiniteWorld == IsFiniteSet(Places) /\ IsFiniteSet(Vans) /\ \A l \in Lots : l \in Lines
    BY TransfersAssumption DEF Lines

LEMMA BookFigures ==
    ASSUME NEW b \in Books
    PROVE  /\ \A l \in Lots : [q \in Places |-> b.batches[q][l]] \in [Places -> Int]
           /\ \A l \in Lots : [w \in Vans |-> OutAs(b.papers[w], l)] \in [Vans -> Int]
           /\ [w \in Vans |-> AllOut(b.papers[w])] \in [Vans -> Int]
           /\ b.at \in [Places -> Int]
           /\ b.sold \in [Lines -> Int]
<1>1. \A q \in Places, l \in Lots : b.batches[q][l] \in Int
    BY DEF Books
<1>2. \A w \in Vans : b.papers[w] \in Papers
    BY DEF Books
<1>3. \A w \in Vans, l \in Lots : OutAs(b.papers[w], l) \in Int
    BY <1>2, FiniteWorld, OutType
<1>4. \A w \in Vans : AllOut(b.papers[w]) \in Int
    BY <1>2, OutType
<1>5. b.at \in [Places -> Int] /\ b.sold \in [Lines -> Int]
    BY DEF Books
<1> QED
    BY <1>1, <1>3, <1>4, <1>5

LEMMA RoadKeepsBooks ==
    ASSUME NEW b, NEW c, NEW p, NEW v, OnePlaceOneVan(b, c, p, v), BooksRight(b)
    PROVE  BooksRight(c)
<1>0. b \in Books /\ c \in Books /\ p \in Places /\ v \in Vans /\ c.sold = b.sold
    BY DEF OnePlaceOneVan
<1>1. ASSUME NEW l \in Lots
      PROVE  Sum([q \in Places |-> c.batches[q][l]]) + Sum([w \in Vans |-> OutAs(c.papers[w], l)]) + c.sold[l]
                = Sum([q \in Places |-> FirstStock[q][l]])
  <2>1. PICK f : f = [q \in Places |-> b.batches[q][l]]
      OBVIOUS
  <2>2. PICK h : h = [q \in Places |-> c.batches[q][l]]
      OBVIOUS
  <2>3. PICK e : e = [w \in Vans |-> OutAs(b.papers[w], l)]
      OBVIOUS
  <2>4. PICK k : k = [w \in Vans |-> OutAs(c.papers[w], l)]
      OBVIOUS
  <2>5. OneChanged(f, h, Places, p)
    <3>1. f \in [Places -> Int] /\ h \in [Places -> Int]
        BY <1>0, <2>1, <2>2, BookFigures
    <3>2. \A q \in Places \ {p} : h[q] = f[q]
        BY <2>1, <2>2 DEF OnePlaceOneVan
    <3> QED
        BY <1>0, <3>1, <3>2, FiniteWorld DEF OneChanged
  <2>6. OneChanged(e, k, Vans, v)
    <3>1. e \in [Vans -> Int] /\ k \in [Vans -> Int]
        BY <1>0, <2>3, <2>4, BookFigures
    <3>2. \A w \in Vans \ {v} : k[w] = e[w]
        BY <2>3, <2>4 DEF OnePlaceOneVan
    <3> QED
        BY <1>0, <3>1, <3>2, FiniteWorld DEF OneChanged
  <2>7. Sum(h) = Sum(f) + h[p] - f[p] /\ Sum(f) \in Int /\ Sum(h) \in Int
      BY <2>5, OneChanges
  <2>8. Sum(k) = Sum(e) + k[v] - e[v] /\ Sum(e) \in Int /\ Sum(k) \in Int
      BY <2>6, OneChanges
  <2>9. h[p] \in Int /\ k[v] \in Int /\ f[p] \in Int /\ e[v] \in Int
      BY <2>5, <2>6 DEF OneChanged
  <2>10. h[p] + k[v] = f[p] + e[v]
    <3>1. c.batches[p][l] + OutAs(c.papers[v], l) = b.batches[p][l] + OutAs(b.papers[v], l)
        BY DEF OnePlaceOneVan
    <3> QED
        BY <1>0, <2>1, <2>2, <2>3, <2>4, <3>1
  <2>11. b.sold[l] \in Int
      BY <1>0, FiniteWorld DEF Books
  <2>12. Sum(f) + Sum(e) + b.sold[l] = Sum([q \in Places |-> FirstStock[q][l]])
      BY <2>1, <2>3 DEF BooksRight, Balanced
  <2>13. Sum(h) + Sum(k) + b.sold[l] = Sum(f) + Sum(e) + b.sold[l]
      BY <2>7, <2>8, <2>9, <2>10, <2>11
  <2> QED
      BY <1>0, <2>2, <2>4, <2>12, <2>13
<1>2. Sum(c.at) + Sum([w \in Vans |-> AllOut(c.papers[w])]) + Sum(c.sold)
         = Sum([q \in Places |-> Sum(FirstStock[q])])
  <2>3. PICK e : e = [w \in Vans |-> AllOut(b.papers[w])]
      OBVIOUS
  <2>4. PICK k : k = [w \in Vans |-> AllOut(c.papers[w])]
      OBVIOUS
  <2>5. OneChanged(b.at, c.at, Places, p)
    <3>1. b.at \in [Places -> Int] /\ c.at \in [Places -> Int]
        BY <1>0, BookFigures
    <3>2. \A q \in Places \ {p} : c.at[q] = b.at[q]
        BY DEF OnePlaceOneVan
    <3> QED
        BY <1>0, <3>1, <3>2, FiniteWorld DEF OneChanged
  <2>6. OneChanged(e, k, Vans, v)
    <3>1. e \in [Vans -> Int] /\ k \in [Vans -> Int]
        BY <1>0, <2>3, <2>4, BookFigures
    <3>2. \A w \in Vans \ {v} : k[w] = e[w]
        BY <2>3, <2>4 DEF OnePlaceOneVan
    <3> QED
        BY <1>0, <3>1, <3>2, FiniteWorld DEF OneChanged
  <2>7. Sum(c.at) = Sum(b.at) + c.at[p] - b.at[p] /\ Sum(b.at) \in Int /\ Sum(c.at) \in Int
      BY <2>5, OneChanges
  <2>8. Sum(k) = Sum(e) + k[v] - e[v] /\ Sum(e) \in Int /\ Sum(k) \in Int
      BY <2>6, OneChanges
  <2>9. c.at[p] \in Int /\ k[v] \in Int /\ b.at[p] \in Int /\ e[v] \in Int
      BY <2>5, <2>6 DEF OneChanged
  <2>10. c.at[p] + k[v] = b.at[p] + e[v]
    <3>1. c.at[p] + AllOut(c.papers[v]) = b.at[p] + AllOut(b.papers[v])
        BY DEF OnePlaceOneVan
    <3> QED
        BY <1>0, <2>3, <2>4, <3>1
  <2>11. Sum(b.sold) \in Int
      BY <1>0, BookFigures, LinesFinite, IntSum
  <2>12. Sum(b.at) + Sum(e) + Sum(b.sold) = Sum([q \in Places |-> Sum(FirstStock[q])])
      BY <2>3 DEF BooksRight, Balanced
  <2>13. Sum(c.at) + Sum(k) + Sum(b.sold) = Sum(b.at) + Sum(e) + Sum(b.sold)
      BY <2>7, <2>8, <2>9, <2>10, <2>11
  <2> QED
      BY <1>0, <2>4, <2>12, <2>13
<1> QED
    BY <1>1, <1>2 DEF BooksRight, Balanced

\* A unit that is sold moves from a place to what was sold.
OneSold(b, c, p, line) ==
    /\ b \in Books /\ c \in Books /\ p \in Places /\ line \in Lines
    /\ \A q \in Places \ {p} : c.at[q] = b.at[q] /\ c.batches[q] = b.batches[q]
    /\ c.papers = b.papers
    /\ c.at[p] = b.at[p] - 1
    /\ \A l \in Lots :
          c.batches[p][l] = IF l = line THEN b.batches[p][l] - 1 ELSE b.batches[p][l]
    /\ \A l \in Lines : c.sold[l] = IF l = line THEN b.sold[l] + 1 ELSE b.sold[l]

LEMMA SaleKeepsBooks ==
    ASSUME NEW b, NEW c, NEW p, NEW line, OneSold(b, c, p, line), BooksRight(b)
    PROVE  BooksRight(c)
<1>0. b \in Books /\ c \in Books /\ p \in Places /\ line \in Lines /\ c.papers = b.papers
    BY DEF OneSold
<1>1. ASSUME NEW l \in Lots
      PROVE  Sum([q \in Places |-> c.batches[q][l]]) + Sum([w \in Vans |-> OutAs(c.papers[w], l)]) + c.sold[l]
                = Sum([q \in Places |-> FirstStock[q][l]])
  <2>1. PICK f : f = [q \in Places |-> b.batches[q][l]]
      OBVIOUS
  <2>2. PICK h : h = [q \in Places |-> c.batches[q][l]]
      OBVIOUS
  <2>3. PICK e : e = [w \in Vans |-> OutAs(b.papers[w], l)]
      OBVIOUS
  <2>5. OneChanged(f, h, Places, p)
    <3>1. f \in [Places -> Int] /\ h \in [Places -> Int]
        BY <1>0, <2>1, <2>2, BookFigures
    <3>2. \A q \in Places \ {p} : h[q] = f[q]
        BY <2>1, <2>2 DEF OneSold
    <3> QED
        BY <1>0, <3>1, <3>2, FiniteWorld DEF OneChanged
  <2>7. Sum(h) = Sum(f) + h[p] - f[p] /\ Sum(f) \in Int /\ Sum(h) \in Int
      BY <2>5, OneChanges
  <2>8. Sum(e) \in Int
      BY <1>0, <2>3, BookFigures, FiniteWorld, IntSum
  <2>9. h[p] \in Int /\ f[p] \in Int /\ c.sold[l] \in Int /\ b.sold[l] \in Int
    <3>1. c.sold[l] \in Int /\ b.sold[l] \in Int
        BY <1>0, FiniteWorld DEF Books
    <3> QED
        BY <2>5, <3>1 DEF OneChanged
  <2>10. h[p] + c.sold[l] = f[p] + b.sold[l]
    <3>1. c.batches[p][l] = IF l = line THEN b.batches[p][l] - 1 ELSE b.batches[p][l]
        BY DEF OneSold
    <3>2. c.sold[l] = IF l = line THEN b.sold[l] + 1 ELSE b.sold[l]
        BY FiniteWorld DEF OneSold
    <3>3. h[p] = c.batches[p][l] /\ f[p] = b.batches[p][l]
        BY <1>0, <2>1, <2>2
    <3> QED
        BY <2>9, <3>1, <3>2, <3>3
  <2>12. Sum(f) + Sum(e) + b.sold[l] = Sum([q \in Places |-> FirstStock[q][l]])
      BY <2>1, <2>3 DEF BooksRight, Balanced
  <2>13. Sum(h) + Sum(e) + c.sold[l] = Sum(f) + Sum(e) + b.sold[l]
      BY <2>7, <2>8, <2>9, <2>10
  <2> QED
      BY <1>0, <2>2, <2>3, <2>12, <2>13
<1>2. Sum(c.at) + Sum([w \in Vans |-> AllOut(c.papers[w])]) + Sum(c.sold)
         = Sum([q \in Places |-> Sum(FirstStock[q])])
  <2>3. PICK e : e = [w \in Vans |-> AllOut(b.papers[w])]
      OBVIOUS
  <2>5. OneChanged(b.at, c.at, Places, p)
    <3>1. b.at \in [Places -> Int] /\ c.at \in [Places -> Int]
        BY <1>0, BookFigures
    <3>2. \A q \in Places \ {p} : c.at[q] = b.at[q]
        BY DEF OneSold
    <3> QED
        BY <1>0, <3>1, <3>2, FiniteWorld DEF OneChanged
  <2>6. OneChanged(b.sold, c.sold, Lines, line)
    <3>1. b.sold \in [Lines -> Int] /\ c.sold \in [Lines -> Int]
        BY <1>0, BookFigures
    <3>2. \A l \in Lines \ {line} : c.sold[l] = b.sold[l]
        BY DEF OneSold
    <3> QED
        BY <1>0, <3>1, <3>2, LinesFinite DEF OneChanged
  <2>7. Sum(c.at) = Sum(b.at) + c.at[p] - b.at[p] /\ Sum(b.at) \in Int /\ Sum(c.at) \in Int
      BY <2>5, OneChanges
  <2>8. Sum(c.sold) = Sum(b.sold) + c.sold[line] - b.sold[line] /\ Sum(b.sold) \in Int /\ Sum(c.sold) \in Int
      BY <2>6, OneChanges
  <2>9. b.at[p] \in Int /\ b.sold[line] \in Int
      BY <2>5, <2>6 DEF OneChanged
  <2>10. c.at[p] = b.at[p] - 1 /\ c.sold[line] = b.sold[line] + 1
      BY <1>0 DEF OneSold
  <2>11. Sum(e) \in Int
      BY <1>0, <2>3, BookFigures, FiniteWorld, IntSum
  <2>12. Sum(b.at) + Sum(e) + Sum(b.sold) = Sum([q \in Places |-> Sum(FirstStock[q])])
      BY <2>3 DEF BooksRight, Balanced
  <2>13. Sum(c.at) + Sum(e) + Sum(c.sold) = Sum(b.at) + Sum(e) + Sum(b.sold)
      BY <2>7, <2>8, <2>9, <2>10, <2>11
  <2> QED
      BY <1>0, <2>3, <2>12, <2>13
<1> QED
    BY <1>1, <1>2 DEF BooksRight, Balanced

LEMMA RequestFields ==
    ASSUME NEW d \in TransferRequests \cup {NotLoading}
    PROVE  /\ d.at = "send" => /\ d.van \in Vans /\ d.from \in Places /\ d.to \in Places
                               /\ d.lines \in [Lines -> Nat] /\ d.packs \in SUBSET TravelPacks
           /\ d.at = "receive" => d.van \in Vans /\ d.count \in Nat
           /\ d.at = "cancel" => d.van \in Vans
    BY DEF TransferRequests, NotLoading

LEMMA VansTypes ==
    ASSUME TransferInv
    PROVE  /\ atPlace \in [Places -> Nat] /\ lots \in [Places -> [Lots -> Int]]
           /\ vans \in [Vans -> Papers] /\ soldFrom \in [Lines -> Nat]
    BY DEF TransferInv, TransferShapes, TransferTypeOK, Papers

LEMMA PacksFinite ==
    /\ \A S \in SUBSET TravelPacks : IsFiniteSet(S) /\ Cardinality(S) \in Nat
    /\ \A v : PacksOn(v) \in SUBSET TravelPacks
    /\ \A p : PacksAt(p) \in SUBSET TravelPacks
<1>1. \A S \in SUBSET TravelPacks : IsFiniteSet(S) /\ Cardinality(S) \in Nat
    BY TransfersAssumption, FS_Subset, FS_CardinalityType
<1> QED
    BY <1>1 DEF PacksOn, PacksAt

LEMMA RoadStep ==
    ASSUME TransferInv, TransferTypeOK', NEW p \in Places, NEW v \in Vans,
           \A q \in Places \ {p} : atPlace'[q] = atPlace[q] /\ lots'[q] = lots[q],
           \A w \in Vans \ {v} : vans'[w] = vans[w],
           atPlace'[p] + AllOut(vans'[v]) = atPlace[p] + AllOut(vans[v]),
           \A l \in Lots : lots'[p][l] + OutAs(vans'[v], l) = lots[p][l] + OutAs(vans[v], l),
           soldFrom' = soldFrom
    PROVE  TransfersAccountedFor'
<1>1. PICK b : b = [at |-> atPlace, batches |-> lots, papers |-> vans, sold |-> soldFrom]
    OBVIOUS
<1>2. PICK c : c = [at |-> atPlace', batches |-> lots', papers |-> vans', sold |-> soldFrom']
    OBVIOUS
<1>3. b \in Books
    BY <1>1, VansTypes DEF Books
<1>4. c \in Books
  <2>1. /\ atPlace' \in [Places -> Nat] /\ lots' \in [Places -> [Lots -> Int]]
        /\ vans' \in [Vans -> Papers] /\ soldFrom' \in [Lines -> Nat]
      BY DEF TransferTypeOK, Papers
  <2> QED
      BY <1>2, <2>1 DEF Books
<1>5. BooksRight(b)
    BY <1>1, BooksNow DEF BooksRight, TransferInv
<1>6. /\ b.at = atPlace /\ b.batches = lots /\ b.papers = vans /\ b.sold = soldFrom
      /\ c.at = atPlace' /\ c.batches = lots' /\ c.papers = vans' /\ c.sold = soldFrom'
    BY <1>1, <1>2
<1>7. OnePlaceOneVan(b, c, p, v)
    BY <1>3, <1>4, <1>6 DEF OnePlaceOneVan
<1>8. BooksRight(c)
    BY <1>5, <1>7, RoadKeepsBooks
<1> QED
    BY <1>6, <1>8, BooksThen DEF BooksRight

\* The requests that go on waiting find their documents as they need them.
LEMMA OthersGoOn ==
    ASSUME TransferInv, NEW c \in Loaders, loading' = [loading EXCEPT ![c] = NotLoading],
           \A w \in Vans : vans[w].state # "none" =>
               vans'[w].state # "none" /\ vans'[w].lines = vans[w].lines,
           \A w \in Vans : vans[w].state = "none" /\ vans'[w].state # "none" =>
               loading[c].at = "send" /\ loading[c].van = w
    PROVE  /\ RequestsStand' /\ OneSenderEach' /\ loading' = [e \in Loaders |-> loading'[e]]
           /\ \A e \in Loaders : loading'[e] \in TransferRequests \cup {NotLoading}
<1>1. loading = [e \in Loaders |-> loading[e]]
      /\ \A e \in Loaders : loading[e] \in TransferRequests \cup {NotLoading}
    BY DEF TransferInv, TransferShapes, TransferTypeOK
<1>2. \A e \in Loaders : loading'[e] = IF e = c THEN NotLoading ELSE loading[e]
    BY <1>1
<1>3. loading' = [e \in Loaders |-> loading'[e]]
    BY <1>1
<1>4. NotLoading.at = "idle"
    BY DEF NotLoading
<1>5. OneSenderEach'
    BY <1>2, <1>4 DEF TransferInv, OneSenderEach
<1>6. ASSUME NEW e \in Loaders PROVE RequestStands(loading[e])'
  <2>1. CASE e = c
      BY <1>2, <1>4, <2>1 DEF RequestStands
  <2>2. CASE e # c
    <3>1. PICK d : d = loading[e]
        OBVIOUS
    <3>2. loading'[e] = d /\ d \in TransferRequests \cup {NotLoading}
        BY <1>1, <1>2, <2>2, <3>1
    <3>3. RequestStands(d)
        BY <3>1 DEF TransferInv, RequestsStand
    <3>4. CASE d.at = "send"
      <4>1. d.van \in Vans /\ ~(loading[c].at = "send" /\ loading[c].van = d.van)
          BY <2>2, <3>1, <3>2, <3>4, RequestFields DEF TransferInv, OneSenderEach
      <4>2. vans'[d.van].state = "none"
          BY <3>3, <3>4, <4>1 DEF RequestStands
      <4> QED
          BY <3>2, <3>3, <3>4, <4>2 DEF RequestStands
    <3>5. CASE d.at = "receive"
        BY <3>2, <3>3, <3>5, RequestFields DEF RequestStands
    <3>6. CASE d.at = "cancel"
        BY <3>2, <3>3, <3>6, RequestFields DEF RequestStands
    <3> QED
        BY <3>2, <3>4, <3>5, <3>6 DEF RequestStands
  <2> QED
      BY <2>1, <2>2
<1>7. RequestsStand'
    BY <1>6 DEF RequestsStand
<1> QED
    BY <1>1, <1>2, <1>3, <1>5, <1>7

\* A request that is taken on, while nothing is written.
LEMMA OneMoreWaits ==
    ASSUME TransferInv, NEW c \in Loaders, NEW d \in TransferRequests,
           loading' = [loading EXCEPT ![c] = d], RequestStands(d),
           d.at = "send" => \A e \in Loaders : loading[e].at = "send" => loading[e].van # d.van,
           UNCHANGED <<atPlace, lots, hasPile, packs, vans, soldFrom>>
    PROVE  TransferInv'
<1>1. loading = [e \in Loaders |-> loading[e]]
      /\ \A e \in Loaders : loading[e] \in TransferRequests \cup {NotLoading}
    BY DEF TransferInv, TransferShapes, TransferTypeOK
<1>2. \A e \in Loaders : loading'[e] = IF e = c THEN d ELSE loading[e]
    BY <1>1
<1>3. loading' = [e \in Loaders |-> loading'[e]]
    BY <1>1
<1>4. OneSenderEach'
    BY <1>2 DEF TransferInv, OneSenderEach
<1>5. RequestsStand'
    BY <1>2 DEF TransferInv, RequestsStand, RequestStands
<1>6. \A e \in Loaders : loading'[e] \in TransferRequests \cup {NotLoading}
    BY <1>1, <1>2
<1>7. TransferTypeOK'
    BY <1>6 DEF TransferInv, TransferShapes, TransferTypeOK
<1>8. PapersStand' /\ PacksFollowGoods'
    BY DEF TransferInv, PapersStand, PacksFollowGoods, PacksOn, OutWith
<1>9. TransfersAccountedFor'
    BY BooksNow, BooksThen DEF TransferInv
<1> QED
    BY <1>3, <1>4, <1>5, <1>7, <1>8, <1>9 DEF TransferInv, TransferShapes

-----------------------------------------------------------------------------
\* One line for each batch and one for the rest: together what was asked for.
LEMMA LinesAddUp ==
    ASSUME NEW quantity \in Nat, NEW batches \in [Lots -> Int]
    PROVE  LinesFor(quantity, batches) \in [Lines -> Nat] /\ Sum(LinesFor(quantity, batches)) = quantity
<1>1. PICK taken : taken = InOrder(quantity, batches)
    OBVIOUS
<1>2. PICK k : k = LinesFor(quantity, batches)
    OBVIOUS
<1>3. PICK open : open = [b \in Lots |-> NotNegative(batches[b])]
    OBVIOUS
<1>4. IsFiniteSet(Lots) /\ Lots \subseteq Int
    BY TransfersAssumption
<1>5. taken \in [Lots -> Nat] /\ Sum(taken) = Lesser(Sum(open), quantity)
    BY <1>1, <1>3, <1>4, InOrderShares
<1>6. Sum(open) \in Nat
  <2>1. open \in [Lots -> Nat]
      BY <1>3 DEF NotNegative
  <2> QED
      BY <1>4, <2>1, NatSum
<1>7. Sum(taken) \in Nat /\ Sum(taken) <= quantity
    BY <1>5, <1>6 DEF Lesser
<1>8. k = [l \in Lines |-> IF l = Loose THEN quantity - Sum(taken) ELSE taken[l]]
    BY <1>1, <1>2 DEF LinesFor
<1>9. \A l \in Lines : k[l] \in Nat
    BY <1>5, <1>7, <1>8 DEF Lines
<1>10. k \in [Lines -> Nat]
    BY <1>8, <1>9
<1>11. Sum(k) = SumOver(k, Lots) + k[Loose]
  <2>1. Lots \cup {Loose} = Lines /\ DOMAIN k = Lines
      BY <1>8 DEF Lines
  <2>2. k[Loose] \in Int /\ \A l \in Lots : k[l] \in Int
      BY <1>9 DEF Lines
  <2>3. SumOver(k, Lots \cup {Loose}) = SumOver(k, Lots) + k[Loose]
      BY <1>4, <2>2, LinesFinite, SumOverAdd
  <2> QED
      BY <2>1, <2>3, SumIsOverDomain
<1>12. SumOver(k, Lots) = Sum(taken)
  <2>1. \A l \in Lots : k[l] = taken[l]
      BY <1>8, LinesFinite DEF Lines
  <2>2. SumOver(k, Lots) = SumOver(taken, Lots)
      BY <1>4, <2>1, SumOverSame
  <2>3. DOMAIN taken = Lots
      BY <1>5
  <2> QED
      BY <2>2, <2>3, SumIsOverDomain
<1>13. k[Loose] = quantity - Sum(taken)
    BY <1>8, LinesFinite
<1>14. Sum(k) = quantity
    BY <1>7, <1>11, <1>12, <1>13
<1> QED
    BY <1>2, <1>10, <1>14

LEMMA SendReadsHold ==
    ASSUME TransferInv, NEW c \in Loaders, NEW v \in Vans, NEW from \in Places, NEW to \in Places,
           NEW quantity \in 1..atPlace[from], SendReads(c, v, from, to, quantity)
    PROVE  TransferInv'
<1>1. quantity \in Nat
    BY VansTypes
<1>2. PICK chosen \in PickedCodes(quantity, PacksAt(from)) :
          loading' = [loading EXCEPT ![c] =
             [at |-> "send", van |-> v, from |-> from, to |-> to,
              lines |-> LinesFor(quantity, lots[from]), packs |-> chosen]]
    BY DEF SendReads
<1>3. PICK lines : lines = LinesFor(quantity, lots[from])
    OBVIOUS
<1>4. lines \in [Lines -> Nat] /\ Sum(lines) = quantity
  <2>1. lots[from] \in [Lots -> Int]
      BY VansTypes
  <2> QED
      BY <1>1, <1>3, <2>1, LinesAddUp
<1>5. chosen \in SUBSET TravelPacks /\ Cardinality(chosen) <= quantity
  <2>1. CASE PacksAt(from) = {}
    <3>1. chosen = {}
        BY <1>2, <2>1 DEF PickedCodes
    <3> QED
        BY <1>1, <3>1, FS_EmptySet
  <2>2. CASE PacksAt(from) # {}
    <3>1. chosen \in SUBSET PacksAt(from) /\ Cardinality(chosen) = quantity
        BY <1>2, <2>2 DEF PickedCodes
    <3> QED
        BY <1>1, <3>1, PacksFinite
  <2> QED
      BY <2>1, <2>2
<1>6. PICK d : d = [at |-> "send", van |-> v, from |-> from, to |-> to, lines |-> lines, packs |-> chosen]
    OBVIOUS
<1>7. d \in TransferRequests /\ d.at = "send" /\ d.van = v /\ d.lines = lines /\ d.packs = chosen
    BY <1>4, <1>5, <1>6 DEF TransferRequests
<1>8. vans[v].state = "none" /\ \A e \in Loaders : loading[e].at = "send" => loading[e].van # v
    BY DEF SendReads
<1>9. RequestStands(d)
    BY <1>4, <1>5, <1>7, <1>8 DEF RequestStands
<1>10. loading' = [loading EXCEPT ![c] = d]
    BY <1>2, <1>3, <1>6
<1>11. UNCHANGED <<atPlace, lots, hasPile, packs, vans, soldFrom>>
    BY DEF SendReads
<1> QED
    BY <1>7, <1>8, <1>9, <1>10, <1>11, OneMoreWaits

LEMMA ReceiveReadsHold ==
    ASSUME TransferInv, NEW c \in Loaders, NEW v \in Vans, NEW count \in CountsOf(v), ReceiveReads(c, v, count)
    PROVE  TransferInv'
<1>1. Sum(vans[v].lines) \in Nat
  <2>1. vans[v].lines \in [Lines -> Nat]
      BY VansTypes DEF Papers
  <2> QED
      BY <2>1, LinesFinite, NatSum
<1>2. count \in Nat /\ count <= Sum(vans[v].lines)
    BY <1>1 DEF CountsOf
<1>3. PICK d : d = [at |-> "receive", van |-> v, count |-> count]
    OBVIOUS
<1>4. d \in TransferRequests /\ d.at = "receive" /\ d.van = v /\ d.count = count
    BY <1>2, <1>3 DEF TransferRequests
<1>5. vans[v].state = "in_transit" /\ loading' = [loading EXCEPT ![c] = d]
      /\ UNCHANGED <<atPlace, lots, hasPile, packs, vans, soldFrom>>
    BY <1>3 DEF ReceiveReads
<1>6. RequestStands(d)
    BY <1>2, <1>4, <1>5 DEF RequestStands
<1> QED
    BY <1>4, <1>5, <1>6, OneMoreWaits

LEMMA CancelReadsHold ==
    ASSUME TransferInv, NEW c \in Loaders, NEW v \in Vans, CancelReads(c, v)
    PROVE  TransferInv'
<1>3. PICK d : d = [at |-> "cancel", van |-> v]
    OBVIOUS
<1>4. d \in TransferRequests /\ d.at = "cancel" /\ d.van = v
    BY <1>3 DEF TransferRequests
<1>5. vans[v].state = "in_transit" /\ loading' = [loading EXCEPT ![c] = d]
      /\ UNCHANGED <<atPlace, lots, hasPile, packs, vans, soldFrom>>
    BY <1>3 DEF CancelReads
<1>6. RequestStands(d)
    BY <1>4, <1>5 DEF RequestStands
<1> QED
    BY <1>4, <1>5, <1>6, OneMoreWaits

\* A request that comes to nothing.
LEMMA NothingWritten ==
    ASSUME TransferInv, NEW c \in Loaders, loading' = [loading EXCEPT ![c] = NotLoading],
           UNCHANGED <<atPlace, lots, hasPile, packs, vans, soldFrom>>
    PROVE  TransferInv'
<1>1. /\ RequestsStand' /\ OneSenderEach' /\ loading' = [e \in Loaders |-> loading'[e]]
      /\ \A e \in Loaders : loading'[e] \in TransferRequests \cup {NotLoading}
    BY OthersGoOn
<1>2. TransferTypeOK'
    BY <1>1 DEF TransferInv, TransferShapes, TransferTypeOK
<1>3. PapersStand' /\ PacksFollowGoods'
    BY DEF TransferInv, PapersStand, PacksFollowGoods, PacksOn, OutWith
<1>4. TransfersAccountedFor'
    BY BooksNow, BooksThen DEF TransferInv
<1> QED
    BY <1>1, <1>2, <1>3, <1>4 DEF TransferInv, TransferShapes

\* Packs follow when they do on the van that moves.
LEMMA OtherVansKeepPacks ==
    ASSUME TransferInv, NEW v \in Vans, \A w \in Vans \ {v} : vans'[w] = vans[w],
           \A w \in Vans \ {v} : PacksOn(w)' = PacksOn(w),
           Cardinality(PacksOn(v)') <= AllOut(vans'[v])
    PROVE  PacksFollowGoods'
<1>1. \A w \in Vans : Cardinality(PacksOn(w)') <= AllOut(vans'[w])
    BY OutIs DEF TransferInv, PacksFollowGoods
<1> QED
    BY <1>1, OutWillBe DEF PacksFollowGoods

LEMMA SendCommitsHold ==
    ASSUME TransferInv, NEW c \in Loaders, SendCommits(c)
    PROVE  TransferInv'
<1>1. PICK d : d = loading[c]
    OBVIOUS
<1>2. d \in TransferRequests \cup {NotLoading} /\ d.at = "send" /\ RequestStands(d)
    BY <1>1 DEF SendCommits, TransferInv, TransferShapes, TransferTypeOK, RequestsStand
<1>3. /\ d.van \in Vans /\ d.from \in Places /\ d.to \in Places
      /\ d.lines \in [Lines -> Nat] /\ d.packs \in SUBSET TravelPacks
    BY <1>2, RequestFields
<1>4. loading' = [loading EXCEPT ![c] = NotLoading] /\ hasPile' = hasPile /\ soldFrom' = soldFrom
    BY DEF SendCommits
<1>5. CASE ~SendGoesThrough(d)
  <2>1. UNCHANGED <<atPlace, lots, packs, vans>>
      BY <1>1, <1>5 DEF SendCommits
  <2> QED
      BY <1>4, <2>1, NothingWritten
<1>6. CASE SendGoesThrough(d)
  <2> DEFINE paper == [state |-> "in_transit", from |-> d.from, to |-> d.to,
                       lines |-> d.lines, got |-> NoLines]
  <2>1. /\ atPlace' = [atPlace EXCEPT ![d.from] = @ - Sum(d.lines)]
        /\ lots' = [lots EXCEPT ![d.from] = [l \in Lots |-> @[l] - d.lines[l]]]
        /\ packs' = [k \in TravelPacks |->
              IF k \in d.packs THEN [packs[k] EXCEPT !.state = "in_transit", !.van = d.van]
               ELSE packs[k]]
        /\ vans' = [vans EXCEPT ![d.van] = paper]
      BY <1>1, <1>6 DEF SendCommits
  <2>2. Sum(d.lines) \in Nat /\ atPlace[d.from] \in Nat /\ Sum(d.lines) <= atPlace[d.from]
      BY <1>3, <1>6, LinesFinite, NatSum, VansTypes DEF SendGoesThrough
  <2>3. atPlace' \in [Places -> Nat]
    <3>1. atPlace[d.from] - Sum(d.lines) \in Nat
        BY <2>2
    <3>2. atPlace \in [Places -> Nat]
        BY VansTypes
    <3> QED
        BY <1>3, <2>1, <3>1, <3>2
  <2>4. paper \in Papers /\ paper.state = "in_transit" /\ paper.lines = d.lines
        /\ paper.from = d.from /\ paper.to = d.to /\ paper.got = NoLines
      BY <1>3 DEF Papers, NoLines
  <2> HIDE DEF paper
  <2>5. vans' \in [Vans -> Papers]
      BY <2>1, <2>4, VansTypes
  <2>6. \A l \in Lots : l \in Lines /\ d.lines[l] \in Int /\ lots[d.from][l] \in Int
      BY <1>3, VansTypes, FiniteWorld
  <2>7. lots' \in [Places -> [Lots -> Int]]
    <3>1. [l \in Lots |-> lots[d.from][l] - d.lines[l]] \in [Lots -> Int]
        BY <2>6
    <3> QED
        BY <1>3, <2>1, <3>1, VansTypes
  <2>8. packs' \in [TravelPacks ->
           [state : {"in_stock", "in_transit", "sold"}, at : Places, van : Vans \cup {NoVan}]]
    <3>1. packs \in [TravelPacks ->
             [state : {"in_stock", "in_transit", "sold"}, at : Places, van : Vans \cup {NoVan}]]
        BY DEF TransferInv, TransferShapes, TransferTypeOK
    <3>2. ASSUME NEW k \in TravelPacks
          PROVE  packs'[k] \in [state : {"in_stock", "in_transit", "sold"}, at : Places, van : Vans \cup {NoVan}]
      <4>1. PICK r : r = packs[k]
          OBVIOUS
      <4>2. r \in [state : {"in_stock", "in_transit", "sold"}, at : Places, van : Vans \cup {NoVan}]
          BY <3>1, <4>1
      <4>3. [r EXCEPT !.state = "in_transit", !.van = d.van]
               \in [state : {"in_stock", "in_transit", "sold"}, at : Places, van : Vans \cup {NoVan}]
          BY <1>3, <4>2
      <4> QED
          BY <2>1, <4>1, <4>2, <4>3
    <3> QED
        BY <2>1, <3>2
  <2>9. vans[d.van].state = "none" /\ Cardinality(d.packs) <= Sum(d.lines)
      BY <1>2 DEF RequestStands
  <2>10. /\ RequestsStand' /\ OneSenderEach' /\ loading' = [e \in Loaders |-> loading'[e]]
         /\ \A e \in Loaders : loading'[e] \in TransferRequests \cup {NotLoading}
    <3>1. \A w \in Vans \ {d.van} : vans'[w] = vans[w]
        BY <2>1, VansTypes
    <3> QED
        BY <1>1, <1>2, <1>3, <1>4, <2>9, <3>1, OthersGoOn
  <2>11. TransferTypeOK'
    <3>1. hasPile' \in SUBSET Places /\ soldFrom' \in [Lines -> Nat]
        BY <1>4 DEF TransferInv, TransferShapes, TransferTypeOK
    <3> QED
        BY <2>3, <2>5, <2>7, <2>8, <2>10, <3>1 DEF TransferTypeOK, Papers
  <2>12. vans'[d.van] = paper /\ \A w \in Vans \ {d.van} : vans'[w] = vans[w]
      BY <1>3, <2>1, VansTypes
  <2>13. PapersStand'
    <3>1. \A l \in Lines : paper.got[l] <= paper.lines[l]
        BY <1>3, <2>4 DEF NoLines
    <3>2. PapersStand
        BY DEF TransferInv
    <3>3. \A w \in Vans : IF w = d.van THEN vans'[w] = paper ELSE vans'[w] = vans[w]
        BY <2>12
    <3> QED
        BY <1>3, <2>4, <3>1, <3>2, <3>3 DEF PapersStand
  <2>14. AllOut(vans[d.van]) = 0 /\ \A l \in Lines : OutAs(vans[d.van], l) = 0
      BY <2>9, OutNowhere
  <2>15. AllOut(paper) = Sum(d.lines) /\ \A l \in Lines : OutAs(paper, l) = d.lines[l]
      BY <2>4, OutOnRoad
  <2>16. TransfersAccountedFor'
    <3>1. /\ atPlace'[d.from] = atPlace[d.from] - Sum(d.lines)
          /\ \A q \in Places \ {d.from} : atPlace'[q] = atPlace[q] /\ lots'[q] = lots[q]
          /\ lots'[d.from] = [l \in Lots |-> lots[d.from][l] - d.lines[l]]
        BY <1>3, <2>1, VansTypes
    <3>2. atPlace'[d.from] + AllOut(vans'[d.van]) = atPlace[d.from] + AllOut(vans[d.van])
        BY <2>2, <2>12, <2>14, <2>15, <3>1
    <3>3. \A l \in Lots :
             lots'[d.from][l] + OutAs(vans'[d.van], l) = lots[d.from][l] + OutAs(vans[d.van], l)
      <4> SUFFICES ASSUME NEW l \in Lots
                   PROVE  lots'[d.from][l] + OutAs(vans'[d.van], l) = lots[d.from][l] + OutAs(vans[d.van], l)
          OBVIOUS
      <4>1. OutAs(vans'[d.van], l) = d.lines[l] /\ OutAs(vans[d.van], l) = 0
          BY <2>6, <2>12, <2>14, <2>15
      <4>2. lots'[d.from][l] = lots[d.from][l] - d.lines[l]
          BY <3>1
      <4> QED
          BY <2>6, <4>1, <4>2
    <3> QED
        BY <1>3, <1>4, <2>11, <2>12, <3>1, <3>2, <3>3, RoadStep
  <2>17. PacksFollowGoods'
    <3>1. PacksOn(d.van) = {}
      <4>1. Cardinality(PacksOn(d.van)) <= 0
          BY <1>3, <2>14, OutIs DEF TransferInv, PacksFollowGoods
      <4>2. IsFiniteSet(PacksOn(d.van)) /\ Cardinality(PacksOn(d.van)) \in Nat
          BY PacksFinite
      <4>3. Cardinality(PacksOn(d.van)) = 0
          BY <4>1, <4>2
      <4> QED
          BY <4>2, <4>3, FS_EmptySet
    <3>2. \A k \in TravelPacks :
             packs'[k] = IF k \in d.packs THEN [packs[k] EXCEPT !.state = "in_transit", !.van = d.van] ELSE packs[k]
        BY <2>1
    <3>3. packs \in [TravelPacks ->
             [state : {"in_stock", "in_transit", "sold"}, at : Places, van : Vans \cup {NoVan}]]
        BY DEF TransferInv, TransferShapes, TransferTypeOK
    <3>4. \A k \in d.packs : packs'[k].state = "in_transit" /\ packs'[k].van = d.van /\ packs[k].state = "in_stock"
      <4>1. \A k \in d.packs : k \in TravelPacks /\ packs[k].state = "in_stock"
          BY <1>3, <1>6 DEF SendGoesThrough
      <4> QED
          BY <3>2, <3>3, <4>1
    <3>5. \A k \in TravelPacks \ d.packs : packs'[k] = packs[k]
        BY <3>2
    <3>6. PacksOn(d.van)' = d.packs
        BY <1>3, <3>1, <3>4, <3>5 DEF PacksOn
    <3>7. \A w \in Vans \ {d.van} : PacksOn(w)' = PacksOn(w)
        BY <1>3, <3>4, <3>5 DEF PacksOn
    <3>8. Cardinality(PacksOn(d.van)') <= AllOut(vans'[d.van])
        BY <2>9, <2>12, <2>15, <3>6
    <3> QED
        BY <1>3, <2>12, <3>7, <3>8, OtherVansKeepPacks
  <2> QED
      BY <2>10, <2>11, <2>13, <2>16, <2>17 DEF TransferInv, TransferShapes
<1> QED
    BY <1>5, <1>6

PackBook == [TravelPacks ->
    [state : {"in_stock", "in_transit", "sold"}, at : Places, van : Vans \cup {NoVan}]]

LEMMA PacksLand ==
    ASSUME TransferInv, NEW v \in Vans, NEW p \in Places, NEW landing \in SUBSET PacksOn(v),
           packs' = [k \in TravelPacks |->
               IF k \in landing THEN [state |-> "in_stock", at |-> p, van |-> NoVan] ELSE packs[k]]
    PROVE  /\ packs' \in PackBook
           /\ PacksOn(v)' = PacksOn(v) \ landing
           /\ \A w \in Vans \ {v} : PacksOn(w)' = PacksOn(w)
<1>1. packs \in PackBook
    BY DEF TransferInv, TransferShapes, TransferTypeOK, PackBook
<1>2. [state |-> "in_stock", at |-> p, van |-> NoVan]
         \in [state : {"in_stock", "in_transit", "sold"}, at : Places, van : Vans \cup {NoVan}]
    OBVIOUS
<1>3. packs' \in PackBook
    BY <1>1, <1>2 DEF PackBook
<1>4. \A k \in landing : packs'[k].state = "in_stock" /\ k \in PacksOn(v)
    BY DEF PacksOn
<1>5. \A k \in TravelPacks \ landing : packs'[k] = packs[k]
    OBVIOUS
<1>6. PacksOn(v)' = PacksOn(v) \ landing
    BY <1>4, <1>5 DEF PacksOn
<1>7. \A w \in Vans \ {v} : PacksOn(w)' = PacksOn(w)
    BY <1>4, <1>5 DEF PacksOn
<1> QED
    BY <1>3, <1>6, <1>7

\* A van closes: its goods go to one place and its packs with them.
VanCloses(v, p, paper, units, batch) ==
    /\ v \in Vans /\ p \in Places /\ vans[v].state = "in_transit"
    /\ paper \in Papers /\ paper.state # "none" /\ paper.lines = vans[v].lines
    /\ paper.from = vans[v].from /\ paper.to = vans[v].to
    /\ \A l \in Lines : paper.got[l] <= paper.lines[l]
    /\ units \in Nat /\ batch \in [Lots -> Int]
    /\ vans' = [vans EXCEPT ![v] = paper]
    /\ atPlace' = [atPlace EXCEPT ![p] = @ + units]
    /\ lots' = [lots EXCEPT ![p] = [l \in Lots |-> @[l] + batch[l]]]
    /\ units + AllOut(paper) = AllOut(vans[v])
    /\ \A l \in Lots : batch[l] + OutAs(paper, l) = OutAs(vans[v], l)
    /\ hasPile' \in SUBSET Places

PacksLeaveVan(v, p, paper, landing) ==
    /\ landing \in SUBSET PacksOn(v)
    /\ packs' = [k \in TravelPacks |->
          IF k \in landing THEN [state |-> "in_stock", at |-> p, van |-> NoVan] ELSE packs[k]]
    /\ Cardinality(PacksOn(v) \ landing) <= AllOut(paper)

RequestEnds(c) ==
    /\ c \in Loaders /\ loading[c].at # "send"
    /\ loading' = [loading EXCEPT ![c] = NotLoading] /\ soldFrom' = soldFrom

LEMMA ClosingHolds ==
    ASSUME TransferInv, NEW c, RequestEnds(c), NEW v, NEW p, NEW paper, NEW units, NEW batch,
           VanCloses(v, p, paper, units, batch), NEW landing, PacksLeaveVan(v, p, paper, landing)
    PROVE  TransferInv'
<1>0. /\ c \in Loaders /\ loading[c].at # "send"
      /\ loading' = [loading EXCEPT ![c] = NotLoading] /\ soldFrom' = soldFrom
    BY DEF RequestEnds
<1>1. /\ v \in Vans /\ p \in Places /\ vans[v].state = "in_transit"
      /\ paper \in Papers /\ paper.state # "none" /\ paper.lines = vans[v].lines
      /\ units \in Nat /\ batch \in [Lots -> Int]
    BY DEF VanCloses
<1>2. /\ vans' = [vans EXCEPT ![v] = paper]
      /\ atPlace' = [atPlace EXCEPT ![p] = @ + units]
      /\ lots' = [lots EXCEPT ![p] = [l \in Lots |-> @[l] + batch[l]]]
    BY DEF VanCloses
<1>3. vans' \in [Vans -> Papers] /\ vans'[v] = paper /\ \A w \in Vans \ {v} : vans'[w] = vans[w]
    BY <1>1, <1>2, VansTypes
<1>4. /\ RequestsStand' /\ OneSenderEach' /\ loading' = [e \in Loaders |-> loading'[e]]
      /\ \A e \in Loaders : loading'[e] \in TransferRequests \cup {NotLoading}
    BY <1>0, <1>1, <1>3, OthersGoOn
<1>5. atPlace' \in [Places -> Nat] /\ atPlace'[p] = atPlace[p] + units
      /\ \A q \in Places \ {p} : atPlace'[q] = atPlace[q]
  <2>1. atPlace \in [Places -> Nat]
      BY VansTypes
  <2>2. atPlace[p] + units \in Nat
      BY <1>1, <2>1
  <2> QED
      BY <1>1, <1>2, <2>1, <2>2
<1>6. lots' \in [Places -> [Lots -> Int]] /\ lots'[p] = [l \in Lots |-> lots[p][l] + batch[l]]
      /\ \A q \in Places \ {p} : lots'[q] = lots[q]
  <2>1. lots \in [Places -> [Lots -> Int]]
      BY VansTypes
  <2>2. \A l \in Lots : lots[p][l] + batch[l] \in Int
      BY <1>1, <2>1
  <2>3. [l \in Lots |-> lots[p][l] + batch[l]] \in [Lots -> Int]
      BY <2>2
  <2> QED
      BY <1>1, <1>2, <2>1, <2>3
<1>7. /\ packs' \in PackBook
      /\ PacksOn(v)' = PacksOn(v) \ landing
      /\ \A w \in Vans \ {v} : PacksOn(w)' = PacksOn(w)
    BY <1>1, PacksLand DEF PacksLeaveVan
<1>8. TransferTypeOK'
  <2>1. hasPile' \in SUBSET Places /\ soldFrom' \in [Lines -> Nat]
      BY <1>0 DEF VanCloses, TransferInv, TransferShapes, TransferTypeOK
  <2> QED
      BY <1>3, <1>4, <1>5, <1>6, <1>7, <2>1 DEF TransferTypeOK, Papers, PackBook
<1>9. PapersStand'
  <2>1. paper.from = vans[v].from /\ paper.to = vans[v].to
        /\ \A l \in Lines : paper.got[l] <= paper.lines[l]
      BY DEF VanCloses
  <2>2. PapersStand
      BY DEF TransferInv
  <2>3. \A w \in Vans : IF w = v THEN vans'[w] = paper ELSE vans'[w] = vans[w]
      BY <1>3
  <2> QED
      BY <1>1, <2>1, <2>2, <2>3 DEF PapersStand
<1>10. TransfersAccountedFor'
  <2>1. units + AllOut(paper) = AllOut(vans[v])
        /\ \A l \in Lots : batch[l] + OutAs(paper, l) = OutAs(vans[v], l)
      BY DEF VanCloses
  <2>2. vans[v] \in Papers
      BY <1>1, VansTypes
  <2>3. atPlace'[p] + AllOut(vans'[v]) = atPlace[p] + AllOut(vans[v])
    <3>1. AllOut(paper) \in Int /\ AllOut(vans[v]) \in Int /\ atPlace[p] \in Int
        BY <1>1, <2>2, OutType, VansTypes
    <3> QED
        BY <1>1, <1>3, <1>5, <2>1, <3>1
  <2>4. \A l \in Lots : lots'[p][l] + OutAs(vans'[v], l) = lots[p][l] + OutAs(vans[v], l)
    <3> SUFFICES ASSUME NEW l \in Lots
                 PROVE  lots'[p][l] + OutAs(vans'[v], l) = lots[p][l] + OutAs(vans[v], l)
        OBVIOUS
    <3>1. OutAs(paper, l) \in Int /\ OutAs(vans[v], l) \in Int
        BY <1>1, <2>2, FiniteWorld, OutType
    <3>2. lots[p][l] \in Int /\ batch[l] \in Int
        BY <1>1, VansTypes
    <3>3. lots'[p][l] = lots[p][l] + batch[l]
        BY <1>6
    <3>4. batch[l] + OutAs(paper, l) = OutAs(vans[v], l)
        BY <2>1
    <3> QED
        BY <1>3, <3>1, <3>2, <3>3, <3>4
  <2> QED
      BY <1>0, <1>1, <1>3, <1>5, <1>6, <1>8, <2>3, <2>4, RoadStep
<1>11. PacksFollowGoods'
  <2>1. Cardinality(PacksOn(v)') <= AllOut(vans'[v])
      BY <1>3, <1>7 DEF PacksLeaveVan
  <2> QED
      BY <1>1, <1>3, <1>7, <2>1, OtherVansKeepPacks
<1> QED
    BY <1>4, <1>8, <1>9, <1>10, <1>11 DEF TransferInv, TransferShapes

LEMMA ReceiveCommitsHold ==
    ASSUME TransferInv, NEW c \in Loaders, ReceiveCommits(c)
    PROVE  TransferInv'
<1>1. PICK d : d = loading[c]
    OBVIOUS
<1>2. d \in TransferRequests \cup {NotLoading} /\ d.at = "receive" /\ RequestStands(d)
    BY <1>1 DEF ReceiveCommits, TransferInv, TransferShapes, TransferTypeOK, RequestsStand
<1>3. d.van \in Vans /\ d.count \in Nat /\ d.count <= Sum(vans[d.van].lines)
    BY <1>2, RequestFields DEF RequestStands
<1>4. loading' = [loading EXCEPT ![c] = NotLoading] /\ soldFrom' = soldFrom
    BY DEF ReceiveCommits
<1>5. CASE ~ClaimsVan(d.van)
  <2>1. UNCHANGED <<atPlace, lots, hasPile, packs, vans>>
      BY <1>1, <1>5 DEF ReceiveCommits
  <2> QED
      BY <1>4, <2>1, NothingWritten
<1>6. CASE ClaimsVan(d.van)
  <2>1. PICK v : v = vans[d.van]
      OBVIOUS
  <2>2. PICK got : got = InOrder(d.count, v.lines)
      OBVIOUS
  <2>3. v \in Papers /\ v.state = "in_transit" /\ v.lines \in [Lines -> Nat]
      BY <1>3, <1>6, <2>1, VansTypes DEF ClaimsVan, Papers
  <2>4. got \in [Lines -> Nat] /\ (\A l \in Lines : got[l] <= v.lines[l]) /\ Sum(got) = d.count
        /\ Sum(v.lines) \in Nat
    <3>1. PICK open : open = [l \in Lines |-> NotNegative(v.lines[l])]
        OBVIOUS
    <3>2. \A l \in Lines : NotNegative(v.lines[l]) = v.lines[l]
        BY <2>3 DEF NotNegative
    <3>3. open = v.lines
        BY <2>3, <3>1, <3>2
    <3>4. Sum(v.lines) \in Nat
        BY <2>3, LinesFinite, NatSum
    <3>5. PICK lines : lines = v.lines
        OBVIOUS
    <3>6. /\ got \in [Lines -> Nat]
          /\ \A l \in Lines : got[l] <= NotNegative(v.lines[l])
          /\ Sum(got) = Lesser(Sum(open), d.count)
      <4>1. lines \in [Lines -> Int]
          BY <2>3, <3>5
      <4>2. PICK n : n = d.count
          OBVIOUS
      <4>3. n \in Nat
          BY <1>3, <4>2
      <4>4. IsFiniteSet(Lines) /\ Lines \subseteq Int
          BY LinesFinite
      <4>5. /\ InOrder(n, lines) \in [Lines -> Nat]
            /\ \A b \in Lines : InOrder(n, lines)[b] <= NotNegative(lines[b])
            /\ Sum(InOrder(n, lines)) = Lesser(Sum([b \in Lines |-> NotNegative(lines[b])]), n)
          BY <4>1, <4>3, <4>4, InOrderShares
      <4> QED
          BY <2>2, <3>1, <3>5, <4>2, <4>5
    <3>7. Sum(got) = d.count
        BY <1>3, <2>1, <3>3, <3>4, <3>6 DEF Lesser
    <3> QED
        BY <3>2, <3>4, <3>6, <3>7
  <2>5. /\ vans' = [vans EXCEPT ![d.van].state = "confirmed", ![d.van].got = got]
        /\ atPlace' = [atPlace EXCEPT ![v.to] = @ + d.count]
        /\ lots' = [lots EXCEPT ![v.to] = [l \in Lots |-> @[l] + got[l]]]
        /\ hasPile' = IF d.count > 0 THEN hasPile \cup {v.to} ELSE hasPile
      BY <1>1, <1>6, <2>1, <2>2 DEF ReceiveCommits
  <2>6. PICK landing \in LandingPacks(PacksOn(d.van), d.count) :
           packs' = [k \in TravelPacks |->
              IF k \in landing THEN [state |-> "in_stock", at |-> v.to, van |-> NoVan] ELSE packs[k]]
    <3>1. \E landing \in LandingPacks(PacksOn(loading[c].van), loading[c].count) :
             packs' = [k \in TravelPacks |->
                IF k \in landing
                THEN [state |-> "in_stock", at |-> vans[loading[c].van].to, van |-> NoVan]
                ELSE packs[k]]
        BY <1>1, <1>6 DEF ReceiveCommits
    <3>2. loading[c].van = d.van /\ loading[c].count = d.count /\ vans[loading[c].van].to = v.to
        BY <1>1, <2>1
    <3> QED
        BY <3>1, <3>2
  <2>7. landing \in SUBSET PacksOn(d.van)
        /\ Cardinality(landing) = Lesser(Cardinality(PacksOn(d.van)), d.count)
      BY DEF LandingPacks, kSubset
  <2>8. PICK paper : paper = [v EXCEPT !.state = "confirmed", !.got = got]
      OBVIOUS
  <2>9. paper \in Papers /\ paper.state = "confirmed" /\ paper.lines = v.lines /\ paper.got = got
        /\ paper.from = v.from /\ paper.to = v.to
      BY <2>3, <2>4, <2>8 DEF Papers
  <2>10. vans' = [vans EXCEPT ![d.van] = paper]
      BY <1>3, <2>1, <2>5, <2>8, VansTypes
  <2>11. v.to \in Places
      BY <1>3, <2>1, <2>3 DEF TransferInv, PapersStand
  <2>12. AllOut(v) = Sum(v.lines) /\ \A l \in Lines : OutAs(v, l) = v.lines[l]
      BY <2>3, OutOnRoad
  <2>13. AllOut(paper) = Sum(v.lines) - d.count /\ \A l \in Lines : OutAs(paper, l) = v.lines[l] - got[l]
      BY <2>4, <2>9, OutArrived
  <2>14. PICK batch : batch = [l \in Lots |-> got[l]]
      OBVIOUS
  <2>15. batch \in [Lots -> Int] /\ \A l \in Lots : batch[l] = got[l]
      BY <2>4, <2>14, FiniteWorld
  <2>16. d.count + AllOut(paper) = AllOut(v)
      BY <1>3, <2>4, <2>12, <2>13
  <2>17. \A l \in Lots : batch[l] + OutAs(paper, l) = OutAs(v, l)
    <3> SUFFICES ASSUME NEW l \in Lots PROVE batch[l] + OutAs(paper, l) = OutAs(v, l)
        OBVIOUS
    <3>1. l \in Lines
        BY FiniteWorld
    <3>2. got[l] \in Nat /\ v.lines[l] \in Nat
        BY <2>3, <2>4, <3>1
    <3>3. OutAs(paper, l) = v.lines[l] - got[l] /\ OutAs(v, l) = v.lines[l] /\ batch[l] = got[l]
        BY <2>12, <2>13, <2>15, <3>1
    <3> QED
        BY <3>2, <3>3
  <2>18. VanCloses(d.van, v.to, paper, d.count, batch)
    <3>1. lots' = [lots EXCEPT ![v.to] = [l \in Lots |-> @[l] + batch[l]]]
      <4>1. [l \in Lots |-> lots[v.to][l] + got[l]] = [l \in Lots |-> lots[v.to][l] + batch[l]]
          BY <2>15
      <4> QED
          BY <2>5, <4>1
    <3>2. hasPile' \in SUBSET Places
        BY <2>5, <2>11 DEF TransferInv, TransferShapes, TransferTypeOK
    <3>3. \A l \in Lines : paper.got[l] <= paper.lines[l]
        BY <2>4, <2>9
    <3> QED
        BY <1>3, <2>1, <2>3, <2>5, <2>9, <2>10, <2>11, <2>15, <2>16, <2>17, <3>1, <3>2, <3>3 DEF VanCloses
  <2>19. Cardinality(PacksOn(d.van) \ landing) <= AllOut(paper)
    <3>1. PICK S : S = PacksOn(d.van)
        OBVIOUS
    <3>2. IsFiniteSet(S) /\ Cardinality(S) \in Nat /\ Cardinality(S) <= Sum(v.lines)
      <4>1. Cardinality(S) <= AllOut(v)
          BY <1>3, <2>1, <3>1, OutIs DEF TransferInv, PacksFollowGoods
      <4> QED
          BY <2>12, <3>1, <4>1, PacksFinite
    <3>3. landing \subseteq S /\ Cardinality(landing) = Lesser(Cardinality(S), d.count)
        BY <2>7, <3>1
    <3>4. Cardinality(S \ landing) = Cardinality(S) - Cardinality(landing)
      <4>1. IsFiniteSet(landing)
          BY <3>2, <3>3, FS_Subset
      <4>2. S \cap landing = landing
          BY <3>3
      <4> QED
          BY <3>2, <4>1, <4>2, FS_Difference
    <3>5. Cardinality(S \ landing) <= Sum(v.lines) - d.count
        BY <1>3, <2>1, <2>4, <3>2, <3>3, <3>4 DEF Lesser
    <3> QED
        BY <2>13, <3>1, <3>5
  <2>20. RequestEnds(c)
      BY <1>1, <1>2, <1>4 DEF RequestEnds
  <2>21. PacksLeaveVan(d.van, v.to, paper, landing)
      BY <2>6, <2>7, <2>19 DEF PacksLeaveVan
  <2> QED
      BY <2>18, <2>20, <2>21, ClosingHolds
<1> QED
    BY <1>5, <1>6

LEMMA CancelCommitsHold ==
    ASSUME TransferInv, NEW c \in Loaders, CancelCommits(c)
    PROVE  TransferInv'
<1>1. PICK d : d = loading[c]
    OBVIOUS
<1>2. d \in TransferRequests \cup {NotLoading} /\ d.at = "cancel"
    BY <1>1 DEF CancelCommits, TransferInv, TransferShapes, TransferTypeOK
<1>3. d.van \in Vans
    BY <1>2, RequestFields
<1>4. loading' = [loading EXCEPT ![c] = NotLoading] /\ soldFrom' = soldFrom
    BY DEF CancelCommits
<1>5. CASE ~(ClaimsVan(d.van) /\ RoomToReturn(d.van))
  <2>1. UNCHANGED <<atPlace, lots, hasPile, packs, vans>>
      BY <1>1, <1>5 DEF CancelCommits
  <2> QED
      BY <1>4, <2>1, NothingWritten
<1>6. CASE ClaimsVan(d.van) /\ RoomToReturn(d.van)
  <2>1. PICK v : v = vans[d.van]
      OBVIOUS
  <2>2. v \in Papers /\ v.state = "in_transit" /\ v.lines \in [Lines -> Nat]
      BY <1>3, <1>6, <2>1, VansTypes DEF ClaimsVan, Papers
  <2>3. /\ vans' = [vans EXCEPT ![d.van].state = "cancelled"]
        /\ atPlace' = [atPlace EXCEPT ![v.from] = @ + Sum(v.lines)]
        /\ lots' = [lots EXCEPT ![v.from] = [l \in Lots |-> @[l] + v.lines[l]]]
        /\ hasPile' = hasPile \cup {v.from}
        /\ packs' = [k \in TravelPacks |->
              IF k \in PacksOn(d.van) THEN [state |-> "in_stock", at |-> v.from, van |-> NoVan] ELSE packs[k]]
      BY <1>1, <1>6, <2>1 DEF CancelCommits
  <2>4. PICK paper : paper = [v EXCEPT !.state = "cancelled"]
      OBVIOUS
  <2>5. paper \in Papers /\ paper.state = "cancelled" /\ paper.lines = v.lines /\ paper.got = v.got
        /\ paper.from = v.from /\ paper.to = v.to
      BY <2>2, <2>4 DEF Papers
  <2>6. vans' = [vans EXCEPT ![d.van] = paper]
      BY <1>3, <2>1, <2>3, <2>4, VansTypes
  <2>7. v.from \in Places /\ \A l \in Lines : v.got[l] <= v.lines[l]
      BY <1>3, <2>1, <2>2 DEF TransferInv, PapersStand
  <2>8. AllOut(v) = Sum(v.lines) /\ \A l \in Lines : OutAs(v, l) = v.lines[l]
      BY <2>2, OutOnRoad
  <2>9. AllOut(paper) = 0 /\ \A l \in Lines : OutAs(paper, l) = 0
      BY <2>5, OutNowhere
  <2>10. Sum(v.lines) \in Nat
      BY <2>2, LinesFinite, NatSum
  <2>11. PICK batch : batch = [l \in Lots |-> v.lines[l]]
      OBVIOUS
  <2>12. batch \in [Lots -> Int] /\ \A l \in Lots : batch[l] = v.lines[l] /\ batch[l] \in Int
      BY <2>2, <2>11, FiniteWorld
  <2>13. \A l \in Lots : batch[l] + OutAs(paper, l) = OutAs(v, l)
      BY <2>8, <2>9, <2>12, FiniteWorld
  <2>14. VanCloses(d.van, v.from, paper, Sum(v.lines), batch)
    <3>1. lots' = [lots EXCEPT ![v.from] = [l \in Lots |-> @[l] + batch[l]]]
      <4>1. [l \in Lots |-> lots[v.from][l] + v.lines[l]] = [l \in Lots |-> lots[v.from][l] + batch[l]]
          BY <2>12
      <4> QED
          BY <2>3, <4>1
    <3>2. hasPile' \in SUBSET Places
        BY <2>3, <2>7 DEF TransferInv, TransferShapes, TransferTypeOK
    <3>3. \A l \in Lines : paper.got[l] <= paper.lines[l]
        BY <2>5, <2>7
    <3>4. Sum(v.lines) + AllOut(paper) = AllOut(v)
        BY <2>8, <2>9, <2>10
    <3> QED
        BY <1>3, <2>1, <2>2, <2>3, <2>5, <2>6, <2>7, <2>10, <2>12, <2>13, <3>1, <3>2, <3>3, <3>4 DEF VanCloses
  <2>15. Cardinality(PacksOn(d.van) \ PacksOn(d.van)) <= AllOut(paper)
    <3>1. PacksOn(d.van) \ PacksOn(d.van) = {}
        OBVIOUS
    <3> QED
        BY <2>9, <3>1, FS_EmptySet
  <2>16. RequestEnds(c)
      BY <1>1, <1>2, <1>4 DEF RequestEnds
  <2>17. PacksLeaveVan(d.van, v.from, paper, PacksOn(d.van))
      BY <2>3, <2>15 DEF PacksLeaveVan
  <2> QED
      BY <2>14, <2>16, <2>17, ClosingHolds
<1> QED
    BY <1>5, <1>6

\* A finite set of numbers has a least one.
LEMMA LeastIsThere ==
    ASSUME NEW S, IsFiniteSet(S), S \subseteq Int, S # {}
    PROVE  Min(S) \in S
<1> DEFINE R == {e \in S \X S : e[1] > e[2]}
<1>1. \A x, y \in S : <<x, y>> \in R <=> x > y
    OBVIOUS
<1>2. \A x \in S : x \in Int
    OBVIOUS
<1> HIDE DEF R
<1>3. IsOrder(R, S)
  <2>1. \A x \in S : <<x, x>> \notin R
      BY <1>1, <1>2
  <2>2. \A x, y, z \in S : <<x, y>> \in R /\ <<y, z>> \in R => <<x, z>> \in R
      BY <1>1, <1>2
  <2>3. \A x, y \in S : x # y => <<x, y>> \in R \/ <<y, x>> \in R
      BY <1>1, <1>2
  <2> QED
      BY <2>1, <2>2, <2>3 DEF IsOrder
<1>4. PICK m \in S : \A x \in S \ {m} : <<x, m>> \in R
    BY <1>3, LastOfFinite
<1>5. ASSUME NEW y \in S PROVE m <= y
  <2>1. m \in Int /\ y \in Int
      BY <1>2
  <2>2. CASE y = m
      BY <2>1, <2>2
  <2>3. CASE y # m
    <3>1. y > m
        BY <1>1, <1>4, <2>3
    <3> QED
        BY <2>1, <3>1
  <2> QED
      BY <2>2, <2>3
<1> QED
    BY <1>5 DEF Min

LEMMA SellsOneHolds ==
    ASSUME TransferInv, NEW p \in Places, SellsOne(p)
    PROVE  TransferInv'
<1>1. PICK full : full = {l \in Lots : lots[p][l] > 0}
    OBVIOUS
<1>2. PICK line : line = IF full = {} THEN Loose ELSE Min(full)
    OBVIOUS
<1>3. /\ atPlace[p] > 0
      /\ atPlace' = [atPlace EXCEPT ![p] = @ - 1]
      /\ lots' = IF line = Loose THEN lots ELSE [lots EXCEPT ![p][line] = @ - 1]
      /\ soldFrom' = [soldFrom EXCEPT ![line] = @ + 1]
      /\ IF PacksAt(p) = {} THEN UNCHANGED packs
         ELSE \E k \in PacksAt(p) : packs' = [packs EXCEPT ![k].state = "sold"]
      /\ UNCHANGED <<hasPile, vans, loading>>
    BY <1>1, <1>2 DEF SellsOne
<1>4. line \in Lines /\ (line # Loose => line \in Lots)
  <2>1. CASE full = {}
      BY <1>2, <2>1, LinesFinite
  <2>2. CASE full # {}
    <3>1. IsFiniteSet(full) /\ full \subseteq Int /\ full \subseteq Lots
      <4>1. full \subseteq Lots
          BY <1>1
      <4>2. IsFiniteSet(Lots) /\ Lots \subseteq Int
          BY TransfersAssumption
      <4>3. IsFiniteSet(full)
          BY <4>1, <4>2, FS_Subset
      <4> QED
          BY <4>1, <4>2, <4>3
    <3>2. Min(full) \in full
        BY <2>2, <3>1, LeastIsThere
    <3> QED
        BY <1>2, <2>2, <3>1, <3>2, FiniteWorld
  <2> QED
      BY <2>1, <2>2
<1>5. atPlace' \in [Places -> Nat] /\ atPlace'[p] = atPlace[p] - 1
      /\ \A q \in Places \ {p} : atPlace'[q] = atPlace[q]
  <2>1. atPlace \in [Places -> Nat]
      BY VansTypes
  <2>2. atPlace[p] - 1 \in Nat
      BY <1>3, <2>1
  <2> QED
      BY <1>3, <2>1, <2>2
<1>6. /\ lots' \in [Places -> [Lots -> Int]]
      /\ \A q \in Places \ {p} : lots'[q] = lots[q]
      /\ \A l \in Lots : lots'[p][l] = IF l = line THEN lots[p][l] - 1 ELSE lots[p][l]
  <2>1. lots \in [Places -> [Lots -> Int]]
      BY VansTypes
  <2>2. CASE line = Loose
      BY <1>3, <2>1, <2>2, LinesFinite
  <2>3. CASE line # Loose
    <3>1. line \in Lots /\ lots' = [lots EXCEPT ![p][line] = lots[p][line] - 1]
        BY <1>3, <1>4, <2>3
    <3>2. lots[p][line] - 1 \in Int
        BY <2>1, <3>1
    <3> QED
        BY <2>1, <3>1, <3>2
  <2> QED
      BY <2>2, <2>3
<1>7. /\ soldFrom' \in [Lines -> Nat]
      /\ \A l \in Lines : soldFrom'[l] = IF l = line THEN soldFrom[l] + 1 ELSE soldFrom[l]
  <2>1. soldFrom \in [Lines -> Nat]
      BY VansTypes
  <2>2. soldFrom[line] + 1 \in Nat
      BY <1>4, <2>1
  <2> QED
      BY <1>3, <2>1, <2>2
<1>8. packs' \in PackBook /\ \A v \in Vans : PacksOn(v)' = PacksOn(v)
  <2>1. packs \in PackBook
      BY DEF TransferInv, TransferShapes, TransferTypeOK, PackBook
  <2>2. CASE PacksAt(p) = {}
      BY <1>3, <2>1, <2>2 DEF PacksOn
  <2>3. CASE PacksAt(p) # {}
    <3>1. PICK k \in PacksAt(p) : packs' = [packs EXCEPT ![k].state = "sold"]
        BY <1>3, <2>3
    <3>2. PICK r : r = [packs[k] EXCEPT !.state = "sold"]
        OBVIOUS
    <3>3. k \in TravelPacks /\ packs[k].state = "in_stock"
        BY DEF PacksAt
    <3>4. packs' = [packs EXCEPT ![k] = r]
        BY <2>1, <3>1, <3>2, <3>3 DEF PackBook
    <3>5. r \in [state : {"in_stock", "in_transit", "sold"}, at : Places, van : Vans \cup {NoVan}]
          /\ r.state = "sold"
      <4>1. PICK q : q = packs[k]
          OBVIOUS
      <4>2. q \in [state : {"in_stock", "in_transit", "sold"}, at : Places, van : Vans \cup {NoVan}]
          BY <2>1, <3>3, <4>1 DEF PackBook
      <4> QED
          BY <3>2, <4>1, <4>2
    <3>6. packs' \in PackBook
        BY <2>1, <3>3, <3>4, <3>5 DEF PackBook
    <3>7. packs'[k].state = "sold" /\ \A j \in TravelPacks \ {k} : packs'[j] = packs[j]
        BY <2>1, <3>3, <3>4, <3>5 DEF PackBook
    <3> QED
        BY <3>3, <3>6, <3>7 DEF PacksOn
  <2> QED
      BY <2>2, <2>3
<1>9. TransferTypeOK'
    BY <1>3, <1>5, <1>6, <1>7, <1>8 DEF TransferInv, TransferShapes, TransferTypeOK, PackBook
<1>10. PapersStand' /\ RequestsStand' /\ OneSenderEach' /\ loading' = [e \in Loaders |-> loading'[e]]
    BY <1>3 DEF TransferInv, TransferShapes, PapersStand, RequestsStand, RequestStands, OneSenderEach
<1>11. PacksFollowGoods'
  <2>1. \A v \in Vans : Cardinality(PacksOn(v)') <= AllOut(vans'[v])
      BY <1>3, <1>8, OutIs DEF TransferInv, PacksFollowGoods
  <2> QED
      BY <2>1, OutWillBe DEF PacksFollowGoods
<1>12. TransfersAccountedFor'
  <2>1. PICK b : b = [at |-> atPlace, batches |-> lots, papers |-> vans, sold |-> soldFrom]
      OBVIOUS
  <2>2. PICK c : c = [at |-> atPlace', batches |-> lots', papers |-> vans', sold |-> soldFrom']
      OBVIOUS
  <2>3. b \in Books
      BY <2>1, VansTypes DEF Books
  <2>4. c \in Books
    <3>1. vans' \in [Vans -> Papers]
        BY <1>3, VansTypes
    <3> QED
        BY <1>5, <1>6, <1>7, <2>2, <3>1 DEF Books
  <2>5. BooksRight(b)
      BY <2>1, BooksNow DEF BooksRight, TransferInv
  <2>6. /\ b.at = atPlace /\ b.batches = lots /\ b.papers = vans /\ b.sold = soldFrom
        /\ c.at = atPlace' /\ c.batches = lots' /\ c.papers = vans' /\ c.sold = soldFrom'
      BY <2>1, <2>2
  <2>7. OneSold(b, c, p, line)
      BY <1>3, <1>4, <1>5, <1>6, <1>7, <2>3, <2>4, <2>6 DEF OneSold
  <2>8. BooksRight(c)
      BY <2>5, <2>7, SaleKeepsBooks
  <2> QED
      BY <2>6, <2>8, BooksThen DEF BooksRight
<1> QED
    BY <1>9, <1>10, <1>11, <1>12 DEF TransferInv, TransferShapes

-----------------------------------------------------------------------------
LEMMA TransferInitHolds == TransferInit => TransferInv
<1> SUFFICES ASSUME TransferInit PROVE TransferInv
    OBVIOUS
<1>1. \A p \in Places : FirstStock[p] \in [Lines -> Nat]
    BY TransfersAssumption DEF Lines
<1>2. \A p \in Places : Sum(FirstStock[p]) \in Nat
    BY <1>1, LinesFinite, NatSum
<1>3. atPlace \in [Places -> Nat]
    BY <1>2 DEF TransferInit
<1>4. lots \in [Places -> [Lots -> Int]]
    BY <1>1, FiniteWorld DEF TransferInit
<1>5. packs \in PackBook /\ \A k \in TravelPacks : packs[k].state = "in_stock"
    BY DEF TransferInit, PackBook
<1>6. NoLines \in [Lines -> Nat] /\ \A l \in Lines : NoLines[l] = 0
    BY DEF NoLines
<1>7. PICK paper : paper = [state |-> "none", from |-> NoVan, to |-> NoVan, lines |-> NoLines, got |-> NoLines]
    OBVIOUS
<1>8. paper \in Papers /\ paper.state = "none" /\ paper.lines = NoLines /\ paper.got = NoLines
    BY <1>6, <1>7 DEF Papers
<1>9. vans = [v \in Vans |-> paper]
    BY <1>7 DEF TransferInit
<1>10. NotLoading.at = "idle" /\ loading = [c \in Loaders |-> NotLoading]
    BY DEF TransferInit, NotLoading
<1>11. TransferTypeOK
  <2>1. vans \in [Vans -> Papers]
      BY <1>8, <1>9
  <2>2. hasPile \in SUBSET Places /\ soldFrom \in [Lines -> Nat]
      BY <1>6 DEF TransferInit
  <2>3. \A c \in Loaders : loading[c] \in TransferRequests \cup {NotLoading}
      BY <1>10
  <2> QED
      BY <1>3, <1>4, <1>5, <2>1, <2>2, <2>3 DEF TransferTypeOK, Papers, PackBook
<1>12. PapersStand
    BY <1>6, <1>8, <1>9 DEF PapersStand
<1>13. RequestsStand /\ OneSenderEach
    BY <1>10 DEF RequestsStand, RequestStands, OneSenderEach
<1>14. AllOut(paper) = 0 /\ \A l \in Lines : OutAs(paper, l) = 0
    BY <1>8, OutNowhere
<1>15. PacksFollowGoods
  <2>1. \A v \in Vans : PacksOn(v) = {}
      BY <1>5 DEF PacksOn
  <2>2. \A v \in Vans : Sum([l \in Lines |-> OutWith(v, l)]) = 0
      BY <1>9, <1>14, OutIs
  <2> QED
      BY <2>1, <2>2, FS_EmptySet DEF PacksFollowGoods
<1>16. Balanced(atPlace, lots, vans, soldFrom)
  <2>1. soldFrom = NoLines /\ Sum(soldFrom) = 0
    <3>1. DOMAIN NoLines = Lines
        BY DEF NoLines
    <3>2. Sum(NoLines) = 0
        BY <1>6, <3>1, LinesFinite, ZeroSum
    <3> QED
        BY <3>2 DEF TransferInit
  <2>2. ASSUME NEW l \in Lots
        PROVE  Sum([p \in Places |-> lots[p][l]]) + Sum([v \in Vans |-> OutAs(vans[v], l)]) + soldFrom[l]
                  = Sum([p \in Places |-> FirstStock[p][l]])
    <3>1. PICK f : f = [p \in Places |-> FirstStock[p][l]]
        OBVIOUS
    <3>2. [p \in Places |-> lots[p][l]] = f
        BY <3>1 DEF TransferInit
    <3>3. PICK e : e = [v \in Vans |-> OutAs(vans[v], l)]
        OBVIOUS
    <3>4. Sum(e) = 0
      <4>1. DOMAIN e = Vans /\ \A v \in Vans : e[v] = 0
          BY <1>9, <1>14, <3>3, FiniteWorld
      <4> QED
          BY <4>1, FiniteWorld, ZeroSum
    <3>5. f \in [Places -> Nat]
        BY <1>1, <3>1, FiniteWorld
    <3>6. Sum(f) \in Nat
        BY <3>5, FiniteWorld, NatSum
    <3>7. soldFrom[l] = 0
        BY <1>6, <2>1, FiniteWorld
    <3>8. Sum(f) + Sum(e) + soldFrom[l] = Sum(f)
        BY <3>4, <3>6, <3>7
    <3> QED
        BY <3>1, <3>2, <3>3, <3>8
  <2>3. Sum(atPlace) + Sum([v \in Vans |-> AllOut(vans[v])]) + Sum(soldFrom)
           = Sum([p \in Places |-> Sum(FirstStock[p])])
    <3>1. atPlace = [p \in Places |-> Sum(FirstStock[p])]
        BY DEF TransferInit
    <3>2. Sum(atPlace) \in Nat
        BY <1>3, FiniteWorld, NatSum
    <3>3. PICK e : e = [v \in Vans |-> AllOut(vans[v])]
        OBVIOUS
    <3>4. Sum(e) = 0
      <4>1. DOMAIN e = Vans /\ \A v \in Vans : e[v] = 0
          BY <1>9, <1>14, <3>3
      <4> QED
          BY <4>1, FiniteWorld, ZeroSum
    <3>5. Sum(atPlace) + Sum(e) + Sum(soldFrom) = Sum(atPlace)
        BY <2>1, <3>2, <3>4
    <3> QED
        BY <3>1, <3>3, <3>5
  <2> QED
      BY <2>2, <2>3 DEF Balanced
<1>17. loading = [e \in Loaders |-> loading[e]]
    BY <1>10
<1> QED
    BY <1>11, <1>12, <1>13, <1>15, <1>16, <1>17, BooksNow DEF TransferInv, TransferShapes

LEMMA TransferStepHolds == TransferInv /\ [TransferNext]_transferVars => TransferInv'
<1> SUFFICES ASSUME TransferInv, [TransferNext]_transferVars PROVE TransferInv'
    OBVIOUS
<1>1. CASE \E c \in Loaders, v \in Vans, from, to \in Places :
               \E quantity \in 1..atPlace[from] : SendReads(c, v, from, to, quantity)
    BY <1>1, SendReadsHold
<1>2. CASE \E c \in Loaders, v \in Vans : \E count \in CountsOf(v) : ReceiveReads(c, v, count)
    BY <1>2, ReceiveReadsHold
<1>3. CASE \E c \in Loaders, v \in Vans : CancelReads(c, v)
    BY <1>3, CancelReadsHold
<1>4. CASE \E c \in Loaders : SendCommits(c)
    BY <1>4, SendCommitsHold
<1>5. CASE \E c \in Loaders : ReceiveCommits(c)
    BY <1>5, ReceiveCommitsHold
<1>6. CASE \E c \in Loaders : CancelCommits(c)
    BY <1>6, CancelCommitsHold
<1>7. CASE \E p \in Places : SellsOne(p)
    BY <1>7, SellsOneHolds
<1>8. CASE UNCHANGED transferVars
  <2>1. UNCHANGED <<atPlace, lots, hasPile, packs, vans, loading, soldFrom>>
      BY <1>8 DEF transferVars
  <2>2. TransferTypeOK' /\ loading' = [e \in Loaders |-> loading'[e]]
      BY <2>1 DEF TransferInv, TransferShapes, TransferTypeOK
  <2>3. PapersStand' /\ RequestsStand' /\ OneSenderEach'
      BY <2>1 DEF TransferInv, PapersStand, RequestsStand, RequestStands, OneSenderEach
  <2>4. PacksFollowGoods'
      BY <2>1 DEF TransferInv, PacksFollowGoods, PacksOn, OutWith
  <2>5. TransfersAccountedFor'
      BY <2>1, BooksNow, BooksThen DEF TransferInv
  <2> QED
      BY <2>2, <2>3, <2>4, <2>5 DEF TransferInv, TransferShapes
<1> QED
    BY <1>1, <1>2, <1>3, <1>4, <1>5, <1>6, <1>7, <1>8 DEF TransferNext

LEMMA TransfersAlwaysHold == TransferSpec => []TransferInv
    BY TransferInitHolds, TransferStepHolds, PTL DEF TransferSpec

\* Rows and documents stay what the database can hold, whoever sends, receives,
\* calls back and sells: no shelf goes below nothing.
THEOREM TransferTypes == TransferSpec => []TransferTypeOK
<1>1. TransferInv => TransferTypeOK
    BY DEF TransferInv, TransferShapes
<1> QED
    BY <1>1, TransfersAlwaysHold, PTL

\* Every unit of every batch is on a shelf, on the road, missing or sold
\* (pos.ts:9032).
THEOREM TransfersAlwaysAccountedFor == TransferSpec => []TransfersAccountedFor
<1>1. TransferInv => TransfersAccountedFor
    BY DEF TransferInv
<1> QED
    BY <1>1, TransfersAlwaysHold, PTL

\* No pack stays on a van beyond the units that do (pos.ts:9138).
THEOREM PacksAlwaysFollowGoods == TransferSpec => []PacksFollowGoods
<1>1. TransferInv => PacksFollowGoods
    BY DEF TransferInv
<1> QED
    BY <1>1, TransfersAlwaysHold, PTL

-----------------------------------------------------------------------------
(***************************************************************************)
(* Tables and the kitchen.  A bill only ever gets longer, so that a sum    *)
(* worked out from it before is no more than what stands on it now; and    *)
(* every line is written with what its product takes from the pantry.      *)
(***************************************************************************)

LinesUse(lines, g) == Sum([i \in DOMAIN lines |-> Uses(lines[i].product)[g]])

\* The books of the pantry, over figures as they are or as they will be.
PantryBalances(goods, papers, batches) ==
    \A g \in Stocked :
        goods[g] + Sum([b \in Bills |-> LinesUse(papers[b].lines, g)])
          + Sum([r \in DOMAIN Recipes |-> batches[r] * Recipes[r].takes[g]])
          = Pantry[g] + IF g \in DOMAIN Recipes THEN batches[g] * Recipes[g].makes ELSE 0

\* A sum that waits to be paid is on its bill.
TotalsStand ==
    \A c \in Waiters :
        serving[c].at = "pay" => serving[c].total <= TotalOf(bills[serving[c].bill].lines)

RestaurantInv ==
    /\ RestaurantTypeOK /\ serving = [c \in Waiters |-> serving[c]]
    /\ PantryAccountedFor /\ NeverOvercharged /\ TotalsStand

BillPaper == [table : Tables \cup {NoBill}, status : {"none", "open", "confirmed"},
              lines : Seq(BillLine), billed : Nat]

-----------------------------------------------------------------------------
LEMMA PantryNow == PantryAccountedFor <=> PantryBalances(pantry, bills, made)
    BY DEF PantryAccountedFor, PantryBalances, LinesUse

LEMMA PantryThen == PantryAccountedFor' <=> PantryBalances(pantry', bills', made')
    BY DEF PantryAccountedFor, PantryBalances, LinesUse

LEMMA RestaurantTypes ==
    ASSUME RestaurantInv
    PROVE  /\ pantry \in [Stocked -> Nat] /\ bills \in [Bills -> BillPaper]
           /\ made \in [DOMAIN Recipes -> Nat] /\ occupied \subseteq Tables
           /\ \A c \in Waiters : serving[c] \in ServingRequests \cup {NotServing}
           /\ serving = [c \in Waiters |-> serving[c]]
    BY DEF RestaurantInv, RestaurantTypeOK, BillPaper

LEMMA UsesType ==
    ASSUME NEW product \in DOMAIN Menu
    PROVE  Uses(product) \in [Stocked -> Nat] /\ Menu[product] \in Nat
<1>1. Menu[product] \in Nat
    BY RestaurantAssumption
<1>2. CASE product \in Dishes
  <2>1. Recipes[product].takes \in [Stocked -> Nat]
      BY <1>2, RestaurantAssumption DEF Dishes
  <2> QED
      BY <1>1, <1>2, <2>1 DEF Uses
<1>3. CASE product \notin Dishes
    BY <1>1, <1>3 DEF Uses
<1> QED
    BY <1>2, <1>3

\* A list and one more.
LEMMA OneMoreSum ==
    ASSUME NEW n \in Nat, NEW f \in [1..n -> Int], NEW h \in [1..(n + 1) -> Int],
           \A i \in 1..n : h[i] = f[i]
    PROVE  Sum(h) = Sum(f) + h[n + 1] /\ Sum(f) \in Int
<1>1. IsFiniteSet(1..n)
    BY FS_Interval
<1>2. n + 1 \notin 1..n /\ 1..(n + 1) = 1..n \cup {n + 1}
    OBVIOUS
<1>3. h[n + 1] \in Int /\ \A i \in 1..n : h[i] \in Int /\ f[i] \in Int
    OBVIOUS
<1>4. SumOver(h, 1..n \cup {n + 1}) = SumOver(h, 1..n) + h[n + 1]
    BY <1>1, <1>2, <1>3, SumOverAdd
<1>5. SumOver(h, 1..n) = SumOver(f, 1..n)
    BY <1>1, SumOverSame
<1>6. DOMAIN h = 1..n \cup {n + 1} /\ DOMAIN f = 1..n
    BY <1>2
<1> QED
    BY <1>1, <1>4, <1>5, <1>6, IntSum, SumIsOverDomain

LEMMA LineFigures ==
    ASSUME NEW lines \in Seq(BillLine), NEW g \in Stocked
    PROVE  /\ IsFiniteSet(DOMAIN lines) /\ DOMAIN lines = 1..Len(lines) /\ Len(lines) \in Nat
           /\ \A i \in DOMAIN lines :
                 Uses(lines[i].product)[g] \in Nat /\ Menu[lines[i].product] \in Nat
           /\ LinesUse(lines, g) \in Nat /\ TotalOf(lines) \in Nat
<1>1. DOMAIN lines = 1..Len(lines) /\ Len(lines) \in Nat
    OBVIOUS
<1>2. IsFiniteSet(DOMAIN lines)
    BY <1>1, FS_Interval
<1>3. \A i \in DOMAIN lines : lines[i].product \in DOMAIN Menu
  <2>1. \A i \in DOMAIN lines : lines[i] \in BillLine
      BY <1>1
  <2> QED
      BY <2>1 DEF BillLine
<1>4. \A i \in DOMAIN lines :
         Uses(lines[i].product)[g] \in Nat /\ Menu[lines[i].product] \in Nat
    BY <1>3, UsesType
<1>5. [i \in DOMAIN lines |-> Uses(lines[i].product)[g]] \in [DOMAIN lines -> Nat]
      /\ [i \in DOMAIN lines |-> Menu[lines[i].product]] \in [DOMAIN lines -> Nat]
    BY <1>4
<1> QED
    BY <1>1, <1>2, <1>4, <1>5, NatSum DEF LinesUse, TotalOf

LEMMA TotalType == ASSUME NEW lines \in Seq(BillLine) PROVE TotalOf(lines) \in Nat
<1>1. DOMAIN lines = 1..Len(lines) /\ Len(lines) \in Nat
    OBVIOUS
<1>2. IsFiniteSet(DOMAIN lines)
    BY <1>1, FS_Interval
<1>3. \A i \in DOMAIN lines : lines[i].product \in DOMAIN Menu
  <2>1. \A i \in DOMAIN lines : lines[i] \in BillLine
      BY <1>1
  <2> QED
      BY <2>1 DEF BillLine
<1>4. [i \in DOMAIN lines |-> Menu[lines[i].product]] \in [DOMAIN lines -> Nat]
    BY <1>3, UsesType
<1> QED
    BY <1>2, <1>4, NatSum DEF TotalOf

LEMMA LongerLines ==
    ASSUME NEW lines \in Seq(BillLine), NEW x \in BillLine
    PROVE  /\ Append(lines, x) \in Seq(BillLine)
           /\ TotalOf(Append(lines, x)) = TotalOf(lines) + Menu[x.product]
           /\ \A g \in Stocked : LinesUse(Append(lines, x), g) = LinesUse(lines, g) + Uses(x.product)[g]
<1>1. PICK n : n = Len(lines)
    OBVIOUS
<1>2. PICK longer : longer = Append(lines, x)
    OBVIOUS
<1>3. /\ n \in Nat /\ DOMAIN lines = 1..n /\ DOMAIN longer = 1..(n + 1)
      /\ longer \in Seq(BillLine) /\ longer[n + 1] = x /\ \A i \in 1..n : longer[i] = lines[i]
    BY <1>1, <1>2
<1>4. \A i \in 1..n : lines[i].product \in DOMAIN Menu
  <2>1. \A i \in 1..n : lines[i] \in BillLine
      BY <1>3
  <2> QED
      BY <2>1 DEF BillLine
<1>5. x.product \in DOMAIN Menu
    BY DEF BillLine
<1>6. \A i \in 1..(n + 1) : i \in 1..n \/ i = n + 1
    BY <1>3
<1>7. TotalOf(longer) = TotalOf(lines) + Menu[x.product]
  <2>1. PICK f : f = [i \in DOMAIN lines |-> Menu[lines[i].product]]
      OBVIOUS
  <2>2. PICK h : h = [i \in DOMAIN longer |-> Menu[longer[i].product]]
      OBVIOUS
  <2>3. \A i \in 1..n : h[i] = f[i] /\ f[i] \in Int /\ h[i] \in Int
      BY <1>3, <1>4, <2>1, <2>2, UsesType
  <2>4. h[n + 1] = Menu[x.product] /\ h[n + 1] \in Int
      BY <1>3, <1>5, <2>2, UsesType
  <2>5. f \in [1..n -> Int] /\ h \in [1..(n + 1) -> Int]
      BY <1>3, <1>6, <2>1, <2>2, <2>3, <2>4
  <2>6. Sum(h) = Sum(f) + h[n + 1]
      BY <1>3, <2>3, <2>5, OneMoreSum
  <2> QED
      BY <2>1, <2>2, <2>4, <2>6 DEF TotalOf
<1>8. ASSUME NEW g \in Stocked
      PROVE  LinesUse(longer, g) = LinesUse(lines, g) + Uses(x.product)[g]
  <2>1. PICK f : f = [i \in DOMAIN lines |-> Uses(lines[i].product)[g]]
      OBVIOUS
  <2>2. PICK h : h = [i \in DOMAIN longer |-> Uses(longer[i].product)[g]]
      OBVIOUS
  <2>3. \A i \in 1..n : h[i] = f[i] /\ f[i] \in Int /\ h[i] \in Int
      BY <1>3, <1>4, <2>1, <2>2, UsesType
  <2>4. h[n + 1] = Uses(x.product)[g] /\ h[n + 1] \in Int
      BY <1>3, <1>5, <2>2, UsesType
  <2>5. f \in [1..n -> Int] /\ h \in [1..(n + 1) -> Int]
      BY <1>3, <1>6, <2>1, <2>2, <2>3, <2>4
  <2>6. Sum(h) = Sum(f) + h[n + 1]
      BY <1>3, <2>3, <2>5, OneMoreSum
  <2> QED
      BY <2>1, <2>2, <2>4, <2>6 DEF LinesUse
<1> QED
    BY <1>2, <1>3, <1>7, <1>8

LEMMA SameProducts ==
    ASSUME NEW lines, NEW others, DOMAIN others = DOMAIN lines,
           \A i \in DOMAIN lines : others[i].product = lines[i].product
    PROVE  TotalOf(others) = TotalOf(lines) /\ \A g : LinesUse(others, g) = LinesUse(lines, g)
<1>1. [i \in DOMAIN others |-> Menu[others[i].product]] = [i \in DOMAIN lines |-> Menu[lines[i].product]]
    OBVIOUS
<1>2. \A g : [i \in DOMAIN others |-> Uses(others[i].product)[g]] = [i \in DOMAIN lines |-> Uses(lines[i].product)[g]]
    OBVIOUS
<1> QED
    BY <1>1, <1>2 DEF TotalOf, LinesUse

\* What all bills use, when one of them changes.
LEMMA OneBillUse ==
    ASSUME NEW before \in [Bills -> BillPaper], NEW after \in [Bills -> BillPaper], NEW b \in Bills,
           \A a \in Bills \ {b} : after[a] = before[a], NEW g \in Stocked
    PROVE  /\ Sum([a \in Bills |-> LinesUse(after[a].lines, g)])
                = Sum([a \in Bills |-> LinesUse(before[a].lines, g)])
                  + LinesUse(after[b].lines, g) - LinesUse(before[b].lines, g)
           /\ Sum([a \in Bills |-> LinesUse(before[a].lines, g)]) \in Int
<1>1. PICK f : f = [a \in Bills |-> LinesUse(before[a].lines, g)]
    OBVIOUS
<1>2. PICK h : h = [a \in Bills |-> LinesUse(after[a].lines, g)]
    OBVIOUS
<1>3. \A a \in Bills : before[a].lines \in Seq(BillLine) /\ after[a].lines \in Seq(BillLine)
    BY DEF BillPaper
<1>4. \A a \in Bills : f[a] \in Int /\ h[a] \in Int
    BY <1>1, <1>2, <1>3, LineFigures
<1>5. OneChanged(f, h, Bills, b)
  <2>1. f \in [Bills -> Int] /\ h \in [Bills -> Int]
      BY <1>1, <1>2, <1>4
  <2>2. \A a \in Bills \ {b} : h[a] = f[a]
      BY <1>1, <1>2
  <2> QED
      BY <2>1, <2>2, RestaurantAssumption DEF OneChanged
<1>6. Sum(h) = Sum(f) + h[b] - f[b] /\ Sum(f) \in Int
    BY <1>5, OneChanges
<1> QED
    BY <1>1, <1>2, <1>6

LEMMA TakenType ==
    ASSUME NEW r \in DOMAIN Recipes
    PROVE  /\ Recipes[r].makes \in Nat \ {0} /\ Recipes[r].takes \in [Stocked -> Nat]
    BY RestaurantAssumption

LEMMA Times == \A a, b \in Nat : a * b \in Nat
    OBVIOUS
LEMMA TimesMore == \A a, b, c \in Nat : (a + b) * c = a * c + b * c
    OBVIOUS
LEMMA BatchesType == ASSUME NEW wish \in Nat, NEW makes \in Nat \ {0} PROVE Batches(wish, makes) \in Nat
<1>1. wish + makes - 1 \in Nat
    OBVIOUS
<1> QED
    BY <1>1 DEF Batches

LEMMA AllBatches ==
    ASSUME NEW n \in [DOMAIN Recipes -> Nat], NEW g \in Stocked
    PROVE  [r \in DOMAIN Recipes |-> n[r] * Recipes[r].takes[g]] \in [DOMAIN Recipes -> Nat]
<1>1. \A r \in DOMAIN Recipes : n[r] \in Nat /\ Recipes[r].takes[g] \in Nat
    BY TakenType
<1>2. \A r \in DOMAIN Recipes : n[r] * Recipes[r].takes[g] \in Nat
    BY <1>1, Times
<1> QED
    BY <1>2

LEMMA ServingFields ==
    ASSUME NEW d \in ServingRequests \cup {NotServing}
    PROVE  /\ d.at = "order" => /\ d.table \in Tables /\ d.bill \in Bills \cup {NoBill}
                                /\ d.product \in DOMAIN Menu
           /\ d.at = "pay" => d.bill \in Bills /\ d.total \in Nat
    BY DEF ServingRequests, NotServing

LEMMA RestaurantInitHolds == RestaurantInit => RestaurantInv
<1> SUFFICES ASSUME RestaurantInit PROVE RestaurantInv
    OBVIOUS
<1>1. PICK paper : paper = [table |-> NoBill, status |-> "none", lines |-> <<>>, billed |-> 0]
    OBVIOUS
<1>2. paper \in BillPaper /\ paper.lines = <<>> /\ paper.billed = 0
    BY <1>1 DEF BillPaper
<1>3. bills = [b \in Bills |-> paper]
    BY <1>1 DEF RestaurantInit
<1>4. pantry \in [Stocked -> Nat] /\ made \in [DOMAIN Recipes -> Nat] /\ occupied \subseteq Tables
      /\ pantry = Pantry /\ \A r \in DOMAIN Recipes : made[r] = 0
    BY RestaurantAssumption DEF RestaurantInit
<1>5. serving = [c \in Waiters |-> NotServing] /\ NotServing.at = "idle"
    BY DEF RestaurantInit, NotServing
<1>6. RestaurantTypeOK /\ serving = [c \in Waiters |-> serving[c]]
    BY <1>2, <1>3, <1>4, <1>5 DEF RestaurantTypeOK, BillPaper
<1>7. TotalOf(<<>>) \in Nat /\ \A g \in Stocked : LinesUse(<<>>, g) = 0
  <2>1. <<>> \in Seq(BillLine)
      OBVIOUS
  <2>2. \A g \in Stocked : LinesUse(<<>>, g) = 0
    <3> SUFFICES ASSUME NEW g \in Stocked PROVE LinesUse(<<>>, g) = 0
        OBVIOUS
    <3>1. PICK e : e = [i \in DOMAIN <<>> |-> Uses(<<>>[i].product)[g]]
        OBVIOUS
    <3>2. DOMAIN e = {}
        BY <3>1
    <3>3. Sum(e) = 0
        BY <3>2, FS_EmptySet, ZeroSum
    <3> QED
        BY <3>1, <3>3 DEF LinesUse
  <2> QED
      BY <2>1, <2>2, TotalType
<1>8. NeverOvercharged
    BY <1>2, <1>3, <1>7 DEF NeverOvercharged
<1>9. TotalsStand
    BY <1>5 DEF TotalsStand
<1>10. ASSUME NEW g \in Stocked
       PROVE  pantry[g] + Sum([b \in Bills |-> LinesUse(bills[b].lines, g)])
                 + Sum([r \in DOMAIN Recipes |-> made[r] * Recipes[r].takes[g]])
                 = Pantry[g] + IF g \in DOMAIN Recipes THEN made[g] * Recipes[g].makes ELSE 0
  <2>1. PICK f : f = [b \in Bills |-> LinesUse(bills[b].lines, g)]
      OBVIOUS
  <2>2. PICK h : h = [r \in DOMAIN Recipes |-> made[r] * Recipes[r].takes[g]]
      OBVIOUS
  <2>3. Sum(f) = 0
    <3>1. DOMAIN f = Bills /\ \A b \in Bills : f[b] = 0
        BY <1>2, <1>3, <1>7, <2>1
    <3> QED
        BY <3>1, RestaurantAssumption, ZeroSum
  <2>4. Sum(h) = 0
    <3>1. \A r \in DOMAIN Recipes : Recipes[r].takes[g] \in Nat
        BY TakenType
    <3>2. DOMAIN h = DOMAIN Recipes /\ \A r \in DOMAIN Recipes : h[r] = 0
        BY <1>4, <2>2, <3>1
    <3> QED
        BY <3>2, RestaurantAssumption, ZeroSum
  <2>5. (IF g \in DOMAIN Recipes THEN made[g] * Recipes[g].makes ELSE 0) = 0
    <3>1. g \in DOMAIN Recipes => made[g] = 0 /\ Recipes[g].makes \in Nat
        BY <1>4, TakenType
    <3> QED
        BY <3>1
  <2>6. pantry[g] = Pantry[g] /\ pantry[g] \in Nat
      BY <1>4
  <2> HIDE <2>1, <2>2
  <2>7. pantry[g] + Sum(f) + Sum(h) = Pantry[g] + 0
      BY <2>3, <2>4, <2>6
  <2> QED
      BY <2>1, <2>2, <2>5, <2>7
<1>11. PantryAccountedFor
    BY <1>10, PantryNow DEF PantryBalances
<1> QED
    BY <1>6, <1>8, <1>9, <1>11 DEF RestaurantInv

\* A request that is taken on or dropped, while nothing is written.
LEMMA OnlyServing ==
    ASSUME RestaurantInv, NEW c \in Waiters, NEW d \in ServingRequests \cup {NotServing},
           serving' = [serving EXCEPT ![c] = d],
           d.at = "pay" => d.total <= TotalOf(bills[d.bill].lines),
           UNCHANGED <<pantry, bills, occupied, made>>
    PROVE  RestaurantInv'
<1>1. \A e \in Waiters : serving'[e] = IF e = c THEN d ELSE serving[e]
    BY RestaurantTypes
<1>2. serving' = [e \in Waiters |-> serving'[e]]
      /\ \A e \in Waiters : serving'[e] \in ServingRequests \cup {NotServing}
    BY <1>1, RestaurantTypes
<1>3. RestaurantTypeOK'
    BY <1>2, RestaurantTypes DEF RestaurantTypeOK, BillPaper
<1>4. PantryAccountedFor'
    BY PantryNow, PantryThen DEF RestaurantInv
<1>5. NeverOvercharged' /\ TotalsStand'
    BY <1>1 DEF RestaurantInv, NeverOvercharged, TotalsStand
<1> QED
    BY <1>2, <1>3, <1>4, <1>5 DEF RestaurantInv

LEMMA TableOrderReadsHold ==
    ASSUME RestaurantInv, NEW c \in Waiters, NEW t \in Tables, NEW product \in DOMAIN Menu,
           TableOrderReads(c, t, product)
    PROVE  RestaurantInv'
<1>1. PICK bill \in IF OpenBills(t) = {} THEN {NoBill} ELSE OpenBills(t) :
          serving' = [serving EXCEPT
                         ![c] = [at |-> "order", table |-> t, bill |-> bill, product |-> product]]
    BY DEF TableOrderReads
<1>2. bill \in Bills \cup {NoBill}
    BY DEF OpenBills
<1>3. PICK d : d = [at |-> "order", table |-> t, bill |-> bill, product |-> product]
    OBVIOUS
<1>4. d \in ServingRequests /\ d.at = "order"
    BY <1>2, <1>3 DEF ServingRequests
<1>5. serving' = [serving EXCEPT ![c] = d] /\ UNCHANGED <<pantry, bills, occupied, made>>
    BY <1>1, <1>3 DEF TableOrderReads
<1> QED
    BY <1>4, <1>5, OnlyServing

LEMMA PayReadsHold ==
    ASSUME RestaurantInv, NEW c \in Waiters, NEW t \in Tables, PayReads(c, t)
    PROVE  RestaurantInv'
<1>1. PICK b \in OpenBills(t) :
          serving' = [serving EXCEPT ![c] = [at |-> "pay", bill |-> b, total |-> TotalOf(bills[b].lines)]]
    BY DEF PayReads
<1>2. b \in Bills
    BY DEF OpenBills
<1>3. TotalOf(bills[b].lines) \in Nat
  <2>1. bills[b].lines \in Seq(BillLine)
      BY <1>2, RestaurantTypes DEF BillPaper
  <2> QED
      BY <2>1, TotalType
<1>4. PICK d : d = [at |-> "pay", bill |-> b, total |-> TotalOf(bills[b].lines)]
    OBVIOUS
<1>5. d \in ServingRequests /\ d.total <= TotalOf(bills[d.bill].lines)
    BY <1>2, <1>3, <1>4 DEF ServingRequests
<1>6. serving' = [serving EXCEPT ![c] = d] /\ UNCHANGED <<pantry, bills, occupied, made>>
    BY <1>1, <1>4 DEF PayReads
<1> QED
    BY <1>5, <1>6, OnlyServing

-----------------------------------------------------------------------------
\* One bill is written anew, nothing is taken off it.
BillWritten(b, x) ==
    /\ b \in Bills /\ x \in BillPaper
    /\ bills' = [bills EXCEPT ![b] = x]
    /\ TotalOf(bills[b].lines) <= TotalOf(x.lines)
    /\ x.billed <= TotalOf(x.lines)

LEMMA BillGrows ==
    ASSUME RestaurantInv, NEW b, NEW x, BillWritten(b, x),
           \A c \in Waiters : serving'[c] \in {serving[c], NotServing}
    PROVE  /\ bills' \in [Bills -> BillPaper] /\ bills'[b] = x
           /\ \A a \in Bills \ {b} : bills'[a] = bills[a]
           /\ NeverOvercharged' /\ TotalsStand'
<1>1. b \in Bills /\ x \in BillPaper /\ bills' = [bills EXCEPT ![b] = x]
      /\ TotalOf(bills[b].lines) <= TotalOf(x.lines) /\ x.billed <= TotalOf(x.lines)
    BY DEF BillWritten
<1>2. bills' \in [Bills -> BillPaper] /\ bills'[b] = x
      /\ \A a \in Bills \ {b} : bills'[a] = bills[a]
    BY <1>1, RestaurantTypes
<1>3. NeverOvercharged'
    BY <1>1, <1>2 DEF RestaurantInv, NeverOvercharged
<1>4. ASSUME NEW c \in Waiters, serving'[c].at = "pay"
      PROVE  serving'[c].total <= TotalOf(bills'[serving'[c].bill].lines)
  <2>1. serving'[c] = serving[c]
      BY <1>4 DEF NotServing
  <2>2. PICK d : d = serving[c]
      OBVIOUS
  <2>3. d.bill \in Bills /\ d.total \in Nat /\ d.total <= TotalOf(bills[d.bill].lines)
    <3>1. d \in ServingRequests \cup {NotServing} /\ d.at = "pay"
        BY <1>4, <2>1, <2>2, RestaurantTypes
    <3>2. d.total <= TotalOf(bills[d.bill].lines)
        BY <2>2, <3>1 DEF RestaurantInv, TotalsStand
    <3> QED
        BY <3>1, <3>2, ServingFields
  <2>4. d.total <= TotalOf(bills'[d.bill].lines)
    <3>1. CASE d.bill = b
      <4>1. TotalOf(bills[b].lines) \in Nat /\ TotalOf(x.lines) \in Nat
        <5>1. bills[b].lines \in Seq(BillLine) /\ x.lines \in Seq(BillLine)
            BY <1>1, RestaurantTypes DEF BillPaper
        <5> QED
            BY <5>1, TotalType
      <4> QED
          BY <1>1, <1>2, <2>3, <3>1, <4>1
    <3>2. CASE d.bill # b
        BY <1>2, <2>3, <3>2
    <3> QED
        BY <3>1, <3>2
  <2> QED
      BY <2>1, <2>2, <2>4
<1>5. TotalsStand'
    BY <1>4 DEF TotalsStand
<1> QED
    BY <1>2, <1>3, <1>5

\* A line goes onto a bill and what it takes leaves the pantry.
LEMMA LineIsAdded ==
    ASSUME RestaurantInv, NEW c \in Waiters, serving' = [serving EXCEPT ![c] = NotServing],
           NEW product \in DOMAIN Menu, Suffices(Uses(product)), pantry' = LeftAfter(product), made' = made,
           NEW b \in Bills, NEW x \in BillPaper, bills' = [bills EXCEPT ![b] = x],
           x.lines = Append(bills[b].lines, [product |-> product, kitchen |-> "pending"]),
           x.billed = bills[b].billed, occupied' \subseteq Tables
    PROVE  RestaurantInv'
<1>1. PICK line : line = [product |-> product, kitchen |-> "pending"]
    OBVIOUS
<1>2. line \in BillLine /\ line.product = product
    BY <1>1 DEF BillLine
<1>3. PICK lines : lines = bills[b].lines
    OBVIOUS
<1>4. lines \in Seq(BillLine) /\ x.lines = Append(lines, line)
    BY <1>1, <1>3, RestaurantTypes DEF BillPaper
<1>5. /\ x.lines \in Seq(BillLine)
      /\ TotalOf(x.lines) = TotalOf(lines) + Menu[product]
      /\ \A g \in Stocked : LinesUse(x.lines, g) = LinesUse(lines, g) + Uses(product)[g]
    BY ZenonT(60), <1>2, <1>4, LongerLines
<1>6. Menu[product] \in Nat /\ \A g \in Stocked : Uses(product)[g] \in Nat
    BY UsesType
<1>7. TotalOf(lines) \in Nat
    BY <1>4, TotalType
<1>8. BillWritten(b, x)
  <2>1. bills[b].billed <= TotalOf(lines) /\ bills[b].billed \in Nat
      BY <1>3, RestaurantTypes DEF RestaurantInv, NeverOvercharged, BillPaper
  <2>2. TotalOf(lines) <= TotalOf(x.lines) /\ x.billed <= TotalOf(x.lines)
      BY <1>5, <1>6, <1>7, <2>1
  <2> QED
      BY <1>3, <2>2 DEF BillWritten
<1>9. \A e \in Waiters : serving'[e] = IF e = c THEN NotServing ELSE serving[e]
    BY RestaurantTypes
<1>10. /\ bills' \in [Bills -> BillPaper] /\ bills'[b] = x
       /\ \A a \in Bills \ {b} : bills'[a] = bills[a]
       /\ NeverOvercharged' /\ TotalsStand'
    BY <1>8, <1>9, BillGrows
<1>11. pantry' \in [Stocked -> Nat] /\ \A g \in Stocked : pantry'[g] = pantry[g] - Uses(product)[g]
  <2>1. \A g \in Stocked : pantry[g] \in Nat /\ pantry[g] >= Uses(product)[g]
      BY RestaurantTypes DEF Suffices
  <2>2. \A g \in Stocked : pantry[g] - Uses(product)[g] \in Nat
      BY <1>6, <2>1
  <2> QED
      BY <2>2 DEF LeftAfter
<1>12. serving' = [e \in Waiters |-> serving'[e]]
       /\ \A e \in Waiters : serving'[e] \in ServingRequests \cup {NotServing}
    BY <1>9, RestaurantTypes
<1>13. RestaurantTypeOK'
    BY <1>10, <1>11, <1>12, RestaurantTypes DEF RestaurantTypeOK, BillPaper
<1>14. ASSUME NEW g \in Stocked
       PROVE  pantry'[g] + Sum([a \in Bills |-> LinesUse(bills'[a].lines, g)])
                 + Sum([r \in DOMAIN Recipes |-> made'[r] * Recipes[r].takes[g]])
                 = Pantry[g] + IF g \in DOMAIN Recipes THEN made'[g] * Recipes[g].makes ELSE 0
  <2>1. PICK s : s = Sum([a \in Bills |-> LinesUse(bills[a].lines, g)])
      OBVIOUS
  <2>2. PICK z : z = Sum([a \in Bills |-> LinesUse(bills'[a].lines, g)])
      OBVIOUS
  <2>3. PICK m : m = Sum([r \in DOMAIN Recipes |-> made[r] * Recipes[r].takes[g]])
      OBVIOUS
  <2>4. z = s + LinesUse(x.lines, g) - LinesUse(lines, g) /\ s \in Int
    <3>1. PICK before : before = bills
        OBVIOUS
    <3>2. PICK after : after = bills'
        OBVIOUS
    <3>3. /\ before \in [Bills -> BillPaper] /\ after \in [Bills -> BillPaper]
          /\ after[b] = x /\ before[b].lines = lines
          /\ \A a \in Bills \ {b} : after[a] = before[a]
        BY <1>3, <1>10, <3>1, <3>2, RestaurantTypes
    <3>4. /\ s = Sum([a \in Bills |-> LinesUse(before[a].lines, g)])
          /\ z = Sum([a \in Bills |-> LinesUse(after[a].lines, g)])
        BY <2>1, <2>2, <3>1, <3>2
    <3> HIDE DEF BillPaper
    <3>5. /\ Sum([a \in Bills |-> LinesUse(after[a].lines, g)])
                = Sum([a \in Bills |-> LinesUse(before[a].lines, g)])
                  + LinesUse(after[b].lines, g) - LinesUse(before[b].lines, g)
          /\ Sum([a \in Bills |-> LinesUse(before[a].lines, g)]) \in Int
        BY SMTT(30), <3>3, OneBillUse
    <3> QED
        BY <3>3, <3>4, <3>5
  <2>5. LinesUse(lines, g) \in Nat /\ LinesUse(x.lines, g) = LinesUse(lines, g) + Uses(product)[g]
      BY <1>4, <1>5, LineFigures
  <2>6. m \in Nat
    <3>1. made \in [DOMAIN Recipes -> Nat]
        BY RestaurantTypes
    <3>2. [r \in DOMAIN Recipes |-> made[r] * Recipes[r].takes[g]] \in [DOMAIN Recipes -> Nat]
        BY <3>1, AllBatches
    <3> QED
        BY <2>3, <3>2, NatSum, RestaurantAssumption
  <2>7. pantry[g] \in Nat /\ Uses(product)[g] \in Nat /\ pantry'[g] = pantry[g] - Uses(product)[g]
      BY <1>6, <1>11, RestaurantTypes
  <2>8. pantry[g] + s + m = Pantry[g] + IF g \in DOMAIN Recipes THEN made[g] * Recipes[g].makes ELSE 0
      BY <2>1, <2>3, PantryNow DEF RestaurantInv, PantryBalances
  <2>9. pantry'[g] + z + m = pantry[g] + s + m
    <3>1. PICK p : p = pantry[g]
        OBVIOUS
    <3>2. PICK q : q = pantry'[g]
        OBVIOUS
    <3>3. PICK u : u = Uses(product)[g]
        OBVIOUS
    <3>4. PICK k : k = LinesUse(lines, g)
        OBVIOUS
    <3>5. p \in Nat /\ u \in Nat /\ k \in Nat /\ s \in Int /\ q = p - u /\ z = s + (k + u) - k
        BY <2>4, <2>5, <2>7, <3>1, <3>2, <3>3, <3>4
    <3>6. q + z = p + s
        BY <3>5
    <3> QED
        BY <3>1, <3>2, <3>6
  <2> QED
      BY <2>2, <2>3, <2>8, <2>9
<1>15. PantryAccountedFor'
    BY <1>14, PantryThen DEF PantryBalances
<1> QED
    BY <1>10, <1>12, <1>13, <1>15 DEF RestaurantInv

\* A bill is written anew with the same goods on it.
LEMMA SameGoodsWritten ==
    ASSUME RestaurantInv, NEW b, NEW x, BillWritten(b, x),
           \A g \in Stocked : LinesUse(x.lines, g) = LinesUse(bills[b].lines, g),
           serving' = [c \in Waiters |-> serving'[c]],
           \A c \in Waiters : serving'[c] \in {serving[c], NotServing},
           pantry' = pantry, made' = made, occupied' \subseteq Tables
    PROVE  RestaurantInv'
<1>1. /\ bills' \in [Bills -> BillPaper] /\ bills'[b] = x
      /\ \A a \in Bills \ {b} : bills'[a] = bills[a]
      /\ NeverOvercharged' /\ TotalsStand'
    BY BillGrows
<1>2. b \in Bills
    BY DEF BillWritten
<1>3. \A g \in Stocked : \A a \in Bills : LinesUse(bills'[a].lines, g) = LinesUse(bills[a].lines, g)
    BY <1>1, <1>2
<1>4. \A g \in Stocked : [a \in Bills |-> LinesUse(bills'[a].lines, g)] = [a \in Bills |-> LinesUse(bills[a].lines, g)]
    BY <1>3
<1>5. PantryBalances(pantry, bills, made)
    BY PantryNow DEF RestaurantInv
<1>6. PantryBalances(pantry', bills', made')
    BY <1>4, <1>5 DEF PantryBalances
<1>7. PantryAccountedFor'
    BY <1>6, PantryThen
<1>8. \A c \in Waiters : serving'[c] \in ServingRequests \cup {NotServing}
    BY RestaurantTypes
<1>9. RestaurantTypeOK'
    BY <1>1, <1>8, RestaurantTypes DEF RestaurantTypeOK, BillPaper
<1> QED
    BY <1>1, <1>7, <1>9 DEF RestaurantInv

LEMMA PayCommitsHold ==
    ASSUME RestaurantInv, NEW c \in Waiters, PayCommits(c)
    PROVE  RestaurantInv'
<1>1. PICK d : d = serving[c]
    OBVIOUS
<1>2. /\ d.at = "pay" /\ serving' = [serving EXCEPT ![c] = NotServing]
      /\ bills' = [bills EXCEPT ![d.bill].status = "confirmed", ![d.bill].billed = d.total]
      /\ occupied' \subseteq occupied /\ UNCHANGED <<pantry, made>>
    BY <1>1 DEF PayCommits
<1>3. d \in ServingRequests \cup {NotServing}
    BY <1>1, RestaurantTypes
<1>4. d.bill \in Bills /\ d.total \in Nat
    BY <1>2, <1>3, ServingFields
<1>5. d.total <= TotalOf(bills[d.bill].lines)
    BY <1>1, <1>2 DEF RestaurantInv, TotalsStand
<1>6. PICK b : b = d.bill
    OBVIOUS
<1>7. PICK old : old = bills[b]
    OBVIOUS
<1>8. PICK x : x = [old EXCEPT !.status = "confirmed", !.billed = d.total]
    OBVIOUS
<1>9. old \in BillPaper
    BY <1>4, <1>6, <1>7, RestaurantTypes
<1>10. x \in BillPaper /\ x.lines = old.lines /\ x.billed = d.total
    BY <1>4, <1>8, <1>9 DEF BillPaper
<1>11. bills' = [bills EXCEPT ![b] = x]
  <2>1. bills \in [Bills -> BillPaper]
      BY RestaurantTypes
  <2> QED
      BY <1>2, <1>4, <1>6, <1>7, <1>8, <2>1
<1>12. TotalOf(old.lines) \in Nat
  <2>1. old.lines \in Seq(BillLine)
      BY <1>9 DEF BillPaper
  <2> QED
      BY <2>1, TotalType
<1>13. BillWritten(b, x)
    BY <1>4, <1>5, <1>6, <1>7, <1>10, <1>11, <1>12 DEF BillWritten
<1>14. /\ serving' = [e \in Waiters |-> serving'[e]]
       /\ \A e \in Waiters : serving'[e] \in {serving[e], NotServing}
    BY <1>2, RestaurantTypes
<1>15. \A g \in Stocked : LinesUse(x.lines, g) = LinesUse(bills[b].lines, g)
    BY <1>7, <1>10
<1>16. pantry' = pantry /\ made' = made /\ occupied' \subseteq Tables
    BY <1>2, RestaurantTypes
<1> QED
    BY <1>13, <1>14, <1>15, <1>16, SameGoodsWritten

LEMMA KitchenMarksHold ==
    ASSUME RestaurantInv, NEW b \in Bills, NEW kitchen \in {"pending", "ready"},
           NEW i \in DOMAIN bills[b].lines, KitchenMarks(b, i, kitchen)
    PROVE  RestaurantInv'
<1>1. PICK old : old = bills[b]
    OBVIOUS
<1>2. PICK lines : lines = old.lines
    OBVIOUS
<1>3. PICK marked : marked = [lines EXCEPT ![i].kitchen = kitchen]
    OBVIOUS
<1>4. PICK x : x = [old EXCEPT !.lines = marked]
    OBVIOUS
<1>5. old \in BillPaper
    BY <1>1, RestaurantTypes
<1>6. lines \in Seq(BillLine) /\ i \in DOMAIN lines /\ i \in 1..Len(lines)
  <2>1. lines \in Seq(BillLine)
      BY <1>2, <1>5 DEF BillPaper
  <2> QED
      BY <1>1, <1>2, <2>1
<1>7. PICK line : line = [lines[i] EXCEPT !.kitchen = kitchen]
    OBVIOUS
<1>8. line \in BillLine /\ line.product = lines[i].product
  <2>1. lines[i] \in BillLine
      BY <1>6
  <2> QED
      BY <1>7, <2>1 DEF BillLine
<1>9. marked = [lines EXCEPT ![i] = line]
    BY <1>3, <1>6, <1>7
<1>10. marked \in Seq(BillLine) /\ DOMAIN marked = DOMAIN lines
       /\ \A k \in DOMAIN lines : marked[k].product = lines[k].product
    BY <1>6, <1>8, <1>9
<1>11. TotalOf(marked) = TotalOf(lines) /\ \A g : LinesUse(marked, g) = LinesUse(lines, g)
    BY <1>10, SameProducts
<1>12. x \in BillPaper /\ x.lines = marked /\ x.billed = old.billed
    BY <1>4, <1>5, <1>10 DEF BillPaper
<1>13. bills' = [bills EXCEPT ![b] = x] /\ UNCHANGED <<pantry, occupied, made, serving>>
  <2>1. bills' = [bills EXCEPT ![b].lines[i].kitchen = kitchen] /\ UNCHANGED <<pantry, occupied, made, serving>>
      BY DEF KitchenMarks
  <2> QED
      BY <1>1, <1>2, <1>3, <1>4, <2>1
<1>14. TotalOf(lines) \in Nat /\ old.billed <= TotalOf(lines)
    BY <1>1, <1>2, <1>6, TotalType DEF RestaurantInv, NeverOvercharged
<1>15. BillWritten(b, x)
    BY <1>1, <1>2, <1>11, <1>12, <1>13, <1>14 DEF BillWritten
<1>16. \A g \in Stocked : LinesUse(x.lines, g) = LinesUse(bills[b].lines, g)
    BY <1>1, <1>2, <1>11, <1>12
<1>17. /\ serving' = [c \in Waiters |-> serving'[c]]
       /\ \A c \in Waiters : serving'[c] \in {serving[c], NotServing}
       /\ pantry' = pantry /\ made' = made /\ occupied' \subseteq Tables
    BY <1>13, RestaurantTypes
<1> QED
    BY <1>15, <1>16, <1>17, SameGoodsWritten

LEMMA TableOrderCommitsHold ==
    ASSUME RestaurantInv, NEW c \in Waiters, TableOrderCommits(c)
    PROVE  RestaurantInv'
<1>1. PICK d : d = serving[c]
    OBVIOUS
<1>2. d.at = "order" /\ serving' = [serving EXCEPT ![c] = NotServing] /\ made' = made
    BY <1>1 DEF TableOrderCommits
<1>3. d \in ServingRequests \cup {NotServing}
    BY <1>1, RestaurantTypes
<1>4. d.table \in Tables /\ d.bill \in Bills \cup {NoBill} /\ d.product \in DOMAIN Menu
    BY <1>2, <1>3, ServingFields
<1>5. PICK line : line = [product |-> d.product, kitchen |-> "pending"]
    OBVIOUS
<1>6. line \in BillLine
    BY <1>4, <1>5 DEF BillLine
<1>7. CASE ~Suffices(Uses(d.product))
  <2>1. UNCHANGED <<pantry, bills, occupied, made>>
      BY <1>1, <1>2, <1>7 DEF TableOrderCommits
  <2>2. NotServing.at # "pay"
      BY DEF NotServing
  <2> QED
      BY <1>2, <2>1, <2>2, OnlyServing
<1>8. CASE /\ Suffices(Uses(d.product)) /\ pantry' = LeftAfter(d.product)
           /\ d.bill # NoBill /\ bills' = [bills EXCEPT ![d.bill] = Added(@, d)]
           /\ UNCHANGED occupied
  <2>1. PICK b : b = d.bill
      OBVIOUS
  <2>2. b \in Bills
      BY <1>4, <1>8, <2>1
  <2>3. PICK old : old = bills[b]
      OBVIOUS
  <2>4. old \in BillPaper
      BY <2>2, <2>3, RestaurantTypes
  <2>5. PICK x : x = Added(old, d)
      OBVIOUS
  <2>6. PICK longer : longer = Append(old.lines, line)
      OBVIOUS
  <2>7. x \in BillPaper /\ x.lines = Append(old.lines, line) /\ x.billed = old.billed
    <3>1. x = [old EXCEPT !.lines = longer]
        BY <1>5, <2>5, <2>6 DEF Added
    <3>2. longer \in Seq(BillLine)
      <4>1. old.lines \in Seq(BillLine)
          BY <2>4 DEF BillPaper
      <4> QED
          BY <1>6, <2>6, <4>1
    <3> QED
        BY <2>4, <2>6, <3>1, <3>2 DEF BillPaper
  <2>8. bills' = [bills EXCEPT ![b] = x]
      BY <1>8, <2>1, <2>3, <2>5
  <2>9. occupied' \subseteq Tables
      BY <1>8, RestaurantTypes
  <2> QED
      BY <1>2, <1>4, <1>5, <1>8, <2>2, <2>3, <2>7, <2>8, <2>9, LineIsAdded
<1>9. ASSUME Suffices(Uses(d.product)), pantry' = LeftAfter(d.product), NEW b \in Bills,
             bills' = [bills EXCEPT ![b] = Added([@ EXCEPT !.table = d.table, !.status = "open"], d)],
             occupied' = occupied \cup {d.table}
      PROVE  RestaurantInv'
  <2>1. PICK old : old = bills[b]
      OBVIOUS
  <2>2. old \in BillPaper
      BY <2>1, RestaurantTypes
  <2>3. PICK open : open = [old EXCEPT !.table = d.table, !.status = "open"]
      OBVIOUS
  <2>4. open \in BillPaper /\ open.lines = old.lines /\ open.billed = old.billed
      BY <1>4, <2>2, <2>3 DEF BillPaper
  <2>5. PICK x : x = Added(open, d)
      OBVIOUS
  <2>6. PICK longer : longer = Append(open.lines, line)
      OBVIOUS
  <2>7. x \in BillPaper /\ x.lines = Append(old.lines, line) /\ x.billed = old.billed
    <3>1. x = [open EXCEPT !.lines = longer]
        BY <1>5, <2>5, <2>6 DEF Added
    <3>2. longer \in Seq(BillLine)
      <4>1. open.lines \in Seq(BillLine)
          BY <2>4 DEF BillPaper
      <4> QED
          BY <1>6, <2>6, <4>1
    <3> QED
        BY <2>4, <2>6, <3>1, <3>2 DEF BillPaper
  <2>8. bills' = [bills EXCEPT ![b] = x]
      BY <1>9, <2>1, <2>3, <2>5
  <2>9. occupied' \subseteq Tables
      BY <1>4, <1>9, RestaurantTypes
  <2> QED
      BY <1>2, <1>4, <1>5, <1>9, <2>1, <2>7, <2>8, <2>9, LineIsAdded
<1> QED
  <2>1. CASE Suffices(Uses(d.product))
    <3>1. /\ pantry' = LeftAfter(d.product)
          /\ \/ /\ d.bill # NoBill
                /\ bills' = [bills EXCEPT ![d.bill] = Added(@, d)]
                /\ UNCHANGED occupied
             \/ /\ \E b \in Bills :
                      bills' = [bills EXCEPT ![b] = Added([@ EXCEPT !.table = d.table, !.status = "open"], d)]
                /\ occupied' = occupied \cup {d.table}
        BY <1>1, <2>1 DEF TableOrderCommits
    <3> QED
        BY <1>8, <1>9, <2>1, <3>1
  <2> QED
      BY <1>7, <2>1

-----------------------------------------------------------------------------
\* What making goods does to one shelf of the pantry.
LEMMA ShelfOfMade ==
    ASSUME NEW p \in Nat, NEW q \in Int, NEW s \in Int, NEW m \in Int, NEW n \in Int,
           NEW first \in Nat, NEW gone \in Int, NEW came \in Int, NEW had \in Int,
           p + s + m = first + had, q = p - gone + came, n = m + gone
    PROVE  q + s + n = first + (had + came)
    OBVIOUS

LEMMA ProducesHold ==
    ASSUME RestaurantInv, NEW product \in DOMAIN Recipes,
           NEW wish \in 1..(Recipes[product].makes + 1), Produces(product, wish)
    PROVE  RestaurantInv'
<1>1. PICK r : r = Recipes[product]
    OBVIOUS
<1>2. r.makes \in Nat \ {0} /\ r.takes \in [Stocked -> Nat]
    BY <1>1, TakenType
<1>3. PICK k : k = Batches(wish, r.makes)
    OBVIOUS
<1>4. k \in Nat
    BY <1>1, <1>2, <1>3, BatchesType
<1>5. PICK takes : takes = [g \in Stocked |-> k * r.takes[g]]
    OBVIOUS
<1>6. takes \in [Stocked -> Nat] /\ \A g \in Stocked : takes[g] = k * r.takes[g]
  <2>1. \A g \in Stocked : k * r.takes[g] \in Nat
      BY <1>2, <1>4, Times
  <2> QED
      BY <1>5, <2>1
<1>7. PICK makes : makes = k * r.makes
    OBVIOUS
<1>8. makes \in Nat
    BY <1>2, <1>4, <1>7, Times
<1>9. /\ product \in Stocked /\ Suffices(takes)
      /\ pantry' = [g \in Stocked |-> pantry[g] - takes[g] + IF g = product THEN makes ELSE 0]
      /\ made' = [made EXCEPT ![product] = @ + k] /\ UNCHANGED <<bills, occupied, serving>>
    BY <1>1, <1>3, <1>5, <1>7 DEF Produces
<1>10. \A g \in Stocked : pantry[g] \in Nat /\ takes[g] \in Nat /\ pantry[g] >= takes[g]
    BY <1>6, <1>9, RestaurantTypes DEF Suffices
<1>11. pantry' \in [Stocked -> Nat]
  <2>1. \A g \in Stocked : pantry[g] - takes[g] + (IF g = product THEN makes ELSE 0) \in Nat
      BY <1>8, <1>10
  <2> QED
      BY <1>9, <2>1
<1>12. made \in [DOMAIN Recipes -> Nat]
    BY RestaurantTypes
<1>13. made' \in [DOMAIN Recipes -> Nat] /\ made'[product] = made[product] + k
       /\ \A a \in DOMAIN Recipes \ {product} : made'[a] = made[a]
    BY <1>4, <1>9, <1>12
<1>14. RestaurantTypeOK'
    BY <1>9, <1>11, <1>13, RestaurantTypes DEF RestaurantTypeOK, BillPaper
<1>15. NeverOvercharged' /\ TotalsStand' /\ serving' = [c \in Waiters |-> serving'[c]]
    BY <1>9 DEF RestaurantInv, NeverOvercharged, TotalsStand
<1>16. ASSUME NEW g \in Stocked
       PROVE  pantry'[g] + Sum([b \in Bills |-> LinesUse(bills'[b].lines, g)])
                 + Sum([a \in DOMAIN Recipes |-> made'[a] * Recipes[a].takes[g]])
                 = Pantry[g] + IF g \in DOMAIN Recipes THEN made'[g] * Recipes[g].makes ELSE 0
  <2>1. PICK s : s = Sum([b \in Bills |-> LinesUse(bills[b].lines, g)])
      OBVIOUS
  <2>2. PICK f : f = [a \in DOMAIN Recipes |-> made[a] * Recipes[a].takes[g]]
      OBVIOUS
  <2>3. PICK h : h = [a \in DOMAIN Recipes |-> made'[a] * Recipes[a].takes[g]]
      OBVIOUS
  <2>4. PICK had : had = IF g \in DOMAIN Recipes THEN made[g] * Recipes[g].makes ELSE 0
      OBVIOUS
  <2>5. PICK came : came = IF g = product THEN makes ELSE 0
      OBVIOUS
  <2>6. f \in [DOMAIN Recipes -> Nat] /\ h \in [DOMAIN Recipes -> Nat]
      BY <1>12, <1>13, <2>2, <2>3, AllBatches
  <2>7. h[product] = f[product] + takes[g]
    <3>1. PICK t : t = r.takes[g]
        OBVIOUS
    <3>2. PICK n : n = made[product]
        OBVIOUS
    <3>3. (n + k) * t = n * t + k * t
      <4>1. n \in Nat /\ t \in Nat
          BY <1>2, <1>12, <3>1, <3>2
      <4> QED
          BY <1>4, <4>1, TimesMore
    <3> QED
        BY <1>1, <1>6, <1>13, <2>2, <2>3, <3>1, <3>2, <3>3
  <2>8. \A a \in DOMAIN Recipes \ {product} : h[a] = f[a]
      BY <1>13, <2>2, <2>3
  <2>9. Sum(h) = Sum(f) + takes[g] /\ Sum(f) \in Int /\ Sum(h) \in Int
    <3>1. f \in [DOMAIN Recipes -> Int] /\ h \in [DOMAIN Recipes -> Int]
        BY <2>6
    <3>2. OneChanged(f, h, DOMAIN Recipes, product)
        BY <2>8, <3>1, RestaurantAssumption DEF OneChanged
    <3>3. Sum(h) = Sum(f) + h[product] - f[product] /\ Sum(f) \in Int
        BY <3>2, OneChanges
    <3>4. f[product] \in Int /\ takes[g] \in Int
        BY <1>6, <2>6
    <3>5. PICK t : t = takes[g]
        OBVIOUS
    <3>6. PICK u : u = f[product]
        OBVIOUS
    <3>7. h[product] = u + t /\ u \in Int /\ t \in Int
        BY <2>7, <3>4, <3>5, <3>6
    <3> QED
        BY <3>3, <3>5, <3>6, <3>7
  <2>10. had \in Int
    <3>1. g \in DOMAIN Recipes => made[g] * Recipes[g].makes \in Nat
      <4>1. g \in DOMAIN Recipes => made[g] \in Nat /\ Recipes[g].makes \in Nat
          BY <1>12, TakenType
      <4> QED
          BY <4>1, Times
    <3> QED
        BY <2>4, <3>1
  <2>11. (IF g \in DOMAIN Recipes THEN made'[g] * Recipes[g].makes ELSE 0) = had + came
    <3>1. CASE g = product
      <4>1. (made[g] + k) * r.makes = made[g] * r.makes + makes
          BY <1>2, <1>4, <1>7, <1>12, <3>1, TimesMore
      <4>2. had = made[g] * r.makes /\ came = makes
          BY <1>1, <2>4, <2>5, <3>1
      <4> QED
          BY <1>1, <1>13, <3>1, <4>1, <4>2
    <3>2. CASE g # product
        BY <1>13, <2>4, <2>5, <2>10, <3>2
    <3> QED
        BY <3>1, <3>2
  <2>12. s \in Int
    <3>1. \A b \in Bills : bills[b].lines \in Seq(BillLine)
        BY RestaurantTypes DEF BillPaper
    <3>2. [b \in Bills |-> LinesUse(bills[b].lines, g)] \in [Bills -> Int]
        BY <3>1, LineFigures
    <3> QED
        BY <2>1, <3>2, IntSum, RestaurantAssumption
  <2>13. pantry[g] + s + Sum(f) = Pantry[g] + had
      BY <2>1, <2>2, <2>4, PantryNow DEF RestaurantInv, PantryBalances
  <2>14. pantry'[g] = pantry[g] - takes[g] + came
      BY <1>9, <2>5
  <2>15. Pantry[g] \in Nat /\ came \in Int
      BY <1>8, <2>5, RestaurantAssumption
  <2>16. pantry'[g] \in Int /\ takes[g] \in Int /\ pantry[g] \in Nat
      BY <1>6, <1>10, <1>11
  <2>17. pantry'[g] + s + Sum(h) = Pantry[g] + (had + came)
      BY <2>9, <2>10, <2>12, <2>13, <2>14, <2>15, <2>16, ShelfOfMade
  <2> QED
      BY <1>9, <2>1, <2>3, <2>11, <2>17
<1>17. PantryAccountedFor'
    BY <1>16, PantryThen DEF PantryBalances
<1> QED
    BY <1>14, <1>15, <1>17 DEF RestaurantInv

-----------------------------------------------------------------------------
LEMMA RestaurantSteps == RestaurantInv /\ [RestaurantNext]_restaurantVars => RestaurantInv'
<1> SUFFICES ASSUME RestaurantInv, [RestaurantNext]_restaurantVars PROVE RestaurantInv'
    OBVIOUS
<1>1. ASSUME NEW c \in Waiters, NEW t \in Tables, PayReads(c, t) PROVE RestaurantInv'
    BY <1>1, PayReadsHold
<1>2. ASSUME NEW c \in Waiters, NEW t \in Tables, NEW product \in DOMAIN Menu,
             TableOrderReads(c, t, product)
      PROVE  RestaurantInv'
    BY <1>2, TableOrderReadsHold
<1>3. ASSUME NEW c \in Waiters, TableOrderCommits(c) PROVE RestaurantInv'
    BY <1>3, TableOrderCommitsHold
<1>4. ASSUME NEW c \in Waiters, PayCommits(c) PROVE RestaurantInv'
    BY <1>4, PayCommitsHold
<1>5. ASSUME NEW b \in Bills, NEW kitchen \in {"pending", "ready"},
             NEW i \in DOMAIN bills[b].lines, KitchenMarks(b, i, kitchen)
      PROVE  RestaurantInv'
    BY <1>5, KitchenMarksHold
<1>6. ASSUME NEW product \in DOMAIN Recipes,
             NEW wish \in 1..(Recipes[product].makes + 1), Produces(product, wish)
      PROVE  RestaurantInv'
    BY <1>6, ProducesHold
<1>7. CASE UNCHANGED restaurantVars
  <2>1. UNCHANGED <<pantry, bills, occupied, made, serving>>
      BY <1>7 DEF restaurantVars
  <2>2. RestaurantTypeOK' /\ NeverOvercharged' /\ TotalsStand' /\ serving' = [c \in Waiters |-> serving'[c]]
      BY <2>1 DEF RestaurantInv, RestaurantTypeOK, NeverOvercharged, TotalsStand
  <2>3. PantryAccountedFor'
      BY <2>1, PantryNow, PantryThen DEF RestaurantInv
  <2> QED
      BY <2>2, <2>3 DEF RestaurantInv
<1> QED
    BY <1>1, <1>2, <1>3, <1>4, <1>5, <1>6, <1>7 DEF RestaurantNext

THEOREM RestaurantKeepsItsBooks == RestaurantSpec => []RestaurantInv
<1>1. RestaurantInit => RestaurantInv
    BY RestaurantInitHolds
<1>2. RestaurantInv /\ [RestaurantNext]_restaurantVars => RestaurantInv'
    BY RestaurantSteps
<1> QED
    BY <1>1, <1>2, PTL DEF RestaurantSpec

\* The shape of tables, bills and the pantry, which is never below nothing
\* (pos.ts:10370).
THEOREM RestaurantHoldsItsTypes == RestaurantSpec => []RestaurantTypeOK
<1>1. RestaurantInv => RestaurantTypeOK
    BY DEF RestaurantInv
<1> QED
    BY <1>1, RestaurantKeepsItsBooks, PTL

\* Whatever is missing from the pantry is on a bill or went into what was made,
\* for any number of waiters, tables and recipes (pos.ts:10398).
THEOREM PantryAlwaysAccountedFor == RestaurantSpec => []PantryAccountedFor
<1>1. RestaurantInv => PantryAccountedFor
    BY DEF RestaurantInv
<1> QED
    BY <1>1, RestaurantKeepsItsBooks, PTL

\* Nobody is asked for more than is on the bill (pos.ts:10510).
THEOREM NobodyIsOvercharged == RestaurantSpec => []NeverOvercharged
<1>1. RestaurantInv => NeverOvercharged
    BY DEF RestaurantInv
<1> QED
    BY <1>1, RestaurantKeepsItsBooks, PTL

-----------------------------------------------------------------------------
(***************************************************************************)
(* Refunds.  One teller at a time: what is on the way was worked out from  *)
(* the returns as they still stand.  Every part but the last rounds once,  *)
(* by half a unit at most, and the last one settles.                       *)
(***************************************************************************)

OneTeller == \A c, e \in Tellers : c = e

\* What the parts so far, "back" of each line on "count" returns, have paid of
\* a whole; kept clear of fractions.
PaidFor(back, count, paid, whole) ==
    IF \A l \in Sold : back[l] = SoldLines[l].quantity
    THEN 2 * (paid - whole) <= count /\ paid >= whole
    ELSE 2 * Subtotal * paid <= 2 * (whole * Gross(back)) + count * Subtotal

\* One of the three shares of a payout.
PartOf(back, whole, before, part) ==
    IF \A l \in Sold : back[l] + part[l] >= SoldLines[l].quantity
    THEN NotNegative(whole - before) ELSE Rounded(whole * Gross(part), Subtotal)

\* The payout of a part, over figures as they are or as they will be.
PayoutOn(back, paid, part) ==
    [money |-> PartOf(back, Collected, paid.money, part),
     restored |-> PartOf(back, Redeemed, paid.restored, part),
     revoked |-> PartOf(back, Earned, paid.revoked, part)]

RefundsStand ==
    \A c \in Tellers :
        refunding[c].at \in {"codes", "write"} =>
            /\ \A l \in Sold : refunding[c].part[l] <= SoldLines[l].quantity - returned[l]
            /\ refunding[c].pay = PayoutOn(returned, refunds, refunding[c].part)

RefundShapes ==
    RefundTypeOK /\ refunding = [c \in Tellers |-> refunding[c]]

RefundInv ==
    /\ RefundShapes /\ ReturnedOnce /\ RefundsStand
    /\ PaidFor(returned, refunds.count, refunds.money, Collected)
    /\ PaidFor(returned, refunds.count, refunds.restored, Redeemed)
    /\ PaidFor(returned, refunds.count, refunds.revoked, Earned)

-----------------------------------------------------------------------------
LEMMA HalfAtMost ==
    ASSUME NEW n \in Nat, NEW d \in Nat \ {0}
    PROVE  Rounded(n, d) \in Nat /\ 2 * d * Rounded(n, d) <= 2 * n + d
<1>1. PICK x : x = 2 * n + d
    OBVIOUS
<1>2. PICK t : t = 2 * d
    OBVIOUS
<1>3. x \in Nat /\ t \in Nat \ {0}
    BY <1>1, <1>2
<1>4. PICK q : q = x \div t
    OBVIOUS
<1>5. q \in Nat /\ t * q <= x
    BY <1>3, <1>4
<1> QED
    BY <1>1, <1>2, <1>4, <1>5 DEF Rounded

LEMMA GrossType ==
    ASSUME NEW part \in [Sold -> Nat]
    PROVE  /\ [l \in Sold |-> SoldLines[l].price * part[l]] \in [Sold -> Nat]
           /\ Gross(part) \in Nat
<1>1. \A l \in Sold : SoldLines[l].price \in Nat /\ part[l] \in Nat
    BY RefundsAssumption
<1>2. \A m, n \in Nat : m * n \in Nat
    OBVIOUS
<1>3. \A l \in Sold : SoldLines[l].price * part[l] \in Nat
    BY <1>1, <1>2
<1> QED
    BY <1>3, NatSum, RefundsAssumption DEF Gross

\* What two parts come to together.
LEMMA GrossOfBoth ==
    ASSUME NEW one \in [Sold -> Nat], NEW two \in [Sold -> Nat], NEW both \in [Sold -> Nat],
           \A l \in Sold : both[l] = one[l] + two[l]
    PROVE  Gross(both) = Gross(one) + Gross(two)
<1>1. PICK f : f = [l \in Sold |-> SoldLines[l].price * one[l]]
    OBVIOUS
<1>2. PICK h : h = [l \in Sold |-> SoldLines[l].price * two[l]]
    OBVIOUS
<1>3. PICK k : k = [l \in Sold |-> SoldLines[l].price * both[l]]
    OBVIOUS
<1>4. f \in [Sold -> Nat] /\ h \in [Sold -> Nat] /\ k \in [Sold -> Nat]
    BY <1>1, <1>2, <1>3, GrossType
<1>5. \A p, m, n \in Nat : p * (m + n) = p * m + p * n
    OBVIOUS
<1>6. \A l \in Sold : k[l] = f[l] + h[l]
  <2> SUFFICES ASSUME NEW l \in Sold PROVE k[l] = f[l] + h[l]
      OBVIOUS
  <2>1. PICK p : p = SoldLines[l].price
      OBVIOUS
  <2>2. PICK m : m = one[l]
      OBVIOUS
  <2>3. PICK n : n = two[l]
      OBVIOUS
  <2>4. p \in Nat /\ m \in Nat /\ n \in Nat /\ both[l] = m + n
      BY <2>1, <2>2, <2>3, RefundsAssumption
  <2>5. p * (m + n) = p * m + p * n
      BY <1>5, <2>4
  <2> QED
      BY <1>1, <1>2, <1>3, <2>1, <2>2, <2>3, <2>4, <2>5
<1>7. LessEach(f, k, h, Sold)
  <2>1. \A l \in Sold : f[l] = k[l] - h[l]
      BY <1>4, <1>6
  <2>2. f \in [Sold -> Int] /\ h \in [Sold -> Int] /\ k \in [Sold -> Int]
      BY <1>4
  <2> QED
      BY <2>1, <2>2, RefundsAssumption DEF LessEach
<1>8. Sum(f) = Sum(k) - Sum(h) /\ Sum(k) \in Int /\ Sum(h) \in Int
    BY <1>7, LessSum
<1>9. Gross(one) = Sum(f) /\ Gross(two) = Sum(h) /\ Gross(both) = Sum(k)
    BY <1>1, <1>2, <1>3 DEF Gross
<1> QED
    BY <1>8, <1>9

LEMMA SaleFigures ==
    /\ Subtotal \in Nat \ {0} /\ Collected \in Nat /\ Redeemed \in Nat /\ Earned \in Nat
    /\ [l \in Sold |-> SoldLines[l].quantity] \in [Sold -> Nat]
    /\ \A l \in Sold : SoldLines[l].quantity \in Nat
<1>1. [l \in Sold |-> SoldLines[l].quantity] \in [Sold -> Nat]
      /\ \A l \in Sold : SoldLines[l].quantity \in Nat
    BY RefundsAssumption
<1>2. Subtotal \in Nat
    BY <1>1, GrossType DEF Subtotal
<1> QED
    BY <1>1, <1>2, RefundsAssumption DEF Collected

\* No part is worth more than the sale.
LEMMA GrossAtMost ==
    ASSUME NEW part \in [Sold -> Nat], \A l \in Sold : part[l] <= SoldLines[l].quantity
    PROVE  Gross(part) <= Subtotal
<1>1. PICK all : all = [l \in Sold |-> SoldLines[l].quantity]
    OBVIOUS
<1>2. all \in [Sold -> Nat] /\ Subtotal = Gross(all)
    BY <1>1, SaleFigures DEF Subtotal
<1>3. PICK rest : rest = [l \in Sold |-> all[l] - part[l]]
    OBVIOUS
<1>4. rest \in [Sold -> Nat]
  <2>1. \A l \in Sold : part[l] \in Nat /\ all[l] \in Nat /\ part[l] <= all[l]
      BY <1>1, <1>2
  <2>2. \A l \in Sold : all[l] - part[l] \in Nat
      BY <2>1
  <2> QED
      BY <1>3, <2>2
<1>5. \A l \in Sold : all[l] = part[l] + rest[l]
    BY <1>2, <1>3
<1>6. Gross(all) = Gross(part) + Gross(rest)
    BY <1>2, <1>4, <1>5, GrossOfBoth
<1>7. Gross(part) \in Nat /\ Gross(rest) \in Nat
    BY <1>4, GrossType
<1> QED
    BY <1>2, <1>6, <1>7

LEMMA PartType == \A part \in ReturnableParts : part \in [Sold -> Nat]
<1>1. ASSUME NEW part \in ReturnableParts PROVE part \in [Sold -> Nat]
  <2>1. PICK m : m = Max({SoldLines[l].quantity : l \in Sold})
      OBVIOUS
  <2>2. part \in [Sold -> 0..m]
      BY <2>1 DEF ReturnableParts
  <2>3. \A i \in 0..m : i \in Nat
      OBVIOUS
  <2> QED
      BY <2>2, <2>3
<1> QED
    BY <1>1

LEMMA PayoutIs == \A part : PayoutFor(part) = PayoutOn(returned, refunds, part)
    BY DEF PayoutFor, PayoutOn, PartOf

LEMMA PartIsNat ==
    ASSUME NEW back, NEW whole \in Nat, NEW before \in Nat, NEW part \in [Sold -> Nat]
    PROVE  PartOf(back, whole, before, part) \in Nat
<1>1. NotNegative(whole - before) \in Nat
    BY DEF NotNegative
<1>2. PICK g : g = Gross(part)
    OBVIOUS
<1>3. g \in Nat
    BY <1>2, GrossType
<1>4. whole * g \in Nat
    BY <1>3
<1>5. Rounded(whole * g, Subtotal) \in Nat
    BY <1>4, HalfAtMost, SaleFigures
<1> QED
    BY <1>1, <1>2, <1>5 DEF PartOf

-----------------------------------------------------------------------------
\* Arithmetic of the shares.
LEMMA OneShareMore ==
    ASSUME NEW s \in Nat \ {0}, NEW w \in Nat, NEW g \in Nat, NEW p \in Nat, NEW paid \in Nat,
           NEW n \in Nat, 2 * s * paid <= 2 * (w * g) + n * s
    PROVE  2 * s * (paid + Rounded(w * p, s)) <= 2 * (w * (g + p)) + (n + 1) * s
<1>1. PICK r : r = Rounded(w * p, s)
    OBVIOUS
<1>2. w * p \in Nat /\ w * g \in Nat
    OBVIOUS
<1>3. r \in Nat /\ 2 * s * r <= 2 * (w * p) + s
    BY <1>1, <1>2, HalfAtMost
<1>4. 2 * s * (paid + r) = 2 * s * paid + 2 * s * r
    BY <1>3
<1>5. w * (g + p) = w * g + w * p
    OBVIOUS
<1>6. (n + 1) * s = n * s + s
    OBVIOUS
<1>7. ASSUME NEW a \in Int, NEW b \in Int, NEW x \in Int, NEW y \in Int, NEW m \in Int,
             a <= 2 * x + m, b <= 2 * y + s
      PROVE  a + b <= 2 * (x + y) + (m + s)
    BY <1>7
<1>8. 2 * s * paid \in Int /\ 2 * s * r \in Int /\ n * s \in Int
    BY <1>3
<1>9. 2 * s * paid + 2 * s * r <= 2 * (w * g + w * p) + (n * s + s)
    BY <1>2, <1>3, <1>7, <1>8
<1> QED
    BY <1>1, <1>4, <1>5, <1>6, <1>9

LEMMA SharesBound ==
    ASSUME NEW s \in Nat \ {0}, NEW w \in Nat, NEW g \in Nat, g <= s, NEW paid \in Nat, NEW n \in Nat,
           2 * s * paid <= 2 * (w * g) + n * s
    PROVE  2 * (paid - w) <= n
<1>1. w * g <= w * s
    OBVIOUS
<1>2. w * g \in Int /\ w * s \in Int /\ n * s \in Int /\ 2 * s * paid \in Int
    OBVIOUS
<1>3. 2 * s * paid <= 2 * (w * s) + n * s
    BY <1>1, <1>2
<1>4. s * (2 * (paid - w) - n) <= 0
  <2>1. s * (2 * (paid - w) - n) = 2 * s * paid - 2 * (w * s) - n * s
      OBVIOUS
  <2> QED
      BY <1>2, <1>3, <2>1
<1>5. PICK e : e = 2 * (paid - w) - n
    OBVIOUS
<1>6. e \in Int /\ s * e <= 0
    BY <1>4, <1>5
<1>7. e <= 0
  <2> SUFFICES ASSUME e > 0 PROVE FALSE
      BY <1>6
  <2>1. s * e > 0
      BY <1>6
  <2> QED
      BY <1>6, <2>1
<1> QED
    BY <1>5, <1>7

\* One more return pays one more share, or settles.
LEMMA PartIsPaid ==
    ASSUME NEW back \in [Sold -> Nat], NEW part \in [Sold -> Nat], NEW n \in Nat,
           NEW whole \in Nat, NEW paid \in Nat,
           \A l \in Sold : part[l] <= SoldLines[l].quantity - back[l],
           PaidFor(back, n, paid, whole), NEW after \in [Sold -> Nat],
           \A l \in Sold : after[l] = back[l] + part[l]
    PROVE  PaidFor(after, n + 1, paid + PartOf(back, whole, paid, part), whole)
<1>1. \A l \in Sold : SoldLines[l].quantity \in Nat
    BY SaleFigures
<1>2. \A l \in Sold : back[l] <= SoldLines[l].quantity /\ after[l] <= SoldLines[l].quantity
  <2>1. \A l \in Sold : back[l] \in Nat /\ part[l] \in Nat
      OBVIOUS
  <2> QED
      BY <1>1, <2>1
<1>3. Subtotal \in Nat \ {0}
    BY SaleFigures
<1>4. PICK s : s = Subtotal
    OBVIOUS
<1>5. PICK g : g = Gross(back)
    OBVIOUS
<1>6. PICK p : p = Gross(part)
    OBVIOUS
<1>7. g \in Nat /\ p \in Nat /\ s \in Nat \ {0} /\ g <= s /\ Gross(after) = g + p
    BY <1>2, <1>3, <1>4, <1>5, <1>6, GrossType, GrossAtMost, GrossOfBoth
<1>8. CASE \A l \in Sold : back[l] + part[l] >= SoldLines[l].quantity
  <2>1. \A l \in Sold : after[l] = SoldLines[l].quantity
    <3>1. \A l \in Sold : after[l] >= SoldLines[l].quantity
        BY <1>8
    <3> QED
        BY <1>1, <1>2, <3>1
  <2>2. PartOf(back, whole, paid, part) = NotNegative(whole - paid)
      BY <1>8 DEF PartOf
  <2>3. 2 * (paid - whole) <= n
    <3>1. CASE \A l \in Sold : back[l] = SoldLines[l].quantity
        BY <3>1 DEF PaidFor
    <3>2. CASE ~ \A l \in Sold : back[l] = SoldLines[l].quantity
      <4>1. 2 * s * paid <= 2 * (whole * g) + n * s
          BY <1>4, <1>5, <3>2 DEF PaidFor
      <4> QED
          BY <1>7, <4>1, SharesBound
    <3> QED
        BY <3>1, <3>2
  <2>4. 2 * ((paid + NotNegative(whole - paid)) - whole) <= n + 1 /\ paid + NotNegative(whole - paid) >= whole
      BY <2>3 DEF NotNegative
  <2> QED
      BY <2>1, <2>2, <2>4 DEF PaidFor
<1>9. CASE ~ \A l \in Sold : back[l] + part[l] >= SoldLines[l].quantity
  <2>1. PICK l \in Sold : ~(back[l] + part[l] >= SoldLines[l].quantity)
      BY <1>9
  <2>2. back[l] \in Nat /\ part[l] \in Nat /\ SoldLines[l].quantity \in Nat /\ after[l] = back[l] + part[l]
      BY <1>1
  <2>3. back[l] # SoldLines[l].quantity /\ after[l] # SoldLines[l].quantity
      BY <2>1, <2>2
  <2>4. PartOf(back, whole, paid, part) = Rounded(whole * p, s)
      BY <1>4, <1>6, <1>9 DEF PartOf
  <2>5. 2 * s * paid <= 2 * (whole * g) + n * s
      BY <1>4, <1>5, <2>3 DEF PaidFor
  <2>6. 2 * s * (paid + Rounded(whole * p, s)) <= 2 * (whole * (g + p)) + (n + 1) * s
      BY <1>7, <2>5, OneShareMore
  <2>7. 2 * Subtotal * (paid + PartOf(back, whole, paid, part)) <= 2 * (whole * Gross(after)) + (n + 1) * Subtotal
      BY <1>4, <1>7, <2>4, <2>6
  <2> QED
      BY <2>3, <2>7 DEF PaidFor
<1> QED
    BY <1>8, <1>9

\* What has been paid in shares keeps to what a reader is promised.
LEMMA PaidSettles ==
    ASSUME NEW back \in [Sold -> Nat], NEW n \in Nat, NEW whole \in Nat, NEW paid \in Nat,
           \A l \in Sold : back[l] <= SoldLines[l].quantity, PaidFor(back, n, paid, whole)
    PROVE  /\ 2 * (paid - whole) <= n
           /\ (\A l \in Sold : back[l] = SoldLines[l].quantity) => paid >= whole
<1>1. CASE \A l \in Sold : back[l] = SoldLines[l].quantity
    BY <1>1 DEF PaidFor
<1>2. CASE ~ \A l \in Sold : back[l] = SoldLines[l].quantity
  <2>1. PICK s : s = Subtotal
      OBVIOUS
  <2>2. PICK g : g = Gross(back)
      OBVIOUS
  <2>3. s \in Nat \ {0} /\ g \in Nat /\ g <= s
      BY <2>1, <2>2, SaleFigures, GrossType, GrossAtMost
  <2>4. 2 * s * paid <= 2 * (whole * g) + n * s
      BY <1>2, <2>1, <2>2 DEF PaidFor
  <2> QED
      BY <1>2, <2>3, <2>4, SharesBound
<1> QED
    BY <1>1, <1>2

-----------------------------------------------------------------------------
LEMMA RefundTypes ==
    ASSUME RefundShapes
    PROVE  /\ returned \in [Sold -> Nat] /\ points \in Nat /\ restored \subseteq DOMAIN SoldPacks
           /\ refunds \in [count : Nat, money : Nat, restored : Nat, revoked : Nat]
           /\ refunds.count \in Nat /\ refunds.money \in Nat /\ refunds.restored \in Nat /\ refunds.revoked \in Nat
           /\ refunding = [c \in Tellers |-> refunding[c]]
           /\ \A c \in Tellers : refunding[c] \in RefundRequests \cup {NotRefunding}
<1>1. refunds \in [count : Nat, money : Nat, restored : Nat, revoked : Nat]
    BY DEF RefundShapes, RefundTypeOK
<1> QED
    BY <1>1 DEF RefundShapes, RefundTypeOK

LEMMA RefundFields ==
    ASSUME NEW d \in RefundRequests \cup {NotRefunding}, d.at \in {"codes", "write"}
    PROVE  /\ d.part \in [Sold -> Nat] /\ d.pay \in Payout
           /\ d.pay.money \in Nat /\ d.pay.restored \in Nat /\ d.pay.revoked \in Nat
           /\ d.at = "write" => d.packs \subseteq DOMAIN SoldPacks
<1>1. d.part \in [Sold -> Nat] /\ d.pay \in Payout /\ (d.at = "write" => d.packs \subseteq DOMAIN SoldPacks)
    BY DEF RefundRequests, NotRefunding
<1> QED
    BY <1>1 DEF Payout

LEMMA PayoutType ==
    ASSUME RefundShapes, NEW part \in [Sold -> Nat]
    PROVE  PayoutFor(part) \in Payout
<1>1. /\ PartOf(returned, Collected, refunds.money, part) \in Nat
      /\ PartOf(returned, Redeemed, refunds.restored, part) \in Nat
      /\ PartOf(returned, Earned, refunds.revoked, part) \in Nat
    BY RefundTypes, SaleFigures, PartIsNat
<1> QED
    BY <1>1, PayoutIs DEF Payout, PayoutOn

LEMMA RefundInitHolds ==
    RefundInit => RefundShapes /\ ReturnedOnce /\ RefundsStand
                  /\ PaidFor(returned, refunds.count, refunds.money, Collected)
                  /\ PaidFor(returned, refunds.count, refunds.restored, Redeemed)
                  /\ PaidFor(returned, refunds.count, refunds.revoked, Earned)
<1> SUFFICES ASSUME RefundInit
             PROVE  RefundShapes /\ ReturnedOnce /\ RefundsStand
                    /\ PaidFor(returned, refunds.count, refunds.money, Collected)
                    /\ PaidFor(returned, refunds.count, refunds.restored, Redeemed)
                    /\ PaidFor(returned, refunds.count, refunds.revoked, Earned)
    OBVIOUS
<1>1. /\ returned \in [Sold -> Nat] /\ \A l \in Sold : returned[l] = 0
      /\ points \in Nat /\ restored = {}
    BY SaleFigures DEF RefundInit
<1>2. /\ refunds \in [count : Nat, money : Nat, restored : Nat, revoked : Nat]
      /\ refunds.count = 0 /\ refunds.money = 0 /\ refunds.restored = 0 /\ refunds.revoked = 0
    BY DEF RefundInit
<1>3. refunding = [c \in Tellers |-> NotRefunding] /\ NotRefunding.at = "idle"
    BY DEF RefundInit, NotRefunding
<1>4. RefundShapes
    BY <1>1, <1>2, <1>3 DEF RefundShapes, RefundTypeOK
<1>5. ReturnedOnce
    BY <1>1, SaleFigures DEF ReturnedOnce
<1>6. RefundsStand
    BY <1>3 DEF RefundsStand
<1>7. ~ \A l \in Sold : returned[l] = SoldLines[l].quantity
  <2> SUFFICES ASSUME \A l \in Sold : returned[l] = SoldLines[l].quantity PROVE FALSE
      OBVIOUS
  <2>1. PICK all : all = [l \in Sold |-> SoldLines[l].price * SoldLines[l].quantity]
      OBVIOUS
  <2>2. DOMAIN all = Sold /\ \A l \in Sold : all[l] = 0
    <3>1. \A l \in Sold : SoldLines[l].quantity = 0 /\ SoldLines[l].price \in Nat
        BY <1>1, RefundsAssumption
    <3> QED
        BY <2>1, <3>1
  <2>3. Sum(all) = 0
      BY <2>2, ZeroSum, RefundsAssumption
  <2>4. Subtotal = Sum(all)
    <3>1. PICK q : q = [l \in Sold |-> SoldLines[l].quantity]
        OBVIOUS
    <3>2. [l \in Sold |-> SoldLines[l].price * q[l]] = all
        BY <2>1, <3>1
    <3> QED
        BY <3>1, <3>2 DEF Subtotal, Gross
  <2> QED
      BY <2>3, <2>4, SaleFigures
<1>8. ASSUME NEW whole \in Nat PROVE PaidFor(returned, 0, 0, whole)
  <2>1. PICK g : g = Gross(returned)
      OBVIOUS
  <2>2. g \in Nat /\ Subtotal \in Nat
      BY <1>1, <2>1, GrossType, SaleFigures
  <2>3. whole * g \in Nat
      BY <2>2
  <2>4. 2 * Subtotal * 0 <= 2 * (whole * g) + 0 * Subtotal
      BY <2>2, <2>3
  <2> QED
      BY <1>7, <2>1, <2>4 DEF PaidFor
<1> QED
    BY <1>2, <1>4, <1>5, <1>6, <1>8, SaleFigures

LEMMA RefundReadsShapes ==
    ASSUME RefundShapes, NEW c \in Tellers, NEW part \in ReturnableParts, RefundReads(c, part)
    PROVE  RefundShapes'
<1>1. PICK d : d = [at |-> "codes", part |-> part, pay |-> PayoutFor(part)]
    OBVIOUS
<1>2. d \in RefundRequests
  <2>1. part \in [Sold -> Nat]
      BY PartType
  <2>2. PayoutFor(part) \in Payout
      BY <2>1, PayoutType
  <2> QED
      BY <1>1, <2>1, <2>2 DEF RefundRequests
<1>3. refunding' = [refunding EXCEPT ![c] = d] /\ UNCHANGED <<returned, refunds, points, restored>>
    BY <1>1 DEF RefundReads
<1>4. /\ refunding' = [e \in Tellers |-> refunding'[e]]
      /\ \A e \in Tellers : refunding'[e] \in RefundRequests \cup {NotRefunding}
    BY <1>2, <1>3, RefundTypes
<1> QED
    BY <1>3, <1>4, RefundTypes DEF RefundShapes, RefundTypeOK

LEMMA PacksAreSold == \A part : \A codes \in PacksFor(part) : codes \subseteq DOMAIN SoldPacks
    BY DEF PacksFor

LEMMA RefundCodesShapes ==
    ASSUME RefundShapes, NEW c \in Tellers, RefundReadsCodes(c)
    PROVE  RefundShapes'
<1>1. PICK d : d = refunding[c]
    OBVIOUS
<1>2. d.at = "codes" /\ d \in RefundRequests \cup {NotRefunding}
    BY <1>1, RefundTypes DEF RefundReadsCodes
<1>3. d.part \in [Sold -> Nat] /\ d.pay \in Payout
    BY <1>2, RefundFields
<1>4. PICK codes \in PacksFor(d.part) :
          /\ refunding' = [refunding EXCEPT ![c] =
                 [at |-> "write", part |-> d.part, pay |-> d.pay, packs |-> codes]]
          /\ UNCHANGED <<returned, refunds, points, restored>>
    BY <1>1 DEF RefundReadsCodes
<1>5. codes \subseteq DOMAIN SoldPacks
    BY PacksAreSold
<1>6. PICK e : e = [at |-> "write", part |-> d.part, pay |-> d.pay, packs |-> codes]
    OBVIOUS
<1>7. e \in RefundRequests
    BY <1>3, <1>5, <1>6 DEF RefundRequests
<1>8. refunding' = [refunding EXCEPT ![c] = e]
    BY <1>4, <1>6
<1>9. /\ refunding' = [a \in Tellers |-> refunding'[a]]
      /\ \A a \in Tellers : refunding'[a] \in RefundRequests \cup {NotRefunding}
    BY <1>7, <1>8, RefundTypes
<1> QED
    BY <1>4, <1>9, RefundTypes DEF RefundShapes, RefundTypeOK

LEMMA RefundCommitsShapes ==
    ASSUME RefundShapes, NEW c \in Tellers, RefundCommits(c)
    PROVE  RefundShapes'
<1>1. PICK d : d = refunding[c]
    OBVIOUS
<1>2. d.at = "write" /\ d \in RefundRequests \cup {NotRefunding}
    BY <1>1, RefundTypes DEF RefundCommits
<1>3. /\ d.part \in [Sold -> Nat] /\ d.packs \subseteq DOMAIN SoldPacks
      /\ d.pay.money \in Nat /\ d.pay.restored \in Nat /\ d.pay.revoked \in Nat
    BY <1>2, RefundFields
<1>4. /\ refunding' = [refunding EXCEPT ![c] = NotRefunding]
      /\ \/ /\ returned' = [l \in Sold |-> returned[l] + d.part[l]]
            /\ refunds' = [count |-> refunds.count + 1,
                           money |-> refunds.money + d.pay.money,
                           restored |-> refunds.restored + d.pay.restored,
                           revoked |-> refunds.revoked + d.pay.revoked]
            /\ points' = BalanceAfter(points, d.pay)
            /\ restored' = restored \cup d.packs
         \/ UNCHANGED <<returned, refunds, points, restored>>
    BY <1>1 DEF RefundCommits
<1>5. /\ refunding' = [a \in Tellers |-> refunding'[a]]
      /\ \A a \in Tellers : refunding'[a] \in RefundRequests \cup {NotRefunding}
    BY <1>4, RefundTypes
<1>6. returned' \in [Sold -> Nat]
  <2>1. \A l \in Sold : returned[l] + d.part[l] \in Nat
    <3>1. \A l \in Sold : returned[l] \in Nat /\ d.part[l] \in Nat
        BY <1>3, RefundTypes
    <3> QED
        BY <3>1
  <2> QED
      BY <1>4, <2>1, RefundTypes
<1>7. refunds' \in [count : Nat, money : Nat, restored : Nat, revoked : Nat]
  <2>1. CASE UNCHANGED refunds
      BY <2>1, RefundTypes
  <2>2. CASE ~ UNCHANGED refunds
    <3>1. refunds.count + 1 \in Nat /\ refunds.money + d.pay.money \in Nat
          /\ refunds.restored + d.pay.restored \in Nat /\ refunds.revoked + d.pay.revoked \in Nat
        BY <1>3, RefundTypes
    <3> QED
        BY <1>4, <2>2, <3>1
  <2> QED
      BY <2>1, <2>2
<1>8. points' \in Nat
  <2>1. BalanceAfter(points, d.pay) \in Nat
    <3>1. PICK n : n = points + d.pay.restored - d.pay.revoked
        OBVIOUS
    <3>2. n \in Int
        BY <1>3, <3>1, RefundTypes
    <3> QED
        BY <3>1, <3>2 DEF BalanceAfter, NotNegative
  <2> QED
      BY <1>4, <2>1, RefundTypes
<1>9. restored' \subseteq DOMAIN SoldPacks
    BY <1>3, <1>4, RefundTypes
<1> QED
    BY <1>5, <1>6, <1>7, <1>8, <1>9 DEF RefundShapes, RefundTypeOK

LEMMA SpendsShapes ==
    ASSUME RefundShapes, NEW n \in 1..Earned, SpendsPoints(n)
    PROVE  RefundShapes'
<1>1. points' \in Nat
    BY RefundTypes, SaleFigures DEF SpendsPoints
<1>2. UNCHANGED <<returned, refunds, restored, refunding>>
    BY DEF SpendsPoints
<1> QED
    BY <1>1, <1>2 DEF RefundShapes, RefundTypeOK

LEMMA RefundShapesStep == RefundShapes /\ [RefundNext]_refundVars => RefundShapes'
<1> SUFFICES ASSUME RefundShapes, [RefundNext]_refundVars PROVE RefundShapes'
    OBVIOUS
<1>1. CASE UNCHANGED refundVars
    BY <1>1 DEF refundVars, RefundShapes, RefundTypeOK
<1> QED
    BY <1>1, RefundReadsShapes, RefundCodesShapes, RefundCommitsShapes, SpendsShapes DEF RefundNext

\* The shape of a sale's returns, for any number of tellers: nobody ever owes
\* points (returns.ts:133).
THEOREM RefundTypeCorrect == RefundSpec => []RefundTypeOK
<1>1. RefundInit => RefundShapes
    BY RefundInitHolds
<1>2. RefundShapes /\ [RefundNext]_refundVars => RefundShapes'
    BY RefundShapesStep
<1>3. RefundShapes => RefundTypeOK
    BY DEF RefundShapes
<1> QED
    BY <1>1, <1>2, <1>3, PTL DEF RefundSpec

-----------------------------------------------------------------------------
LEMMA RefundReadsHold ==
    ASSUME RefundInv, NEW c \in Tellers, NEW part \in ReturnableParts, RefundReads(c, part)
    PROVE  RefundsStand'
<1>1. /\ refunding' = [refunding EXCEPT ![c] = [at |-> "codes", part |-> part, pay |-> PayoutFor(part)]]
      /\ returned' = returned /\ refunds' = refunds
    BY DEF RefundReads
<1>3. PICK d : d = [at |-> "codes", part |-> part, pay |-> PayoutFor(part)]
    OBVIOUS
<1>4. /\ d.part = part /\ d.pay = PayoutOn(returned, refunds, part)
      /\ \A l \in Sold : part[l] <= SoldLines[l].quantity - returned[l]
    BY <1>3, PayoutIs DEF ReturnableParts
<1>5. \A e \in Tellers : refunding'[e] = IF e = c THEN d ELSE refunding[e]
  <2>1. refunding = [e \in Tellers |-> refunding[e]]
      BY RefundTypes DEF RefundInv
  <2> QED
      BY <1>1, <1>3, <2>1
<1>6. ASSUME NEW e \in Tellers, refunding'[e].at \in {"codes", "write"}
      PROVE  /\ \A l \in Sold : refunding'[e].part[l] <= SoldLines[l].quantity - returned'[l]
             /\ refunding'[e].pay = PayoutOn(returned', refunds', refunding'[e].part)
  <2>1. PICK q : q = refunding'[e]
      OBVIOUS
  <2>2. q = d \/ q = refunding[e]
      BY <1>5, <2>1
  <2>3. (\A l \in Sold : q.part[l] <= SoldLines[l].quantity - returned[l]) /\ q.pay = PayoutOn(returned, refunds, q.part)
      BY <1>4, <1>6, <2>1, <2>2 DEF RefundInv, RefundsStand
  <2> QED
      BY <1>1, <2>1, <2>3
<1> QED
    BY <1>6 DEF RefundsStand

LEMMA RefundCodesHold ==
    ASSUME RefundInv, NEW c \in Tellers, RefundReadsCodes(c)
    PROVE  RefundsStand'
<1>1. PICK d : d = refunding[c]
    OBVIOUS
<1>2. PICK codes :
          /\ refunding' = [refunding EXCEPT ![c] =
                 [at |-> "write", part |-> d.part, pay |-> d.pay, packs |-> codes]]
          /\ returned' = returned /\ refunds' = refunds /\ d.at = "codes"
    BY <1>1 DEF RefundReadsCodes
<1>3. PICK e : e = [at |-> "write", part |-> d.part, pay |-> d.pay, packs |-> codes]
    OBVIOUS
<1>4. (\A l \in Sold : e.part[l] <= SoldLines[l].quantity - returned[l]) /\ e.pay = PayoutOn(returned, refunds, e.part)
    BY <1>1, <1>2, <1>3 DEF RefundInv, RefundsStand
<1>5. \A a \in Tellers : refunding'[a] = IF a = c THEN e ELSE refunding[a]
  <2>1. refunding = [a \in Tellers |-> refunding[a]]
      BY RefundTypes DEF RefundInv
  <2> QED
      BY <1>2, <1>3, <2>1
<1>6. ASSUME NEW a \in Tellers, refunding'[a].at \in {"codes", "write"}
      PROVE  /\ \A l \in Sold : refunding'[a].part[l] <= SoldLines[l].quantity - returned'[l]
             /\ refunding'[a].pay = PayoutOn(returned', refunds', refunding'[a].part)
  <2>1. PICK q : q = refunding'[a]
      OBVIOUS
  <2>2. q = e \/ q = refunding[a]
      BY <1>5, <2>1
  <2>3. (\A l \in Sold : q.part[l] <= SoldLines[l].quantity - returned[l]) /\ q.pay = PayoutOn(returned, refunds, q.part)
      BY <1>4, <1>6, <2>1, <2>2 DEF RefundInv, RefundsStand
  <2> QED
      BY <1>2, <2>1, <2>3
<1> QED
    BY <1>6 DEF RefundsStand

LEMMA RefundCommitsHold ==
    ASSUME OneTeller, RefundInv, NEW c \in Tellers, RefundCommits(c)
    PROVE  /\ ReturnedOnce' /\ RefundsStand'
           /\ PaidFor(returned', refunds'.count, refunds'.money, Collected)
           /\ PaidFor(returned', refunds'.count, refunds'.restored, Redeemed)
           /\ PaidFor(returned', refunds'.count, refunds'.revoked, Earned)
<1>1. PICK d : d = refunding[c]
    OBVIOUS
<1>2. d.at = "write" /\ d \in RefundRequests \cup {NotRefunding}
    BY <1>1, RefundTypes DEF RefundInv, RefundCommits
<1>3. d.part \in [Sold -> Nat]
    BY <1>2, RefundFields
<1>4. (\A l \in Sold : d.part[l] <= SoldLines[l].quantity - returned[l]) /\ d.pay = PayoutOn(returned, refunds, d.part)
    BY <1>1, <1>2 DEF RefundInv, RefundsStand
<1>5. refunding' = [refunding EXCEPT ![c] = NotRefunding]
    BY DEF RefundCommits
<1>6. RefundsStand'
  <2>1. \A e \in Tellers : refunding'[e] = NotRefunding
    <3>1. refunding = [e \in Tellers |-> refunding[e]] /\ \A e \in Tellers : e = c
        BY RefundTypes DEF RefundInv, OneTeller
    <3> QED
        BY <1>5, <3>1
  <2> QED
      BY <2>1 DEF RefundsStand, NotRefunding
<1>7. CASE UNCHANGED <<returned, refunds>>
    BY <1>6, <1>7 DEF RefundInv, ReturnedOnce
<1>8. CASE /\ returned' = [l \in Sold |-> returned[l] + d.part[l]]
           /\ refunds' = [count |-> refunds.count + 1,
                          money |-> refunds.money + d.pay.money,
                          restored |-> refunds.restored + d.pay.restored,
                          revoked |-> refunds.revoked + d.pay.revoked]
  <2>1. PICK back : back = returned
      OBVIOUS
  <2>2. PICK after : after = returned'
      OBVIOUS
  <2>3. PICK old : old = refunds
      OBVIOUS
  <2>4. /\ back \in [Sold -> Nat] /\ old.count \in Nat
        /\ old.money \in Nat /\ old.restored \in Nat /\ old.revoked \in Nat
      BY <2>1, <2>3, RefundTypes DEF RefundInv
  <2>5. \A l \in Sold : after[l] = back[l] + d.part[l] /\ back[l] \in Nat /\ d.part[l] \in Nat
                        /\ SoldLines[l].quantity \in Nat
      BY <1>3, <1>8, <2>1, <2>2, <2>4, SaleFigures
  <2>6. after \in [Sold -> Nat] /\ \A l \in Sold : after[l] <= SoldLines[l].quantity
    <3>1. \A l \in Sold : after[l] \in Nat /\ after[l] <= SoldLines[l].quantity
        BY <1>4, <2>1, <2>5
    <3>2. after = [l \in Sold |-> after[l]]
        BY <1>8, <2>2
    <3> QED
        BY <3>1, <3>2
  <2>7. ReturnedOnce'
      BY <2>2, <2>6 DEF ReturnedOnce
  <2>8. /\ PaidFor(back, old.count, old.money, Collected)
        /\ PaidFor(back, old.count, old.restored, Redeemed)
        /\ PaidFor(back, old.count, old.revoked, Earned)
      BY <2>1, <2>3 DEF RefundInv
  <2>9. /\ d.pay.money = PartOf(back, Collected, old.money, d.part)
        /\ d.pay.restored = PartOf(back, Redeemed, old.restored, d.part)
        /\ d.pay.revoked = PartOf(back, Earned, old.revoked, d.part)
      BY <1>4, <2>1, <2>3 DEF PayoutOn
  <2>10. PICK part : part = d.part
      OBVIOUS
  <2>11. /\ part \in [Sold -> Nat] /\ \A l \in Sold : part[l] <= SoldLines[l].quantity - back[l]
         /\ \A l \in Sold : after[l] = back[l] + part[l]
      BY <1>3, <1>4, <2>1, <2>5, <2>10
  <2>12. /\ PaidFor(after, old.count + 1, old.money + PartOf(back, Collected, old.money, part), Collected)
         /\ PaidFor(after, old.count + 1, old.restored + PartOf(back, Redeemed, old.restored, part), Redeemed)
         /\ PaidFor(after, old.count + 1, old.revoked + PartOf(back, Earned, old.revoked, part), Earned)
    <3>1. Collected \in Nat /\ Redeemed \in Nat /\ Earned \in Nat
        BY SaleFigures
    <3> QED
        BY <2>4, <2>6, <2>8, <2>11, <3>1, PartIsPaid
  <2>13. /\ refunds'.count = old.count + 1 /\ refunds'.money = old.money + d.pay.money
         /\ refunds'.restored = old.restored + d.pay.restored /\ refunds'.revoked = old.revoked + d.pay.revoked
      BY <1>8, <2>3
  <2> QED
      BY <1>6, <2>2, <2>7, <2>9, <2>10, <2>12, <2>13
<1> QED
    BY <1>1, <1>7, <1>8 DEF RefundCommits

LEMMA NothingPaid ==
    ASSUME RefundInv, UNCHANGED <<returned, refunds, refunding>>
    PROVE  RefundsStand'
    BY DEF RefundInv, RefundsStand

LEMMA RefundSteps == OneTeller /\ RefundInv /\ [RefundNext]_refundVars => RefundInv'
<1> SUFFICES ASSUME OneTeller, RefundInv, [RefundNext]_refundVars PROVE RefundInv'
    OBVIOUS
<1>1. RefundShapes'
    BY RefundShapesStep DEF RefundInv
<1>2. ASSUME UNCHANGED <<returned, refunds>>, RefundsStand' PROVE RefundInv'
    BY <1>1, <1>2 DEF RefundInv, ReturnedOnce
<1>3. ASSUME NEW c \in Tellers, NEW part \in ReturnableParts, RefundReads(c, part) PROVE RefundInv'
    BY <1>2, <1>3, RefundReadsHold DEF RefundReads
<1>4. ASSUME NEW c \in Tellers, RefundReadsCodes(c) PROVE RefundInv'
    BY <1>2, <1>4, RefundCodesHold DEF RefundReadsCodes
<1>5. ASSUME NEW c \in Tellers, RefundCommits(c) PROVE RefundInv'
    BY <1>1, <1>5, RefundCommitsHold DEF RefundInv
<1>6. ASSUME NEW n \in 1..Earned, SpendsPoints(n) PROVE RefundInv'
    BY <1>2, <1>6, NothingPaid DEF SpendsPoints
<1>7. CASE UNCHANGED refundVars
    BY <1>2, <1>7, NothingPaid DEF refundVars
<1> QED
    BY <1>3, <1>4, <1>5, <1>6, <1>7 DEF RefundNext

\* A sale that comes back in parts, one teller at a time, is settled: over what
\* it took only the rounding of its parts is paid out, and all of it when
\* everything is back (returns.ts:133).
THEOREM RefundsAlwaysSettle ==
    ASSUME OneTeller
    PROVE  RefundSpec => [](RefundSettles /\ ReturnedOnce)
<1>1. RefundInit => RefundInv
    BY RefundInitHolds DEF RefundInv
<1>2. RefundInv /\ [RefundNext]_refundVars => RefundInv'
    BY RefundSteps
<1>3. RefundInv => RefundSettles /\ ReturnedOnce
  <2> SUFFICES ASSUME RefundInv PROVE RefundSettles /\ ReturnedOnce
      OBVIOUS
  <2>1. PICK back : back = returned
      OBVIOUS
  <2>2. PICK old : old = refunds
      OBVIOUS
  <2>3. /\ back \in [Sold -> Nat] /\ old.count \in Nat
        /\ old.money \in Nat /\ old.restored \in Nat /\ old.revoked \in Nat
        /\ \A l \in Sold : back[l] <= SoldLines[l].quantity
        /\ PaidFor(back, old.count, old.money, Collected)
        /\ PaidFor(back, old.count, old.restored, Redeemed)
        /\ PaidFor(back, old.count, old.revoked, Earned)
      BY <2>1, <2>2, RefundTypes DEF RefundInv, ReturnedOnce
  <2>4. /\ 2 * (old.money - Collected) <= old.count
        /\ 2 * (old.restored - Redeemed) <= old.count
        /\ 2 * (old.revoked - Earned) <= old.count
        /\ (\A l \in Sold : back[l] = SoldLines[l].quantity)
              => old.money >= Collected /\ old.restored >= Redeemed /\ old.revoked >= Earned
    <3>1. Collected \in Nat /\ Redeemed \in Nat /\ Earned \in Nat
        BY SaleFigures
    <3> QED
        BY <2>3, <3>1, PaidSettles
  <2> QED
      BY <2>1, <2>2, <2>4 DEF RefundInv, RefundSettles
<1> QED
    BY <1>1, <1>2, <1>3, PTL DEF RefundSpec

-----------------------------------------------------------------------------
(* Together: whichever component a behaviour is about, it is a behaviour of each. *)

LEMMA DocumentsBuy == Spec => BuySpec
<1>1. Init => BuyInit
    BY DEF Init
<1>2. [Next]_vars => [BuyNext]_buyVars
    BY DEF Next, vars
<1> QED
    BY <1>1, <1>2, PTL DEF Spec, BuySpec

LEMMA DocumentsDesk == Spec => DeskSpec
<1>1. Init => DeskInit
    BY DEF Init
<1>2. [Next]_vars => [DeskNext]_deskVars
    BY DEF Next, vars
<1> QED
    BY <1>1, <1>2, PTL DEF Spec, DeskSpec

LEMMA DocumentsTransfer == Spec => TransferSpec
<1>1. Init => TransferInit
    BY DEF Init
<1>2. [Next]_vars => [TransferNext]_transferVars
    BY DEF Next, vars
<1> QED
    BY <1>1, <1>2, PTL DEF Spec, TransferSpec

LEMMA DocumentsRestaurant == Spec => RestaurantSpec
<1>1. Init => RestaurantInit
    BY DEF Init
<1>2. [Next]_vars => [RestaurantNext]_restaurantVars
    BY DEF Next, vars
<1> QED
    BY <1>1, <1>2, PTL DEF Spec, RestaurantSpec

LEMMA DocumentsRefund == Spec => RefundSpec
<1>1. Init => RefundInit
    BY DEF Init
<1>2. [Next]_vars => [RefundNext]_refundVars
    BY DEF Next, vars
<1> QED
    BY <1>1, <1>2, PTL DEF Spec, RefundSpec

\* Whatever else goes on between the papers, goods come in only on an order that
\* was approved and sent, and a decision is made on an order as it stands
\* (pos.ts:5382, pos.ts:5424).
THEOREM ApprovalsAlwaysHold == Spec => ApprovalsHold
    BY DocumentsBuy, OnlyApprovedEverArrives, DecisionsAlwaysInOrder DEF ApprovalsHold

\* The papers stay what the database can hold (PapersTypeOK): no shelf, pantry
\* or balance goes below nothing, and nobody ships, receives or sends back more
\* than there was (pos.ts:1455, pos.ts:10398).
THEOREM PapersHoldTheirTypes == Spec => []PapersTypeOK
<1>1. BuyingInv => BuyTypeOK
    BY DEF BuyingInv
<1>2. Spec => []BuyTypeOK
    BY <1>1, DocumentsBuy, BuyAlwaysHolds, PTL
<1>3. PapersTypeOK
        <=> TransferTypeOK /\ DeskTypeOK /\ BuyTypeOK /\ RefundTypeOK /\ RestaurantTypeOK
    BY DEF PapersTypeOK
<1> QED
    BY <1>2, <1>3, DocumentsTransfer, TransferTypes, DocumentsDesk, DeskTypes, DocumentsRefund,
       RefundTypeCorrect, DocumentsRestaurant, RestaurantHoldsItsTypes, PTL

\* What is held back is what open orders were promised, whatever else goes on
\* between the papers (picking.ts:144).
THEOREM DeskAlwaysHoldsForOpenOrders == Spec => []HoldsAreOpenOrders
    BY DocumentsDesk, HoldsAreAlwaysOpenOrders, PTL

\* No unit appears or vanishes, on the road or in the kitchen (pos.ts:9032,
\* pos.ts:10398).
THEOREM GoodsAlwaysAccountedFor == Spec => []GoodsAccountedFor
<1>1. GoodsAccountedFor <=> TransfersAccountedFor /\ PantryAccountedFor
    BY DEF GoodsAccountedFor
<1> QED
    BY <1>1, DocumentsTransfer, TransfersAlwaysAccountedFor, DocumentsRestaurant,
       PantryAlwaysAccountedFor, PTL

\* Packs go where their goods go, over the road and out of the door
\* (pos.ts:9138, pos.ts:8409).
THEOREM PacksAlwaysGoWithGoods == Spec => []PacksGoWithGoods
<1>1. PacksGoWithGoods <=> PacksFollowGoods /\ PacksLeaveWithGoods
    BY DEF PacksGoWithGoods
<1> QED
    BY <1>1, DocumentsTransfer, PacksAlwaysFollowGoods, DocumentsDesk, PacksAlwaysLeaveWithGoods, PTL

\* With one teller at a time refunds settle to what the sale took, and nobody
\* pays for what the table never had (returns.ts:133, pos.ts:10510).
THEOREM GuestsMoneyIsAlwaysRight ==
    ASSUME OneTeller
    PROVE  Spec => []GuestsMoneyIsRight
<1>1. RefundSettles /\ ReturnedOnce => RefundSettles
    OBVIOUS
<1>2. Spec => []RefundSettles
    BY <1>1, DocumentsRefund, RefundsAlwaysSettle, PTL
<1>3. GuestsMoneyIsRight <=> RefundSettles /\ NeverOvercharged
    BY DEF GuestsMoneyIsRight
<1> QED
    BY <1>2, <1>3, DocumentsRestaurant, NobodyIsOvercharged, PTL
=============================================================================
