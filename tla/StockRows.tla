------------------------------ MODULE StockRows ------------------------------
(***************************************************************************)
(* The arithmetic of the stock rows of one product at one location.        *)
(*                                                                         *)
(* A location holds a product in as many bins as it likes, one row of the  *)
(* table "stocks" per bin.  A row counts what is on the shelf (quantity),  *)
(* what is promised to open orders (reserved) and what is held out of sale *)
(* by a quarantine or a bin block (blocked).  A bin in which the product   *)
(* was never put is a row of zeros.                                        *)
(*                                                                         *)
(* How a request spreads an amount over the bins is stated here as a       *)
(* condition on the finished split, not as the loop that finds it.         *)
(***************************************************************************)
EXTENDS Integers, FiniteSets, Collections

\* The bins, numbered in the order of their codes; Unplaced is the code '' of
\* goods nobody has put on a shelf yet.
CONSTANT Bins

Unplaced == 0

ASSUME BinsAssumption ==
    /\ Bins \subseteq Nat /\ IsFiniteSet(Bins)
    /\ Unplaced \in Bins

Row == [quantity : Nat, reserved : Nat, blocked : Nat]
Split == [Bins -> Nat]

NoRow == [quantity |-> 0, reserved |-> 0, blocked |-> 0]
Nothing == [b \in Bins |-> 0]

AtLeastZero(n) == IF n < 0 THEN 0 ELSE n
Smaller(m, n) == IF m < n THEN m ELSE n

QuantityOf(rows) == [b \in Bins |-> rows[b].quantity]
ReservedOf(rows) == [b \in Bins |-> rows[b].reserved]
BlockedOf(rows) == [b \in Bins |-> rows[b].blocked]

\* What may be sold from a row, or newly held on it.  It may be negative: a
\* hold can outlive the goods.
Available(row) == row.quantity - row.reserved - row.blocked
AvailableOf(rows) == [b \in Bins |-> Available(rows[b])]

OnHand(rows) == Sum(QuantityOf(rows))
OnOffer(rows) == Sum(AvailableOf(rows))
Held(rows) == Sum(ReservedOf(rows))

Touched(split) == {b \in Bins : split[b] > 0}
Only(b, n) == [Nothing EXCEPT ![b] = n]

-----------------------------------------------------------------------------
(* Spreading an amount over the bins.  The loops of the code go through the  *)
(* bins in some order and take from each what it offers until nothing is     *)
(* left to take.  So a bin gives the smaller of what it offers and what the  *)
(* bins before it have left over.                                            *)

Poured(need, room, Before(_, _)) ==
    LET open == [b \in Bins |-> AtLeastZero(room[b])]
        left(b) == AtLeastZero(need - SumOver(open, {c \in Bins : Before(c, b)}))
    IN [b \in Bins |-> Smaller(open[b], left(b))]

\* The split as a set of one, which is where its type is stated.
PouredSet(need, room, Before(_, _)) == {Poured(need, room, Before)} \cap Split

\* Named shelves before the unplaced pile, then the emptier bin first.
DrawnBefore(room, b, c) ==
    IF (b = Unplaced) # (c = Unplaced) THEN c = Unplaced
    ELSE room[b] < room[c] \/ (room[b] = room[c] /\ b < c)

\* Taking need out of bins that offer room, or no split at all when together
\* they do not offer enough.
FromBins(need, room) ==
    {take \in PouredSet(need, room, LAMBDA c, b : DrawnBefore(room, c, b)) : Sum(take) = need}

\* Lifting a hold of the given size off the bins that hold some of it,
\* starting where most is held.  It never refuses: short of holds, it lifts
\* what there is.
ReleaseParts(size, hold) ==
    PouredSet(size, hold, LAMBDA c, b : hold[c] > hold[b] \/ (hold[c] = hold[b] /\ c < b))

\* Taking need by a loop over the rows in whatever order the database returned
\* them.
InReadOrder(need, room) ==
    {take \in UNION {PouredSet(need, room, LAMBDA c, b : place[c] < place[b]) :
                        place \in Fn!Injection(Bins, 1..Cardinality(Bins))} :
        Sum(take) = need}

-----------------------------------------------------------------------------
(* What the single statements do to the rows. *)

Taken(rows, take) ==
    [b \in Bins |-> [rows[b] EXCEPT !.quantity = @ - take[b]]]

Added(rows, give) ==
    [b \in Bins |-> [rows[b] EXCEPT !.quantity = @ + give[b]]]

Reserved(rows, part) ==
    [b \in Bins |-> [rows[b] EXCEPT !.reserved = @ + part[b]]]

Released(rows, part) ==
    [b \in Bins |-> [rows[b] EXCEPT !.reserved = AtLeastZero(@ - part[b])]]

Blocked(rows, part) ==
    [b \in Bins |-> [rows[b] EXCEPT !.blocked = @ + part[b]]]

\* Unblocking that is refused elsewhere when it would go below zero, and
\* unblocking that is floored, are the same function of the row.
Unblocked(rows, part) ==
    [b \in Bins |-> [rows[b] EXCEPT !.blocked = AtLeastZero(@ - part[b])]]

\* The write guards, evaluated by the UPDATE on the locked row.
\* CoversNothing is a write that trusts the check made on the snapshot.
CoversNothing(rows, take) == TRUE

CoversOnHand(rows, take) ==
    \A b \in Touched(take) : rows[b].quantity >= take[b]

CoversUnreserved(rows, take) ==
    \A b \in Touched(take) : rows[b].quantity - rows[b].reserved >= take[b]

CoversAvailable(rows, take) ==
    \A b \in Touched(take) : Available(rows[b]) >= take[b]

CoversBlocked(rows, take) ==
    \A b \in Touched(take) : rows[b].blocked >= take[b]

\* A count that leaves the holds as they were.
TrimsNothing(row) == [reserved |-> 0, blocked |-> 0]

\* After a count: the holds of a row are cut down to the goods that are left,
\* quarantine first and promises to customers last.
TrimHolds(row) ==
    LET overhang == AtLeastZero(row.reserved + row.blocked - row.quantity)
        fromBlocked == Smaller(row.blocked, overhang)
        fromReserved == Smaller(row.reserved, overhang - fromBlocked)
    IN [reserved |-> fromReserved, blocked |-> fromBlocked]

Trimmed(rows) ==
    [b \in Bins |-> [rows[b] EXCEPT !.reserved = @ - TrimHolds(rows[b]).reserved,
                                    !.blocked = @ - TrimHolds(rows[b]).blocked]]
=============================================================================
