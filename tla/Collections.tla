----------------------------- MODULE Collections -----------------------------
(***************************************************************************)
(* What the figures of several rows come to together, what of a list is    *)
(* left when some of it is passed over, and how an amount is spread over   *)
(* numbered places that each have some room.                               *)
(***************************************************************************)
EXTENDS Integers, FiniteSets, Sequences
Fn == INSTANCE Functions

SumOver(amounts, S) == Fn!SumFunctionOnSet(amounts, S)
Sum(amounts) == Fn!SumFunction(amounts)

\* What of a list is in S, in the order of the list.
Kept(list, S) ==
    LET places == 0..Len(list)
        upTo[n \in places] ==
            IF n = 0 THEN <<>>
            ELSE IF list[n] \in S THEN Append(upTo[n - 1], list[n]) ELSE upTo[n - 1]
    IN upTo[Len(list)]

\* The program spreads with loops that go through batches, document lines or bins
\* in some order and take the smaller of what is there and what is still wanted.
\* A place therefore gives what the places before it left over.
NotNegative(n) == IF n < 0 THEN 0 ELSE n
Lesser(m, n) == IF m < n THEN m ELSE n

Spread(need, room, Before(_, _)) ==
    LET open == [b \in DOMAIN room |-> NotNegative(room[b])]
        left(b) == NotNegative(need - SumOver(open, {c \in DOMAIN room : Before(c, b)}))
    IN [b \in DOMAIN room |-> Lesser(open[b], left(b))]

\* Smallest number first: the earliest expiry, the oldest bill.
InOrder(need, room) == Spread(need, room, LAMBDA c, b : c < b)

\* The marked packs that go with a quantity: those that were scanned, or all
\* there are when the number leaves no choice; without a scan anything else is
\* refused, and goods without codes need none.
PickedCodes(quantity, there) ==
    IF there = {} THEN {{}} ELSE {S \in SUBSET there : Cardinality(S) = quantity}
=============================================================================
