------------------------------- MODULE Refunds -------------------------------
(***************************************************************************)
(* Returns against one sale: how much of it may still come back, what part *)
(* of the money and of the loyalty points goes with it, and which marked   *)
(* packs are on the shelf again.                                           *)
(*                                                                         *)
(* The money is a share of what the sale collected after its discount and  *)
(* the points that paid for part of it; the return that completes the sale *)
(* hands back what is still owed.  Amounts are whole.                      *)
(***************************************************************************)
EXTENDS Collections, FiniteSetsExt

CONSTANTS
    SoldLines,      \* the sale: [line -> [quantity, price]]
    SoldPacks,      \* the marked packs among it: [pack -> line]
    Discount,       \* taken off the sale
    Redeemed,       \* points that paid for part of it
    Earned,         \* points it brought
    Tellers         \* requests being served at a time

Sold == DOMAIN SoldLines
Gross(part) == Sum([l \in Sold |-> SoldLines[l].price * part[l]])
Subtotal == Gross([l \in Sold |-> SoldLines[l].quantity])
\* receiptTotal: lines less discount less points.
Collected == Subtotal - Discount - Redeemed

ASSUME RefundsAssumption ==
    /\ IsFiniteSet(Sold) /\ SoldLines \in [Sold -> [quantity : Nat, price : Nat]]
    /\ Discount \in Nat /\ Redeemed \in Nat /\ Earned \in Nat
    /\ Subtotal > 0 /\ Collected >= 0
    /\ \A k \in DOMAIN SoldPacks : SoldPacks[k] \in Sold

VARIABLES
    returned,   \* the units of each line on the returns so far
    refunds,    \* how many returns there are, and what they paid out
    points,     \* the customer's balance
    restored,   \* packs that are back on the shelf
    refunding   \* requests between what they read and what they write

refundVars == <<returned, refunds, points, restored, refunding>>

NotRefunding == [at |-> "idle"]
Payout == [money : Nat, restored : Nat, revoked : Nat]
RefundRequests ==
    [at : {"codes"}, part : [Sold -> Nat], pay : Payout]
    \cup [at : {"write"}, part : [Sold -> Nat], pay : Payout, packs : SUBSET DOMAIN SoldPacks]

RefundInit ==
    /\ returned = [l \in Sold |-> 0]
    /\ refunds = [count |-> 0, money |-> 0, restored |-> 0, revoked |-> 0]
    /\ points = Earned
    /\ restored = {}
    /\ refunding = [c \in Tellers |-> NotRefunding]

-----------------------------------------------------------------------------
Rounded(n, d) == (2 * n + d) \div (2 * d)

\* Settling the whole sale with its last return, paid out before or not.
PayoutAgain(part) ==
    LET last == \A l \in Sold : returned[l] + part[l] >= SoldLines[l].quantity
        of(whole) == IF last THEN whole ELSE Rounded(whole * Gross(part), Subtotal)
    IN [money |-> of(Collected), restored |-> of(Redeemed), revoked |-> of(Earned)]

\* A share by list price, or what is still owed when this completes the sale.
PayoutFor(part) ==
    LET last == \A l \in Sold : returned[l] + part[l] >= SoldLines[l].quantity
        of(whole, before) ==
            IF last THEN NotNegative(whole - before) ELSE Rounded(whole * Gross(part), Subtotal)
    IN [money |-> of(Collected, refunds.money),
        restored |-> of(Redeemed, refunds.restored),
        revoked |-> of(Earned, refunds.revoked)]

\* At most what earlier returns have left of each line.
ReturnableParts ==
    {part \in [Sold -> 0..Max({SoldLines[l].quantity : l \in Sold})] :
        Sum(part) > 0 /\ \A l \in Sold : part[l] <= SoldLines[l].quantity - returned[l]}

RefundReads(c, part) ==
    /\ refunding[c] = NotRefunding
    /\ part \in ReturnableParts
    /\ refunding' = [refunding EXCEPT ![c] = [at |-> "codes", part |-> part, pay |-> PayoutFor(part)]]
    /\ UNCHANGED <<returned, refunds, points, restored>>

\* The packs that come back, of those of this sale that are still sold.
PacksFor(part) ==
    {S \in SUBSET (DOMAIN SoldPacks \ restored) :
        \A l \in Sold :
            LET mine(T) == {k \in T : SoldPacks[k] = l}
            IN IF part[l] = 0 THEN mine(S) = {}
               ELSE mine(S) \in PickedCodes(part[l], mine(DOMAIN SoldPacks \ restored))}

RefundReadsCodes(c) ==
    /\ refunding[c].at = "codes"
    /\ \E packs \in PacksFor(refunding[c].part) :
          refunding' = [refunding EXCEPT ![c] =
             [at |-> "write", part |-> refunding[c].part, pay |-> refunding[c].pay, packs |-> packs]]
    /\ UNCHANGED <<returned, refunds, points, restored>>

BalanceAfter(balance, pay) == NotNegative(balance + pay.restored - pay.revoked)

\* Only the packs are asked again; a pack that is back already undoes it all.
RefundCommits(c) ==
    LET d == refunding[c] IN
    /\ d.at = "write"
    /\ refunding' = [refunding EXCEPT ![c] = NotRefunding]
    /\ IF d.packs \cap restored = {}
       THEN /\ returned' = [l \in Sold |-> returned[l] + d.part[l]]
            /\ refunds' = [count |-> refunds.count + 1,
                           money |-> refunds.money + d.pay.money,
                           restored |-> refunds.restored + d.pay.restored,
                           revoked |-> refunds.revoked + d.pay.revoked]
            /\ points' = BalanceAfter(points, d.pay)
            /\ restored' = restored \cup d.packs
       ELSE UNCHANGED <<returned, refunds, points, restored>>

\* The customer pays for something else with points.
SpendsPoints(n) ==
    /\ n > 0 /\ points >= n
    /\ points' = points - n
    /\ UNCHANGED <<returned, refunds, restored, refunding>>

RefundNext ==
    \/ \E c \in Tellers :
          \/ \E part \in ReturnableParts : RefundReads(c, part)
          \/ RefundReadsCodes(c)
          \/ RefundCommits(c)
    \/ \E n \in 1..Earned : SpendsPoints(n)

RefundSpec == RefundInit /\ [][RefundNext]_refundVars

-----------------------------------------------------------------------------
\* The shape of the state; nobody owes points.
RefundTypeOK ==
    /\ returned \in [Sold -> Nat]
    /\ refunds \in [count : Nat, money : Nat, restored : Nat, revoked : Nat]
    /\ points \in Nat
    /\ restored \subseteq DOMAIN SoldPacks
    /\ \A c \in Tellers : refunding[c] \in RefundRequests \cup {NotRefunding}

\* "It can never give back more than that sale sold" (pos.ts:1455).
ReturnedOnce == \A l \in Sold : returned[l] <= SoldLines[l].quantity

\* However a sale comes back in parts, the rounding of the parts is all that
\* can be paid out over what was collected, and a customer who returned
\* everything has all of the money and of the points back ("what is still owed,
\* not what the sale took", returns.ts:133).
RefundSettles ==
    LET complete == \A l \in Sold : returned[l] = SoldLines[l].quantity
        settles(paid, whole) == 2 * (paid - whole) <= refunds.count /\ (complete => paid >= whole)
    IN /\ settles(refunds.money, Collected)
       /\ settles(refunds.restored, Redeemed)
       /\ settles(refunds.revoked, Earned)
=============================================================================
