------------------------------- MODULE Checkout -------------------------------
(***************************************************************************)
(* The money side of a sale to a known customer: points, debt, payment,    *)
(* and the settlements that pay the debt off.                              *)
(*                                                                         *)
(* Credit is checked before the transaction, the points are read in it and *)
(* written under a condition, and what was paid has to be exactly what is  *)
(* left.  A settlement works out what it pays for before it writes.        *)
(***************************************************************************)
EXTENDS Collections, FiniteSetsExt

CONSTANTS
    Receipts,       \* sales that may be made, numbered by time
    Prices,         \* what one may cost, after the discount
    EarnRate,       \* percent of the paid sum that comes back as points
    CreditLimit,    \* of the account; 0 is no limit
    FirstPoints,    \* the balance at the start
    Tills,          \* requests being served at a time
    MaxSettled      \* bound: money brought to pay the debt

ASSUME CheckoutAssumption ==
    /\ Receipts \subseteq Nat /\ IsFiniteSet(Receipts) /\ Prices \subseteq Nat \ {0}
    /\ EarnRate \in 0..100 /\ CreditLimit \in Nat /\ FirstPoints \in Nat /\ MaxSettled \in Nat

VARIABLES
    balance,        \* the customer's points
    receipts,       \* the sales
    settled,        \* what was paid or brought back on each of them
    unapplied,      \* money taken with nothing to put it on
    taken,          \* all the money settlements brought
    selling,        \* requests between what they read and what they write
    running         \* whether the server process is up

checkoutVars == <<balance, receipts, settled, unapplied, taken, selling, running>>

NotSelling == [at |-> "idle"]
NoReceipt == [made |-> FALSE, price |-> 0, redeemed |-> 0, earned |-> 0, paid |-> 0, credit |-> FALSE]
Made == {r \in Receipts : receipts[r].made}
Debts == {r \in Made : receipts[r].credit}
Owed(r) == receipts[r].price - receipts[r].redeemed

\* computeBalance: charged less settled less what lies on no document.
Balance == Sum([r \in Debts |-> Owed(r) - settled[r]]) - unapplied

CheckoutInit ==
    /\ balance = FirstPoints
    /\ receipts = [r \in Receipts |-> NoReceipt]
    /\ settled = [r \in Receipts |-> 0]
    /\ unapplied = 0
    /\ taken = 0
    /\ selling = [c \in Tills |-> NotSelling]
    /\ running = TRUE

-----------------------------------------------------------------------------
(* A sale. *)

Redeemable(price, points, wish) == Min({price, points, wish})

WithinLimit(debt) == CreditLimit = 0 \/ Balance + debt <= CreditLimit

\* What the till sends: the sum it wants paid with points and the sum it took,
\* worked out from the points it last saw.
SaleReads(c, price, wish, took, credit) ==
    /\ running
    /\ selling[c] = NotSelling
    /\ credit => WithinLimit(price - Redeemable(price, balance, wish))
    /\ selling' = [selling EXCEPT ![c] =
          [at |-> "points", price |-> price, wish |-> wish, took |-> took, credit |-> credit]]
    /\ UNCHANGED <<balance, receipts, settled, unapplied, taken, running>>

SaleReadsPoints(c) ==
    LET d == selling[c]
        redeemed == Redeemable(d.price, balance, d.wish)
    IN
    /\ d.at = "points"
    /\ selling' = [selling EXCEPT ![c] =
          [at |-> "write", price |-> d.price, took |-> d.took, credit |-> d.credit, seen |-> balance,
           redeemed |-> redeemed, earned |-> ((d.price - redeemed) * EarnRate) \div 100]]
    /\ UNCHANGED <<balance, receipts, settled, unapplied, taken, running>>

\* resolveSalePayments: exactly what is left, and nothing when nothing is.
PaymentFits(d) == d.price = d.redeemed \/ d.took = d.price - d.redeemed

\* Points taken off whatever is there.
PointsEnough(d) == balance >= d.redeemed

\* The balance that was read, moved.
PointsAfter(d) == balance + d.earned - d.redeemed

\* The update of the points is under way before the payment is looked at, and
\* its refusal is caught only after the document is written: until then nobody
\* handles it, and the process ends with all its requests.
SaleCommits(c, r) ==
    LET d == selling[c] IN
    /\ d.at = "write"
    /\ r \notin Made
    /\ IF PointsEnough(d)
       THEN /\ selling' = [selling EXCEPT ![c] = NotSelling]
            /\ UNCHANGED running
            /\ IF PaymentFits(d)
               THEN /\ receipts' = [receipts EXCEPT ![r] =
                           [made |-> TRUE, price |-> d.price, redeemed |-> d.redeemed,
                            earned |-> d.earned,
                            paid |-> IF d.price = d.redeemed THEN 0 ELSE d.took, credit |-> d.credit]]
                    /\ balance' = PointsAfter(d)
               ELSE UNCHANGED <<receipts, balance>>
       ELSE /\ running' = FALSE
            /\ selling' = [t \in Tills |-> NotSelling]
            /\ UNCHANGED <<receipts, balance>>
    /\ UNCHANGED <<settled, unapplied, taken>>

Restarts ==
    /\ ~running
    /\ running' = TRUE
    /\ UNCHANGED <<balance, receipts, settled, unapplied, taken, selling>>

-----------------------------------------------------------------------------
(* Paying the debt off. *)

Unsettled(r) == NotNegative(Owed(r) - settled[r])

\* Oldest first; what is left over is kept aside.
AllocatePayment(amount) ==
    LET debts == InOrder(amount, [r \in Debts |-> Unsettled(r)])
    IN [r \in Receipts |-> IF r \in Debts THEN debts[r] ELSE 0]

SettlementReads(c, amount) ==
    /\ running
    /\ selling[c] = NotSelling
    /\ amount > 0 /\ taken + amount <= MaxSettled
    /\ selling' = [selling EXCEPT ![c] = [at |-> "settle", amount |-> amount,
                                           parts |-> AllocatePayment(amount)]]
    /\ UNCHANGED <<balance, receipts, settled, unapplied, taken, running>>

\* Forgetting the money that fits no document.
LeftOver(d) == d.amount - Sum(d.parts)

SettlementCommits(c) ==
    LET d == selling[c] IN
    /\ d.at = "settle"
    /\ selling' = [selling EXCEPT ![c] = NotSelling]
    /\ settled' = [r \in Receipts |-> settled[r] + d.parts[r]]
    /\ unapplied' = unapplied + LeftOver(d)
    /\ taken' = taken + d.amount
    /\ UNCHANGED <<balance, receipts, running>>

CheckoutNext ==
    \/ \E c \in Tills, price \in Prices, credit \in BOOLEAN :
          \E wish \in 0..price : \E took \in (price - wish)..price :
               SaleReads(c, price, wish, took, credit)
    \/ \E c \in Tills :
           SaleReadsPoints(c) \/ SettlementCommits(c) \/ \E r \in Receipts : SaleCommits(c, r)
    \/ \E c \in Tills, amount \in 1..MaxSettled : SettlementReads(c, amount)
    \/ Restarts

CheckoutSpec == CheckoutInit /\ [][CheckoutNext]_checkoutVars

-----------------------------------------------------------------------------
\* The shape of the state; nobody spends points that are not there.
CheckoutTypeOK ==
    /\ balance \in Nat /\ unapplied \in Nat /\ taken \in Nat /\ running \in BOOLEAN
    /\ receipts \in [Receipts -> [made : BOOLEAN, price : Nat, redeemed : Nat, earned : Nat,
                                  paid : Nat, credit : BOOLEAN]]
    /\ settled \in [Receipts -> Nat]
    /\ \A c \in Tills : selling[c].at \in {"idle", "points", "write", "settle"}

\* Two registers never spend the same points and never overwrite each other's
\* ("an absolute write computed from a balance read earlier lets two registers
\* spend the same points twice", pos.ts:1166): the balance is what the receipts
\* say.
PointsAddUp ==
    balance = FirstPoints + Sum([r \in Receipts |-> receipts[r].earned - receipts[r].redeemed])

\* Every receipt was paid, or put down as debt, to exactly what it says after
\* points that may have changed since the till looked (payments.ts:119).
PaidExactly == \A r \in Made : receipts[r].paid = Owed(r)

\* However many people take money at once, what the customer owes is what was
\* taken on credit less all the money that was brought (settlements.ts:33).
DebtIsMoney == Balance = Sum([r \in Debts |-> receipts[r].paid]) - taken

\* The debt stays within the limit that was set (settlements.ts:117).
\* (The code does not keep this: README.)
DebtWithinLimit == CreditLimit > 0 => Balance <= CreditLimit

\* The sale that lost the points is answered so, "repeat the sale"
\* (pos.ts:1311): nobody else's request ends with it.
\* (The code does not keep this: README.)
LoserIsAnswered == running
=============================================================================
