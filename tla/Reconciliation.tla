---------------------------- MODULE Reconciliation ----------------------------
(***************************************************************************)
(* Repairing the books while the shop trades.                              *)
(*                                                                         *)
(* The rows of "stocks" are a cache of the movements, the batches a second *)
(* book beside them and the holds a third.  A repair lists what disagrees  *)
(* and then, in one transaction, sets the rows from the movements, cuts    *)
(* the batches to the rows and the blocked part of the holds to what is    *)
(* left.  Its own writes are seen by others at its end, and lock the rows  *)
(* until then.  A row that is missing is made with the sum the list had,   *)
(* and when somebody else has made it by then the whole repair fails.      *)
(*                                                                         *)
(* One product at one location, with one batch of it.                      *)
(***************************************************************************)
EXTENDS Collections

CONSTANTS
    RepairShelves,  \* bins
    Sellers,        \* sales being written at a time
    Menders,        \* repairs under way at a time
    MostInBooks,    \* bound: the numbers the books start with
    MaxTrades       \* bound: sales, deliveries and quarantines

ASSUME ReconciliationAssumption ==
    IsFiniteSet(RepairShelves) /\ MostInBooks \in Nat /\ MaxTrades \in Nat

VARIABLES
    rows,           \* "stocks"
    absent,         \* shelves with movements perhaps, but no row: they count as none there
    ledger,         \* the sum of the movements of each shelf
    batched,        \* the quantity of the batch
    sales,          \* sales that hold a row and are not committed
    repairs,        \* the repairs
    trades,         \* how much was traded
    astray          \* shelves whose row was wrong at the start, or set wrongly

repairVars == <<rows, absent, ledger, batched, sales, repairs, trades, astray>>

Idle == [at |-> "idle"]
Empty == [s \in {} |-> 0]
With(f, s, n) == [t \in DOMAIN f \cup {s} |-> IF t = s THEN n ELSE f[t]]
HeldBySale == {sales[p].shelf : p \in {q \in Sellers : sales[q] # Idle}}
FixedBy(m) == IF repairs[m] = Idle THEN {} ELSE DOMAIN repairs[m].fixed
TrimmedBy(m) == IF repairs[m] = Idle THEN {} ELSE DOMAIN repairs[m].trimmed
Locked(s) == s \in HeldBySale \/ \E m \in Menders : s \in FixedBy(m) \cup TrimmedBy(m)
LockedToOthers(m, s) == s \in HeldBySale \/ \E n \in Menders \ {m} : s \in FixedBy(n) \cup TrimmedBy(n)

RepairInit ==
    /\ rows \in [RepairShelves -> [quantity : 0..MostInBooks, reserved : {0}, blocked : {0}]]
    /\ absent \in SUBSET {s \in RepairShelves : rows[s].quantity = 0}
    /\ ledger \in [RepairShelves -> 0..MostInBooks]
    /\ batched \in 0..MostInBooks
    /\ sales = [p \in Sellers |-> Idle]
    /\ repairs = [m \in Menders |-> Idle]
    /\ trades = 0
    /\ astray = {s \in RepairShelves : rows[s].quantity # ledger[s]}

-----------------------------------------------------------------------------
(* The shop. *)

Trades ==
    /\ trades < MaxTrades
    /\ trades' = trades + 1

\* The UPDATE of a sale: the row is locked and the movement not yet to be seen.
\* What really lies there, and can be carried to the till, is what was moved
\* there.
SaleWrites(p, s) ==
    /\ Trades
    /\ sales[p] = Idle
    /\ ~Locked(s)
    /\ ledger[s] >= 1
    /\ rows[s].quantity - rows[s].reserved >= 1
    /\ sales' = [sales EXCEPT
                    ![p] = [at |-> "open", shelf |-> s, batch |-> NotNegative(Lesser(1, batched))]]
    /\ UNCHANGED <<rows, absent, ledger, batched, repairs, astray>>

SaleEnds(p) ==
    LET s == sales[p].shelf IN
    /\ sales[p] # Idle /\ sales[p].batch <= NotNegative(batched)
    /\ rows' = [rows EXCEPT ![s].quantity = @ - 1]
    /\ ledger' = [ledger EXCEPT ![s] = @ - 1]
    /\ batched' = batched - sales[p].batch
    /\ sales' = [sales EXCEPT ![p] = Idle]
    /\ repairs' = [m \in Menders |->
          IF repairs[m] # Idle THEN [repairs[m] EXCEPT !.sold = @ \cup {s}] ELSE Idle]
    /\ UNCHANGED <<absent, trades, astray>>

\* Somebody else took what the sale had counted on in the batch.
SaleFails(p) ==
    /\ sales[p] # Idle /\ sales[p].batch > NotNegative(batched)
    /\ sales' = [sales EXCEPT ![p] = Idle]
    /\ UNCHANGED <<rows, absent, ledger, batched, repairs, trades, astray>>

\* A delivery of the batch, which a repair may see in one book and not in the
\* other.  It makes the row where there is none.
Delivered(s) ==
    /\ Trades
    /\ ~Locked(s)
    /\ rows' = [rows EXCEPT ![s].quantity = @ + 1]
    /\ absent' = absent \ {s}
    /\ ledger' = [ledger EXCEPT ![s] = @ + 1]
    /\ batched' = batched + 1
    /\ repairs' = [m \in Menders |->
          IF repairs[m].at = "batches" THEN [repairs[m] EXCEPT !.crossed = TRUE] ELSE repairs[m]]
    /\ UNCHANGED <<sales, astray>>

\* A hold for an order or a quarantine asks for goods that are free.
Holds(s, kind) ==
    /\ Trades
    /\ ~Locked(s)
    /\ rows[s].quantity - rows[s].reserved - rows[s].blocked >= 1
    /\ rows' = IF kind = "order" THEN [rows EXCEPT ![s].reserved = @ + 1]
               ELSE [rows EXCEPT ![s].blocked = @ + 1]
    /\ UNCHANGED <<absent, ledger, batched, sales, repairs, astray>>

-----------------------------------------------------------------------------
(* The repair. *)

\* The three lists, read before the transaction; only the shelves of the first
\* are used again.
RepairReads(m) ==
    LET listed == {s \in RepairShelves : rows[s].quantity # ledger[s]} IN
    /\ repairs[m] = Idle
    /\ listed # {} \/ batched > Sum([s \in RepairShelves |-> rows[s].quantity])
       \/ \E s \in RepairShelves : rows[s].reserved + rows[s].blocked > rows[s].quantity
    /\ repairs' = [repairs EXCEPT ![m] =
          [at |-> "rows", listed |-> listed, missing |-> listed \cap absent, ledger |-> ledger,
           sum |-> 0, waiting |-> {},
           excess |-> NotNegative(batched - Sum([s \in RepairShelves |-> rows[s].quantity])),
           fixed |-> Empty, trimmed |-> Empty, sold |-> {}, stale |-> {}, crossed |-> FALSE]]
    /\ UNCHANGED <<rows, absent, ledger, batched, sales, trades, astray>>

\* The sum the UPDATE works out itself.
SumNow(m, s) == ledger[s]

ToFix(m) == repairs[m].listed \ FixedBy(m)

\* The UPDATE of a row.  Its subquery sees what was committed when it began.
RepairSets(m, s) ==
    /\ repairs[m].at = "rows" /\ repairs[m].waiting = {} /\ s \in ToFix(m) \ repairs[m].missing
    /\ repairs' = [repairs EXCEPT ![m] =
          IF LockedToOthers(m, s) THEN [repairs[m] EXCEPT !.waiting = {s}, !.sum = SumNow(m, s)]
          ELSE [repairs[m] EXCEPT !.fixed = With(@, s, SumNow(m, s))]]
    /\ UNCHANGED <<rows, absent, ledger, batched, sales, trades, astray>>

\* Having waited for the row it goes on with the sum it began with.
RepairSetsAfterWait(m, s) ==
    /\ s \in (IF repairs[m].at = "rows" THEN repairs[m].waiting ELSE {})
    /\ ~LockedToOthers(m, s)
    /\ repairs' = [repairs EXCEPT ![m].waiting = {}, ![m].sum = 0,
                                  ![m].fixed = With(@, s, repairs[m].sum), ![m].stale = @ \cup {s}]
    /\ UNCHANGED <<rows, absent, ledger, batched, sales, trades, astray>>

\* A row there was none of is made with the sum that was read, waiting for whoever is
\* making it, and nothing of the repair stays when it has been made meanwhile.
RepairCreates(m, s) ==
    /\ repairs[m].at = "rows" /\ repairs[m].waiting = {} /\ s \in ToFix(m) \cap repairs[m].missing
    /\ s \in absent /\ ~LockedToOthers(m, s)
    /\ repairs' = [repairs EXCEPT ![m].fixed = With(@, s, repairs[m].ledger[s])]
    /\ UNCHANGED <<rows, absent, ledger, batched, sales, trades, astray>>

RepairFails(m) ==
    /\ repairs[m].at = "rows" /\ repairs[m].waiting = {}
    /\ ~(ToFix(m) \cap repairs[m].missing \subseteq absent)
    /\ repairs' = [repairs EXCEPT ![m] = Idle]
    /\ UNCHANGED <<rows, absent, ledger, batched, sales, trades, astray>>

\* What the repair's own transaction sees in a row.
QuantityTo(m, s) == IF s \in FixedBy(m) THEN repairs[m].fixed[s] ELSE rows[s].quantity

RepairReadsBatches(m) ==
    /\ repairs[m].at = "rows" /\ ToFix(m) = {}
    /\ repairs' = [repairs EXCEPT ![m].at = "batches", ![m].sum = batched]
    /\ UNCHANGED <<rows, absent, ledger, batched, sales, trades, astray>>

\* The excess over the repaired rows, as far as the batch goes.
ExcessNow(m) ==
    NotNegative(Lesser(batched,
        repairs[m].sum - Sum([s \in RepairShelves |-> QuantityTo(m, s)])))

RepairReadsRows(m) ==
    /\ repairs[m].at = "batches"
    /\ repairs' = [repairs EXCEPT ![m].at = "holds", ![m].excess = ExcessNow(m), ![m].sold = {}]
    /\ UNCHANGED <<rows, absent, ledger, batched, sales, trades, astray>>

\* Leaving blocked what lies there, promised or not.
RoomToBlock(m, s) == NotNegative(QuantityTo(m, s) - rows[s].reserved)

Overheld(m, s) == rows[s].reserved + rows[s].blocked > QuantityTo(m, s)

\* The rows whose holds are cut, and what is to stay blocked.  The write waits
\* for a row that somebody holds, and changes nothing else of it.
RepairTrims(m) ==
    LET cut == {s \in RepairShelves : Overheld(m, s)} IN
    /\ repairs[m].at = "holds"
    /\ repairs' = [repairs EXCEPT ![m].at = "end", ![m].sold = {},
          ![m].trimmed = [s \in cut |-> Lesser(rows[s].blocked, RoomToBlock(m, s))]]
    /\ UNCHANGED <<rows, absent, ledger, batched, sales, trades, astray>>

RepairEnds(m) ==
    LET r == repairs[m] IN
    /\ r.at = "end"
    /\ \A s \in FixedBy(m) \cup TrimmedBy(m) : ~LockedToOthers(m, s)
    /\ rows' = [s \in RepairShelves |->
          [rows[s] EXCEPT !.quantity = QuantityTo(m, s),
                          !.blocked = IF s \in TrimmedBy(m) THEN r.trimmed[s] ELSE @]]
    /\ absent' = absent \ FixedBy(m)
    /\ batched' = batched - r.excess
    /\ astray' = (astray \ FixedBy(m)) \cup r.stale
    /\ repairs' = [n \in Menders |->
          IF n = m THEN Idle
          ELSE IF repairs[n] # Idle /\ r.stale # {} THEN [repairs[n] EXCEPT !.crossed = TRUE]
          ELSE repairs[n]]
    /\ UNCHANGED <<ledger, sales, trades>>

RepairNext ==
    \/ \E p \in Sellers : SaleEnds(p) \/ SaleFails(p) \/ \E s \in RepairShelves : SaleWrites(p, s)
    \/ \E s \in RepairShelves : Delivered(s) \/ \E kind \in {"order", "quarantine"} : Holds(s, kind)
    \/ \E m \in Menders :
          \/ RepairReads(m) \/ RepairReadsBatches(m) \/ RepairReadsRows(m)
          \/ RepairTrims(m) \/ RepairEnds(m) \/ RepairFails(m)
          \/ \E s \in RepairShelves :
                RepairSets(m, s) \/ RepairSetsAfterWait(m, s) \/ RepairCreates(m, s)

RepairSpec == RepairInit /\ [][RepairNext]_repairVars

-----------------------------------------------------------------------------
\* The shape of the state.
RepairTypeOK ==
    /\ \A s \in RepairShelves :
          rows[s].quantity \in Int /\ rows[s].reserved \in Nat /\ rows[s].blocked \in Nat
    /\ ledger \in [RepairShelves -> Int] /\ batched \in Int
    /\ \A p \in Sellers : sales[p] = Idle \/ sales[p].shelf \in RepairShelves
    /\ \A m \in Menders : repairs[m] = Idle \/ repairs[m].at \in {"rows", "batches", "holds", "end"}
    /\ astray \subseteq RepairShelves

\* Whatever was sold and delivered since the list was made, a row that was
\* repaired agrees with the movements from then on, and a row that agreed still
\* does (pos.ts:7321).  Rows the repair had to wait for are left aside.
RepairedAgrees == \A s \in RepairShelves \ astray : rows[s].quantity = ledger[s]

\* The same for the rows it had to wait for: "a sale of a second ago is already
\* in it" (pos.ts:7327).
\* (The code does not keep this: README.)
RepairMissesNothing ==
    [][\A m \in Menders : repairs[m].at = "end" /\ repairs'[m] = Idle =>
          \A s \in repairs[m].listed : rows'[s].quantity = ledger'[s]]_repairVars

\* After a repair there is no more in the batches than on the shelves, whatever
\* was sold meanwhile (reconciliation.ts:150); deliveries of the batch between
\* its two sums and rows set wrongly, by it or by another beside it, are left
\* aside.
BatchesCovered ==
    [][\A m \in Menders :
          (/\ repairs[m].at = "end" /\ repairs'[m] = Idle
           /\ ~repairs[m].crossed /\ repairs[m].stale = {})
          => batched' <= Sum([s \in RepairShelves |-> rows'[s].quantity])]_repairVars

\* After a repair no shelf has more held than lies on it, unless orders alone
\* hold more, or it was sold from since its holds were read (pos.ts:7392).
HoldsCut ==
    [][\A m \in Menders : repairs[m].at = "end" /\ repairs'[m] = Idle =>
          \A s \in RepairShelves \ repairs[m].sold :
              \/ rows'[s].reserved + rows'[s].blocked <= rows'[s].quantity
              \/ rows'[s].blocked = 0]_repairVars
=============================================================================
