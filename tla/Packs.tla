-------------------------------- MODULE Packs ---------------------------------
(***************************************************************************)
(* The three books of a marked product: the row that counts it, the        *)
(* batches it came in, and the code of every single pack.  They are read   *)
(* apart and written together, some writes under a condition and some not. *)
(*                                                                         *)
(* A sale, a write-off or a quarantine is a request that reads first; the  *)
(* clerk scans the packs that are in the clerk's hands.                    *)
(***************************************************************************)
EXTENDS Collections

CONSTANTS
    Packs,          \* packs with a code
    OldPacks,       \* those that lay on the shelf before codes were kept
    Expiries,       \* batches, numbered by their expiry day
    Clerks,         \* requests being served at a time
    MaxTickets      \* bound: requests in a behaviour

ASSUME PacksAssumption ==
    /\ Expiries \subseteq Nat \ {0} /\ IsFiniteSet(Expiries)
    /\ OldPacks \subseteq Packs /\ IsFiniteSet(Packs) /\ MaxTickets \in Nat

VARIABLES
    policy,         \* whether goods of no batch may be sold
    quantity,       \* the row
    blocked,
    batch,          \* what is left of each batch
    expired,        \* batches whose day has passed
    code,           \* the state of each pack's code
    soldTimes,      \* how often a pack was sold
    blind,          \* whether goods went without a code of their own, or with one that had gone
    revived,        \* packs that were gone when a quarantine wrote their state
    tickets,        \* requests between reading and writing
    served

packVars == <<policy, quantity, blocked, batch, expired, code, soldTimes, blind, revived, tickets, served>>

NoTicket == [at |-> "idle"]
InState(s) == {p \in Packs : code[p] = s}

PacksInit ==
    /\ policy \in {"sellable", "quarantined"}
    /\ quantity = Cardinality(OldPacks)
    /\ blocked = 0
    /\ batch = [b \in Expiries |-> 0]
    /\ expired = {}
    /\ code = [p \in Packs |-> "unknown"]
    /\ soldTimes = [p \in Packs |-> 0]
    /\ blind = FALSE
    /\ revived = {}
    /\ tickets = [c \in Clerks |-> NoTicket]
    /\ served = 0

Asks(c, ticket) ==
    /\ tickets[c] = NoTicket
    /\ served < MaxTickets
    /\ served' = served + 1
    /\ tickets' = [tickets EXCEPT ![c] = ticket]
    /\ UNCHANGED <<policy, quantity, blocked, batch, expired, code, soldTimes, blind, revived>>

Refused(c) ==
    /\ tickets' = [tickets EXCEPT ![c] = NoTicket]
    /\ UNCHANGED <<policy, quantity, blocked, batch, expired, code, soldTimes, blind, revived, served>>

Expires(b) ==
    /\ b \notin expired
    /\ \A a \in Expiries : a < b => a \in expired
    /\ expired' = expired \cup {b}
    /\ UNCHANGED <<policy, quantity, blocked, batch, code, soldTimes, blind, revived, tickets, served>>

-----------------------------------------------------------------------------
(* Packs that come in. *)

\* A new batch, every pack of it scanned; the unique index refuses a known one.
ReceivesBatch(b, P) ==
    /\ served < MaxTickets
    /\ b \notin expired /\ batch[b] = 0
    /\ P \subseteq InState("unknown") \ OldPacks
    /\ batch' = [batch EXCEPT ![b] = Cardinality(P)]
    /\ quantity' = quantity + Cardinality(P)
    /\ code' = [p \in Packs |-> IF p \in P THEN "in_stock" ELSE code[p]]
    /\ served' = served + 1
    /\ UNCHANGED <<policy, blocked, expired, soldTimes, blind, revived, tickets>>

\* Codes for what lies on the shelf already: there must be room for them.
RegisterReads(c, P) ==
    /\ P \subseteq InState("unknown") \cap OldPacks
    /\ Cardinality(P) <= quantity - Cardinality(InState("in_stock"))
    /\ Asks(c, [at |-> "register", packs |-> P])

RegisterCommits(c) ==
    LET P == tickets[c].packs IN
    /\ tickets[c].at = "register"
    /\ IF P \subseteq InState("unknown")
       THEN /\ code' = [p \in Packs |-> IF p \in P THEN "in_stock" ELSE code[p]]
            /\ tickets' = [tickets EXCEPT ![c] = NoTicket]
            /\ UNCHANGED <<policy, quantity, blocked, batch, expired, soldTimes, blind, revived, served>>
       ELSE Refused(c)

-----------------------------------------------------------------------------
(* A sale. *)

\* Batches that are used up are not asked for.
Remaining == {b \in Expiries : batch[b] > 0}

Uncovered == NotNegative(quantity - SumOver(batch, Remaining))

\* Goods that never had a batch, or have outlived their batches, are sold whatever
\* the policy.
SellableQuantity ==
    IF Remaining = {} THEN NotNegative(quantity - blocked)
    ELSE NotNegative(SumOver(batch, Remaining \ expired)
                     + (IF policy = "sellable" THEN Uncovered ELSE 0) - blocked)

\* First expired, first out, and what has expired not at all.
AllocateFefo(n) ==
    LET fresh == InOrder(n, [b \in Expiries \ expired |-> batch[b]])
    IN [b \in Expiries |-> IF b \in expired THEN 0 ELSE fresh[b]]

SellReads(c, P) ==
    /\ P \subseteq InState("in_stock")
    /\ Cardinality(P) <= SellableQuantity
    /\ Asks(c, [at |-> "sell", packs |-> P, from |-> AllocateFefo(Cardinality(P))])

\* Selling what was read.
AsItWasRead(P) == TRUE
StillInStock(P) == P \subseteq InState("in_stock")

\* The conditions of the UPDATEs of the row.
RowCovers(n) == quantity >= n

SellCommits(c) ==
    LET d == tickets[c] n == Cardinality(d.packs) IN
    /\ d.at = "sell"
    /\ IF /\ StillInStock(d.packs)
          /\ \A b \in Expiries : d.from[b] > 0 => batch[b] >= d.from[b]
          /\ RowCovers(n)
       THEN /\ quantity' = quantity - n
            /\ batch' = [b \in Expiries |-> batch[b] - d.from[b]]
            /\ code' = [p \in Packs |-> IF p \in d.packs THEN "sold" ELSE code[p]]
            /\ soldTimes' = [p \in Packs |-> soldTimes[p] + (IF p \in d.packs THEN 1 ELSE 0)]
            /\ tickets' = [tickets EXCEPT ![c] = NoTicket]
            /\ blind' = (blind \/ d.packs \cap revived # {})
            /\ UNCHANGED <<policy, blocked, expired, revived, served>>
       ELSE Refused(c)

-----------------------------------------------------------------------------
(* A write-off: it may not be of more than there is, and names the packs     *)
(* unless there is no choice.  The batches are read in the transaction and   *)
(* drawn down, the expired ones first, without a condition.                  *)

WriteOffReads(c, n) ==
    /\ n <= quantity
    /\ \E P \in PickedCodes(n, InState("in_stock")) :
          Asks(c, [at |-> "batches", packs |-> P, size |-> n])

WriteOffReadsBatches(c) ==
    LET d == tickets[c] IN
    /\ d.at = "batches"
    /\ tickets' = [tickets EXCEPT ![c] =
          [at |-> "writeOff", packs |-> d.packs, size |-> d.size,
           from |-> InOrder(d.size, batch)]]
    /\ UNCHANGED <<policy, quantity, blocked, batch, expired, code, soldTimes, blind, revived, served>>

\* Taking the goods and leaving their codes.
Retires(P) == P

WriteOffCommits(c) ==
    LET d == tickets[c] IN
    /\ d.at = "writeOff"
    /\ IF StillInStock(d.packs) /\ RowCovers(d.size)
       THEN /\ quantity' = quantity - d.size
            /\ blocked' = NotNegative(blocked - d.size)
            /\ batch' = [b \in Expiries |-> batch[b] - d.from[b]]
            /\ code' = [p \in Packs |-> IF p \in Retires(d.packs) THEN "written_off" ELSE code[p]]
            /\ tickets' = [tickets EXCEPT ![c] = NoTicket]
            /\ blind' = (blind \/ Cardinality(d.packs) # d.size \/ d.packs \cap revived # {})
            /\ UNCHANGED <<policy, expired, soldTimes, revived, served>>
       ELSE Refused(c)

-----------------------------------------------------------------------------
(* Quarantine: the hold is taken under a condition, the codes follow the     *)
(* list that was read.                                                       *)

Held(action) == IF action = "block" THEN "in_stock" ELSE "quarantined"
Becomes(action) == IF action = "block" THEN "quarantined" ELSE "in_stock"

QuarantineReads(c, action, n) ==
    /\ n <= (IF action = "block" THEN quantity - blocked ELSE blocked)
    /\ \E P \in PickedCodes(n, InState(Held(action))) :
          Asks(c, [at |-> "quarantine", action |-> action, packs |-> P, size |-> n])

HoldFits(action, n) == IF action = "block" THEN quantity - blocked >= n ELSE blocked >= n

QuarantineCommits(c) ==
    LET d == tickets[c] IN
    /\ d.at = "quarantine"
    /\ IF HoldFits(d.action, d.size)
       THEN /\ blocked' = blocked + (IF d.action = "block" THEN d.size ELSE -d.size)
            /\ code' = [p \in Packs |-> IF p \in d.packs THEN Becomes(d.action) ELSE code[p]]
            /\ revived' = revived \cup {p \in d.packs : code[p] \in {"sold", "written_off"}}
            /\ tickets' = [tickets EXCEPT ![c] = NoTicket]
            /\ UNCHANGED <<policy, quantity, batch, expired, soldTimes, blind, served>>
       ELSE Refused(c)

PacksNext ==
    \/ \E b \in Expiries : Expires(b) \/ \E P \in (SUBSET Packs) \ {{}} : ReceivesBatch(b, P)
    \/ \E c \in Clerks :
          \/ \E P \in (SUBSET Packs) \ {{}} : RegisterReads(c, P) \/ SellReads(c, P)
          \/ RegisterCommits(c) \/ SellCommits(c)
          \/ \E n \in 1..Cardinality(Packs) :
                WriteOffReads(c, n) \/ \E action \in {"block", "release"} : QuarantineReads(c, action, n)
          \/ WriteOffReadsBatches(c) \/ WriteOffCommits(c) \/ QuarantineCommits(c)

PacksSpec == PacksInit /\ [][PacksNext]_packVars

-----------------------------------------------------------------------------
\* The shape of the state; no request takes goods that are not there.
PacksTypeOK ==
    /\ policy \in {"sellable", "quarantined"}
    /\ quantity \in Nat /\ blocked \in Nat
    /\ batch \in [Expiries -> Int] /\ expired \subseteq Expiries
    /\ code \in [Packs -> {"unknown", "in_stock", "quarantined", "sold", "written_off"}]
    /\ soldTimes \in [Packs -> Nat] /\ blind \in BOOLEAN /\ revived \subseteq Packs

\* A pack leaves the state's register once: two registers that scan it, or a
\* register and a write-off, do not both get it (pos.ts:1236), as long as no
\* quarantine has brought it back.
SoldOnce == \A p \in Packs \ revived : soldTimes[p] <= 1

\* No more codes lying at the location than packs: "there can never be more of
\* them" (reconciliation.ts:226).  Packs a quarantine has brought back are left
\* aside, and so is what follows a write-off that named no pack, or one of them
\* leaving once more: two of those may take the same goods from under a third
\* one's code.
CodesWithinGoods == blind \/ Cardinality(InState("in_stock") \ revived) <= quantity

\* Where goods of no batch are not for sale, sales and write-offs in any order
\* never leave more in the batches than on the shelf (reconciliation.ts:148),
\* with the same exception.
BatchesWithinGoods == blind \/ (policy = "quarantined" => Sum(batch) <= quantity)

\* A pack that was sold is not put back by a quarantine.
\* (The code does not keep this: README.)
SoldStaysSold == revived = {}
=============================================================================
