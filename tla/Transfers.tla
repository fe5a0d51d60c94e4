------------------------------ MODULE Transfers ------------------------------
(***************************************************************************)
(* Goods of one product that travel from one location of a company to      *)
(* another: sent, then received in full or in part, or called back.        *)
(*                                                                         *)
(* While they are on the road the goods are at neither location.  With     *)
(* them travel their batches, which the document remembers line by line,   *)
(* and the marked codes of the packs.  Three books have to agree: stock    *)
(* rows, batches and codes.                                                *)
(***************************************************************************)
EXTENDS Collections, FiniteSetsExt

CONSTANTS
    Places,         \* the locations
    Vans,           \* transfer documents
    TravelPacks,    \* marked packs
    Lots,           \* a batch number with its expiry, numbered by expiry
    Loose,          \* goods of no batch, which count as expiring last
    Loaders,        \* requests being served at a time
    FirstStock      \* [place -> [lot or Loose -> units]] at the start

ASSUME TransfersAssumption ==
    /\ IsFiniteSet(Places) /\ IsFiniteSet(Vans) /\ IsFiniteSet(TravelPacks)
    /\ IsFiniteSet(Lots) /\ Lots \subseteq Nat
    /\ Loose \in Nat /\ \A l \in Lots : l < Loose
    /\ FirstStock \in [Places -> [Lots \cup {Loose} -> Nat]]

VARIABLES
    atPlace,    \* the units each location has in its stock rows
    lots,       \* the units of each batch at each location
    hasPile,    \* the locations with a stock row without a bin
    packs,      \* where each marked pack is
    vans,       \* the documents
    loading,    \* requests between what they read and what they write
    soldFrom    \* what was sold, by batch

transferVars == <<atPlace, lots, hasPile, packs, vans, loading, soldFrom>>

Lines == Lots \cup {Loose}
NoLines == [l \in Lines |-> 0]
NoVan == "none"
NotLoading == [at |-> "idle"]
TransferRequests ==
    [at : {"send"}, van : Vans, from : Places, to : Places,
     lines : [Lines -> Nat], packs : SUBSET TravelPacks]
    \cup [at : {"receive"}, van : Vans, count : Nat]
    \cup [at : {"cancel"}, van : Vans]

PacksAt(p) == {k \in TravelPacks : packs[k].state = "in_stock" /\ packs[k].at = p}
PacksOn(v) == {k \in TravelPacks : packs[k].state = "in_transit" /\ packs[k].van = v}

TransferInit ==
    /\ atPlace = [p \in Places |-> Sum(FirstStock[p])]
    /\ lots = [p \in Places |-> [l \in Lots |-> FirstStock[p][l]]]
    /\ hasPile \in SUBSET Places
    /\ packs \in [TravelPacks ->
           [state : {"in_stock"}, at : {p \in Places : atPlace[p] > 0}, van : {NoVan}]]
    /\ \A p \in Places : Cardinality(PacksAt(p)) <= atPlace[p]
    /\ vans = [v \in Vans |-> [state |-> "none", from |-> NoVan, to |-> NoVan,
                               lines |-> NoLines, got |-> NoLines]]
    /\ loading = [c \in Loaders |-> NotLoading]
    /\ soldFrom = NoLines

-----------------------------------------------------------------------------
(* Sending. *)

\* One line per batch, earliest first, and one for what no batch covers.
LinesFor(quantity, batches) ==
    LET taken == InOrder(quantity, batches)
    IN [l \in Lines |-> IF l = Loose THEN quantity - Sum(taken) ELSE taken[l]]

SendReads(c, v, from, to, quantity) ==
    /\ loading[c] = NotLoading
    /\ vans[v].state = "none"
    /\ \A other \in Loaders : loading[other].at = "send" => loading[other].van # v
    /\ from # to
    /\ quantity > 0 /\ quantity <= atPlace[from]
    /\ \E chosen \in PickedCodes(quantity, PacksAt(from)) :
          loading' = [loading EXCEPT ![c] =
             [at |-> "send", van |-> v, from |-> from, to |-> to,
              lines |-> LinesFor(quantity, lots[from]), packs |-> chosen]]
    /\ UNCHANGED <<atPlace, lots, hasPile, packs, vans, soldFrom>>

\* Sending what was there when it was looked at.
SendsBlindly(d) == TRUE

\* A sale of one of the packs, or of the goods, undoes the whole request.  The
\* packs are asked for their state only, not where they lie by now.
SendGoesThrough(d) ==
    /\ atPlace[d.from] >= Sum(d.lines)
    /\ \A k \in d.packs : packs[k].state = "in_stock"

SendCommits(c) ==
    LET d == loading[c] IN
    /\ d.at = "send"
    /\ loading' = [loading EXCEPT ![c] = NotLoading]
    /\ UNCHANGED <<hasPile, soldFrom>>
    /\ IF SendGoesThrough(d)
       THEN /\ atPlace' = [atPlace EXCEPT ![d.from] = @ - Sum(d.lines)]
            /\ lots' = [lots EXCEPT ![d.from] = [l \in Lots |-> @[l] - d.lines[l]]]
            /\ packs' = [k \in TravelPacks |->
                  IF k \in d.packs THEN [packs[k] EXCEPT !.state = "in_transit", !.van = d.van]
                   ELSE packs[k]]
            /\ vans' = [vans EXCEPT ![d.van] =
                  [state |-> "in_transit", from |-> d.from, to |-> d.to,
                   lines |-> d.lines, got |-> NoLines]]
       ELSE UNCHANGED <<atPlace, lots, packs, vans>>

-----------------------------------------------------------------------------
(* The other end, and calling back.  Both look at the status before their    *)
(* transaction and claim the document inside it.                             *)

\* Closing a van that somebody saw on the road.
ClaimsOnSight(v) == TRUE

ClaimsVan(v) == vans[v].state = "in_transit"

\* One number for the product, over all its lines, and at most what was sent.
CountsOf(v) == 0..Sum(vans[v].lines)

\* The destination counts what came.
ReceiveReads(c, v, count) ==
    /\ loading[c] = NotLoading
    /\ vans[v].state = "in_transit"
    /\ count \in CountsOf(v)
    /\ loading' = [loading EXCEPT ![c] = [at |-> "receive", van |-> v, count |-> count]]
    /\ UNCHANGED <<atPlace, lots, hasPile, packs, vans, soldFrom>>

\* Receiving the goods and forgetting the packs.
LandsNone(aboard, count) == {{}}

\* As many packs as arrived, whichever the query returned first.
LandingPacks(aboard, count) == kSubset(Lesser(Cardinality(aboard), count), aboard)

ReceiveCommits(c) ==
    LET d == loading[c]
        v == vans[d.van]
        got == InOrder(d.count, v.lines)
    IN
    /\ d.at = "receive"
    /\ loading' = [loading EXCEPT ![c] = NotLoading]
    /\ UNCHANGED soldFrom
    /\ IF ClaimsVan(d.van)
       THEN /\ vans' = [vans EXCEPT ![d.van].state = "confirmed", ![d.van].got = got]
            /\ atPlace' = [atPlace EXCEPT ![v.to] = @ + d.count]
            /\ lots' = [lots EXCEPT ![v.to] = [l \in Lots |-> @[l] + got[l]]]
            /\ hasPile' = IF d.count > 0 THEN hasPile \cup {v.to} ELSE hasPile
            /\ \E landing \in LandingPacks(PacksOn(d.van), d.count) :
                  packs' = [k \in TravelPacks |->
                     IF k \in landing THEN [state |-> "in_stock", at |-> v.to, van |-> NoVan]
                   ELSE packs[k]]
       ELSE UNCHANGED <<atPlace, lots, hasPile, packs, vans>>

CancelReads(c, v) ==
    /\ loading[c] = NotLoading
    /\ vans[v].state = "in_transit"
    /\ loading' = [loading EXCEPT ![c] = [at |-> "cancel", van |-> v]]
    /\ UNCHANGED <<atPlace, lots, hasPile, packs, vans, soldFrom>>

\* Every line is put back by itself.  Without a row to put it in each line
\* creates one, and the second such row is refused by the database.
RoomToReturn(v) ==
    \/ vans[v].from \in hasPile
    \/ Cardinality({l \in Lines : vans[v].lines[l] > 0}) = 1

CancelCommits(c) ==
    LET d == loading[c]
        v == vans[d.van]
    IN
    /\ d.at = "cancel"
    /\ loading' = [loading EXCEPT ![c] = NotLoading]
    /\ UNCHANGED soldFrom
    /\ IF ClaimsVan(d.van) /\ RoomToReturn(d.van)
       THEN /\ vans' = [vans EXCEPT ![d.van].state = "cancelled"]
            /\ atPlace' = [atPlace EXCEPT ![v.from] = @ + Sum(v.lines)]
            /\ lots' = [lots EXCEPT ![v.from] = [l \in Lots |-> @[l] + v.lines[l]]]
            /\ hasPile' = hasPile \cup {v.from}
            /\ packs' = [k \in TravelPacks |->
                  IF k \in PacksOn(d.van) THEN [state |-> "in_stock", at |-> v.from, van |-> NoVan]
                   ELSE packs[k]]
       ELSE UNCHANGED <<atPlace, lots, hasPile, packs, vans>>

-----------------------------------------------------------------------------
\* A sale of one unit: the batch that expires first, and a marked pack where
\* there are any.
SellsOne(p) ==
    LET full == {l \in Lots : lots[p][l] > 0}
        line == IF full = {} THEN Loose ELSE Min(full)
    IN
    /\ atPlace[p] > 0
    /\ atPlace' = [atPlace EXCEPT ![p] = @ - 1]
    /\ lots' = IF line = Loose THEN lots ELSE [lots EXCEPT ![p][line] = @ - 1]
    /\ soldFrom' = [soldFrom EXCEPT ![line] = @ + 1]
    /\ IF PacksAt(p) = {} THEN UNCHANGED packs
       ELSE \E k \in PacksAt(p) : packs' = [packs EXCEPT ![k].state = "sold"]
    /\ UNCHANGED <<hasPile, vans, loading>>

TransferNext ==
    \/ \E c \in Loaders, v \in Vans, from, to \in Places :
          \E quantity \in 1..atPlace[from] : SendReads(c, v, from, to, quantity)
    \/ \E c \in Loaders, v \in Vans :
          \E count \in CountsOf(v) : ReceiveReads(c, v, count)
    \/ \E c \in Loaders, v \in Vans : CancelReads(c, v)
    \/ \E c \in Loaders : SendCommits(c) \/ ReceiveCommits(c) \/ CancelCommits(c)
    \/ \E p \in Places : SellsOne(p)

TransferSpec == TransferInit /\ [][TransferNext]_transferVars

-----------------------------------------------------------------------------
\* The shape of the state; the numbers of stock rows and lines are never
\* negative, those of batches may be.
TransferTypeOK ==
    /\ atPlace \in [Places -> Nat]
    /\ lots \in [Places -> [Lots -> Int]]
    /\ hasPile \in SUBSET Places
    /\ packs \in [TravelPacks ->
           [state : {"in_stock", "in_transit", "sold"}, at : Places, van : Vans \cup {NoVan}]]
    /\ vans \in [Vans -> [state : {"none", "in_transit", "confirmed", "cancelled"},
                          from : Places \cup {NoVan}, to : Places \cup {NoVan},
                          lines : [Lines -> Nat], got : [Lines -> Nat]]]
    /\ \A c \in Loaders : loading[c] \in TransferRequests \cup {NotLoading}
    /\ soldFrom \in [Lines -> Nat]

\* What left with a van and did not come back: all of it while the van is on
\* the road, the shortfall once it was received.
OutWith(v, l) ==
    CASE vans[v].state = "in_transit" -> vans[v].lines[l]
      [] vans[v].state = "confirmed" -> vans[v].lines[l] - vans[v].got[l]
      [] OTHER -> 0

\* Every unit of every batch that was there at the start is on a shelf, on the
\* road, written down as missing, or sold - whoever receives, calls back or
\* sells at the same time (pos.ts:9032 "so two people receiving the same van at
\* once can't both add its contents to the shelf").
TransfersAccountedFor ==
    /\ \A l \in Lots :
          Sum([p \in Places |-> lots[p][l]]) + Sum([v \in Vans |-> OutWith(v, l)]) + soldFrom[l]
             = Sum([p \in Places |-> FirstStock[p][l]])
    /\ Sum(atPlace) + Sum([v \in Vans |-> Sum([l \in Lines |-> OutWith(v, l)])]) + Sum(soldFrom)
          = Sum([p \in Places |-> Sum(FirstStock[p])])

\* The packs that are still on a van are no more than the units that are: none
\* stays behind when the van is called back, and of a received van only as many
\* as went missing, "the trace of the loss" (pos.ts:9138).
PacksFollowGoods ==
    \A v \in Vans : Cardinality(PacksOn(v)) <= Sum([l \in Lines |-> OutWith(v, l)])

\* No location has more packs that may be sold than goods to sell: "the codes
\* leave together with the goods" (pos.ts:8768).
\* (The code does not keep this: README.)
PacksHaveGoods == \A p \in Places : Cardinality(PacksAt(p)) <= atPlace[p]

\* A pack that starts on its way lies where its van starts from.
\* (The code does not keep this: README.)
PacksLeaveFromTheirPlace ==
    [][\A k \in TravelPacks :
          packs[k].state = "in_stock" /\ packs'[k].state = "in_transit"
             => packs[k].at = vans'[packs'[k].van].from]_transferVars

\* "Goods that never left the yard belong to the source again - leaving them in
\* transit would strand them at neither end" (pos.ts:9171): calling back a van
\* that is still on the road works.
\* (The code does not keep this: README.)
CancelWorks ==
    \A c \in Loaders :
        loading[c].at = "cancel" /\ ClaimsVan(loading[c].van) => RoomToReturn(loading[c].van)
=============================================================================
