-------------------------------- MODULE Drawer --------------------------------
(***************************************************************************)
(* Whose drawer the money is in.                                           *)
(*                                                                         *)
(* A location may have several shifts open, even two of one cashier.  A    *)
(* row of money - a sale, a return, a settlement - either names its shift  *)
(* or is given to one by its time and author.  The till asks about one     *)
(* shift and the owner's report counts them all, from different queries.   *)
(* Times are hours; a till without a network says itself when it sold.     *)
(***************************************************************************)
EXTENDS Integers, FiniteSets, FiniteSetsExt

CONSTANTS
    Cashiers,
    Drawers,        \* shifts that may be opened, numbered by id
    Entries,        \* rows of money
    LastHour        \* bound: the clock

ASSUME DrawerAssumption == Drawers \subseteq Nat /\ LastHour \in Nat

VARIABLES
    hour,
    drawers,        \* the shifts
    entries,        \* the rows
    paying          \* what a return or a settlement found before it is written

drawerVars == <<hour, drawers, entries, paying>>

Nobody == "nobody"
NoDrawer == -1
Open == -1
NotPaying == [at |-> "idle"]
Opened == {d \in Drawers : drawers[d].owner # Nobody}
Written == {e \in Entries : entries[e].by # Nobody}

DrawerInit ==
    /\ hour = 0
    /\ drawers = [d \in Drawers |-> [owner |-> Nobody, opened |-> 0, closed |-> Open]]
    /\ entries = [e \in Entries |-> [by |-> Nobody, at |-> 0, drawer |-> NoDrawer]]
    /\ paying = [u \in Cashiers |-> NotPaying]

-----------------------------------------------------------------------------
\* The till's time, unless it is from the future or from before the shift.
TrustedTime(raw, since) == IF raw > hour \/ raw < since THEN hour ELSE raw

SentTimes == 0..(LastHour + 1)

Ticks ==
    /\ hour < LastHour
    /\ hour' = hour + 1
    /\ UNCHANGED <<drawers, entries, paying>>

OpensDrawer(u, d, raw) ==
    /\ d \notin Opened
    /\ drawers' = [drawers EXCEPT ![d] = [owner |-> u, opened |-> TrustedTime(raw, 0), closed |-> Open]]
    /\ UNCHANGED <<hour, entries, paying>>

ClosesDrawer(d, raw) ==
    /\ d \in Opened /\ drawers[d].closed = Open
    /\ drawers' = [drawers EXCEPT ![d].closed = TrustedTime(raw, drawers[d].opened)]
    /\ UNCHANGED <<hour, entries, paying>>

\* A sale that names its shift, which may be closed by now, or none the server
\* knows of.  It counts as sold by the shift's cashier.
Sells(u, e, d, raw) ==
    /\ e \notin Written
    /\ d \in Opened \cup {NoDrawer}
    /\ entries' = [entries EXCEPT ![e] =
          IF d = NoDrawer THEN [by |-> u, at |-> TrustedTime(raw, 0), drawer |-> NoDrawer]
          ELSE [by |-> drawers[d].owner, at |-> TrustedTime(raw, drawers[d].opened), drawer |-> d]]
    /\ UNCHANGED <<hour, drawers, paying>>

\* The one opened last; of two opened at once the one with the smaller id.
LastOpened(S) ==
    LET latest == Max({drawers[d].opened : d \in S})
    IN Min({d \in S : drawers[d].opened = latest})

\* My own open shift, or else the only one at the location.
DrawerShiftFor(u) ==
    LET openHere == {d \in Opened : drawers[d].closed = Open}
        mine == {d \in openHere : drawers[d].owner = u}
    IN CASE mine # {} -> LastOpened(mine)
         [] mine = {} /\ Cardinality(openHere) = 1 -> Min(openHere)
         [] OTHER -> NoDrawer

\* A return or a settlement: the shift is looked up first.
PaysReads(u) ==
    /\ paying[u] = NotPaying
    /\ paying' = [paying EXCEPT ![u] = [at |-> "write", drawer |-> DrawerShiftFor(u)]]
    /\ UNCHANGED <<hour, drawers, entries>>

PaysWrites(u, e) ==
    /\ paying[u].at = "write"
    /\ e \notin Written
    /\ entries' = [entries EXCEPT ![e] = [by |-> u, at |-> hour, drawer |-> paying[u].drawer]]
    /\ paying' = [paying EXCEPT ![u] = NotPaying]
    /\ UNCHANGED <<hour, drawers>>

DrawerNext ==
    \/ Ticks
    \/ \E u \in Cashiers, d \in Drawers, raw \in SentTimes : OpensDrawer(u, d, raw)
    \/ \E d \in Drawers, raw \in SentTimes : ClosesDrawer(d, raw)
    \/ \E u \in Cashiers, e \in Entries, d \in Drawers \cup {NoDrawer}, raw \in SentTimes :
           Sells(u, e, d, raw)
    \/ \E u \in Cashiers : PaysReads(u) \/ \E e \in Entries : PaysWrites(u, e)

DrawerSpec == DrawerInit /\ [][DrawerNext]_drawerVars

-----------------------------------------------------------------------------
(* Counting. *)

Until(d) == IF drawers[d].closed = Open THEN hour ELSE drawers[d].closed

Claims(d, e) ==
    /\ entries[e].at \in drawers[d].opened..Until(d)
    /\ drawers[d].owner = entries[e].by

\* A row without a shift goes to one of the candidates that can claim it.
UnlinkedTo(e, candidates) ==
    LET claimants == {d \in candidates : Claims(d, e)}
    IN IF claimants = {} THEN NoDrawer ELSE LastOpened(claimants)

BelongsTo(e, d, candidates) ==
    IF entries[e].drawer # NoDrawer THEN entries[e].drawer = d ELSE UnlinkedTo(e, candidates) = d

\* Deciding about a shift without looking at the others.
NeighboursNone(d) == {d}

\* The shifts whose time crosses this one's.
Neighbours(d) ==
    {n \in Opened : /\ drawers[n].opened <= Until(d)
                    /\ drawers[n].closed = Open \/ drawers[n].closed >= drawers[d].opened}

\* What names the shift, whenever it was, and what falls into its time.
RowsNear(d) ==
    {e \in Written : entries[e].drawer = d \/ entries[e].at \in drawers[d].opened..Until(d)}

\* The till's question about one shift.
ShiftCashFor(d) == {e \in RowsNear(d) : BelongsTo(e, d, Neighbours(d))}

\* The owner's report since an hour: the shifts opened since then, over the rows
\* since then.
ReportedCash(d, from) ==
    LET shifts == {n \in Opened : drawers[n].closed = Open \/ drawers[n].closed >= from}
    IN {e \in Written : entries[e].at >= from /\ BelongsTo(e, d, shifts)}

-----------------------------------------------------------------------------
\* The shape of the state: nothing is written in the future and no shift ends
\* before it begins.
DrawerTypeOK ==
    /\ hour \in 0..LastHour
    /\ \A d \in Drawers :
          /\ drawers[d].owner \in Cashiers \cup {Nobody}
          /\ drawers[d].opened \in 0..hour
          /\ drawers[d].closed \in {Open} \cup drawers[d].opened..hour
    /\ \A e \in Entries :
          /\ entries[e].by \in Cashiers \cup {Nobody}
          /\ entries[e].at \in 0..hour
          /\ entries[e].drawer \in Drawers \cup {NoDrawer}
    /\ \A u \in Cashiers : paying[u] = NotPaying \/ paying[u].drawer \in Drawers \cup {NoDrawer}

\* No money is expected in two drawers: "one set of takings was expected in
\* three drawers at once" (pos.ts:2174).
ExpectedOnce ==
    \A e \in Written : Cardinality({d \in Opened : e \in ShiftCashFor(d)}) <= 1

\* The cashier who closes the shift and the owner who reads the report see the
\* same money in it, from whatever hour the report starts before the shift
\* (pos.ts:2150, a difference "is always read as somebody's shortage").
SameMoneyForBoth ==
    \A d \in Opened : \A from \in 0..drawers[d].opened : ShiftCashFor(d) = ReportedCash(d, from)
=============================================================================
