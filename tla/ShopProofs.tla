----------------------------- MODULE ShopProofs -----------------------------
(***************************************************************************)
(* The books of a shop, for any number of people, shelves, packs and       *)
(* sales.  Each component is proved of its own specification.              *)
(***************************************************************************)
EXTENDS Shop, CollectionsProofs

-----------------------------------------------------------------------------
(***************************************************************************)
(* The drawer, for any number of shifts, cashiers and rows of money.       *)
(*                                                                         *)
(* A row that names its shift was written while that shift was there, at   *)
(* a time not before it began.  For the others nothing has to be           *)
(* remembered: whoever can claim a row crosses in time with everybody else *)
(* who can, so that each question, however it is asked, compares the same  *)
(* claimants.                                                              *)
(***************************************************************************)
LEMMA LeastNumber ==
    ASSUME NEW S, S \subseteq Nat, S # {}
    PROVE  Min(S) \in S /\ \A y \in S : Min(S) <= y
<1>1. \E x \in S : \A y \in S : x <= y
  <2> SUFFICES ASSUME \A x \in S : \E y \in S : ~(x <= y) PROVE FALSE
      OBVIOUS
  <2> DEFINE N == {n \in Nat : \A m \in 0..n : m \notin S}
  <2>1. 0 \in N
      OBVIOUS
  <2>2. ASSUME NEW n \in Nat, n \in N PROVE n + 1 \in N
    <3>1. \A y \in S : y >= n + 1
        BY <2>2
    <3>2. n + 1 \notin S
        BY <3>1
    <3> QED
        BY <2>2, <3>2
  <2>3. \A n \in Nat : n \in N
    <3> HIDE DEF N
    <3> QED
        BY <2>1, <2>2, NatSetInduction
  <2>4. PICK y \in S : y \in Nat
      OBVIOUS
  <2>5. y \in N
      BY <2>3, <2>4
  <2>6. y \in 0..y
      BY <2>4
  <2> QED
      BY <2>5, <2>6
<1> QED
    BY <1>1 DEF Min

LEMMA GreatestNumber ==
    ASSUME NEW h \in Nat, NEW S, S \subseteq 0..h, S # {}
    PROVE  Max(S) \in S /\ \A y \in S : y <= Max(S)
<1>1. PICK U : U = {n \in Nat : \A y \in S : y <= n}
    OBVIOUS
<1>2. U \subseteq Nat /\ h \in U
    BY <1>1
<1>3. PICK u \in U : \A n \in U : u <= n
    BY <1>2, LeastNumber
<1>4. u \in S
  <2> SUFFICES ASSUME u \notin S PROVE FALSE
      OBVIOUS
  <2>1. u \in Nat /\ \A y \in S : y \in Nat /\ y <= u
      BY <1>1
  <2>2. \A y \in S : y <= u - 1
      BY <2>1
  <2>5. PICK y \in S : y \in Nat /\ y <= u - 1
      BY <2>1, <2>2
  <2>3. u - 1 \in Nat
      BY <2>1, <2>5
  <2>4. u - 1 \in U
      BY <1>1, <2>2, <2>3
  <2> QED
      BY <1>3, <2>1, <2>4
<1>5. \E x \in S : \A y \in S : x >= y
    BY <1>1, <1>4
<1> QED
    BY <1>5 DEF Max

-----------------------------------------------------------------------------
DrawerShapes ==
    /\ hour \in 0..LastHour
    /\ drawers \in [Drawers -> [owner : Cashiers \cup {Nobody}, opened : 0..hour,
                                closed : {Open} \cup 0..hour]]
    /\ \A d \in Drawers : drawers[d].closed = Open \/ drawers[d].closed >= drawers[d].opened
    /\ entries \in [Entries -> [by : Cashiers \cup {Nobody}, at : 0..hour,
                                drawer : Drawers \cup {NoDrawer}]]
    /\ paying \in [Cashiers -> {NotPaying} \cup [at : {"write"}, drawer : Drawers \cup {NoDrawer}]]

\* What names a shift names one that is there, and is not from before it.
NamesItsShift ==
    /\ \A e \in Entries : entries[e].drawer # NoDrawer =>
          /\ entries[e].drawer \in Opened
          /\ entries[e].at >= drawers[entries[e].drawer].opened
    /\ \A u \in Cashiers : paying[u].at = "write" => paying[u].drawer \in Opened \cup {NoDrawer}

DrawerInv == DrawerShapes /\ NamesItsShift

LEMMA DrawerInitHolds == DrawerInit => DrawerInv
<1> SUFFICES ASSUME DrawerInit PROVE DrawerInv
    OBVIOUS
<1>1. DrawerShapes
    BY DrawerAssumption DEF DrawerInit, DrawerShapes, NotPaying, Open, NoDrawer
<1>2. NamesItsShift
    BY DEF DrawerInit, NamesItsShift, NotPaying, NoDrawer
<1> QED
    BY <1>1, <1>2 DEF DrawerInv

LEMMA TrustedTimeType ==
    ASSUME hour \in Nat, NEW since \in 0..hour, NEW raw \in SentTimes
    PROVE  TrustedTime(raw, since) \in since..hour
BY DrawerAssumption DEF TrustedTime, SentTimes

\* Of some shifts the last opened is one, and only the set matters.
LEMMA LastOpenedIsThere ==
    ASSUME DrawerShapes, NEW S \in SUBSET Drawers, S # {}
    PROVE  LastOpened(S) \in S
<1>1. PICK T : T = {drawers[d].opened : d \in S}
    OBVIOUS
<1>2. hour \in Nat
    BY DrawerAssumption DEF DrawerShapes
<1>8. T # {}
    BY <1>1
<1>7. T \subseteq 0..hour
    BY <1>1 DEF DrawerShapes
<1>3. Max(T) \in T
    BY <1>2, <1>7, <1>8, GreatestNumber
<1>4. PICK L : L = {d \in S : drawers[d].opened = Max(T)}
    OBVIOUS
<1>5. L # {} /\ L \subseteq Nat
    BY <1>1, <1>3, <1>4, DrawerAssumption
<1>6. Min(L) \in L
    BY <1>5, LeastNumber
<1> QED
    BY <1>1, <1>4, <1>6 DEF LastOpened

LEMMA DrawerShiftForType ==
    ASSUME DrawerShapes, NEW u \in Cashiers
    PROVE  DrawerShiftFor(u) \in Opened \cup {NoDrawer}
<1>1. PICK openHere : openHere = {d \in Opened : drawers[d].closed = Open}
    OBVIOUS
<1>2. PICK mine : mine = {d \in openHere : drawers[d].owner = u}
    OBVIOUS
<1>3. Opened \subseteq Drawers
    BY DEF Opened
<1>4. CASE mine # {}
  <2>1. LastOpened(mine) \in mine
      BY <1>1, <1>2, <1>3, <1>4, LastOpenedIsThere
  <2> QED
      BY <1>1, <1>2, <1>4, <2>1 DEF DrawerShiftFor
<1>5. CASE mine = {} /\ Cardinality(openHere) = 1
  <2>1. openHere # {}
      BY <1>5, FS_EmptySet
  <2>2. Min(openHere) \in openHere
      BY <1>1, <1>3, <2>1, LeastNumber, DrawerAssumption
  <2> QED
      BY <1>1, <1>2, <1>5, <2>2 DEF DrawerShiftFor
<1>6. CASE mine = {} /\ Cardinality(openHere) # 1
    BY <1>1, <1>2, <1>6 DEF DrawerShiftFor
<1> QED
    BY <1>4, <1>5, <1>6

LEMMA DrawerStepHolds == DrawerInv /\ [DrawerNext]_drawerVars => DrawerInv'
<1> SUFFICES ASSUME DrawerInv, [DrawerNext]_drawerVars PROVE DrawerInv'
    OBVIOUS
<1> USE DEF DrawerInv
<1>0. hour \in Nat /\ LastHour \in Nat /\ Drawers \subseteq Nat
    BY DrawerAssumption DEF DrawerShapes
<1>1. CASE Ticks
  <2>1. hour' \in 0..LastHour /\ 0..hour \subseteq 0..hour'
      BY <1>0, <1>1 DEF Ticks
  <2>2. DrawerShapes'
      BY <1>1, <2>1 DEF Ticks, DrawerShapes
  <2>3. NamesItsShift'
      BY <1>1 DEF Ticks, NamesItsShift, Opened
  <2> QED
      BY <2>2, <2>3
<1>2. ASSUME NEW u \in Cashiers, NEW d \in Drawers, NEW raw \in SentTimes, OpensDrawer(u, d, raw)
      PROVE  DrawerInv'
  <2>1. PICK t : t = TrustedTime(raw, 0)
      OBVIOUS
  <2>2. t \in 0..hour
      BY <1>0, <2>1, TrustedTimeType
  <2>3. drawers' = [drawers EXCEPT ![d] = [owner |-> u, opened |-> t, closed |-> Open]]
      BY <1>2, <2>1 DEF OpensDrawer
  <2>4. UNCHANGED <<hour, entries, paying>> /\ d \notin Opened
      BY <1>2 DEF OpensDrawer
  <2>5. DrawerShapes'
      BY <2>2, <2>3, <2>4 DEF DrawerShapes
  <2>6. \A s \in Opened : s \in Opened' /\ drawers'[s] = drawers[s]
      BY <2>3, <2>4 DEF Opened, DrawerShapes
  <2>7. NamesItsShift'
      BY <2>4, <2>6 DEF NamesItsShift
  <2> QED
      BY <2>5, <2>7
<1>3. ASSUME NEW d \in Drawers, NEW raw \in SentTimes, ClosesDrawer(d, raw)
      PROVE  DrawerInv'
  <2>1. PICK t : t = TrustedTime(raw, drawers[d].opened)
      OBVIOUS
  <2>2. drawers[d].opened \in 0..hour /\ t \in drawers[d].opened..hour
      BY <1>0, <2>1, TrustedTimeType DEF DrawerShapes
  <2>3. drawers' = [drawers EXCEPT ![d].closed = t]
      BY <1>3, <2>1 DEF ClosesDrawer
  <2>4. UNCHANGED <<hour, entries, paying>> /\ d \in Opened
      BY <1>3 DEF ClosesDrawer
  <2>5. drawers'[d] = [owner |-> drawers[d].owner, opened |-> drawers[d].opened, closed |-> t]
      BY <2>3 DEF DrawerShapes
  <2>6. \A s \in Drawers \ {d} : drawers'[s] = drawers[s]
      BY <2>3 DEF DrawerShapes
  <2>7. t \in 0..hour /\ t >= drawers[d].opened
      BY <1>0, <2>2
  <2>8. DrawerShapes'
      BY <2>3, <2>4, <2>5, <2>6, <2>7 DEF DrawerShapes
  <2>9. Opened' = Opened /\ \A s \in Drawers : drawers'[s].opened = drawers[s].opened
      BY <2>3, <2>5, <2>6 DEF Opened, DrawerShapes
  <2>10. NamesItsShift'
      BY <2>4, <2>9 DEF NamesItsShift, Opened
  <2> QED
      BY <2>8, <2>10
<1>4. ASSUME NEW u \in Cashiers, NEW e \in Entries, NEW d \in Drawers \cup {NoDrawer},
             NEW raw \in SentTimes, Sells(u, e, d, raw)
      PROVE  DrawerInv'
  <2>1. d \in Opened \cup {NoDrawer} /\ UNCHANGED <<hour, drawers, paying>>
      BY <1>4 DEF Sells
  <2>2. PICK row \in [by : Cashiers \cup {Nobody}, at : 0..hour, drawer : Drawers \cup {NoDrawer}] :
            /\ entries' = [entries EXCEPT ![e] = row]
            /\ row.drawer # NoDrawer => row.drawer \in Opened /\ row.at >= drawers[row.drawer].opened
    <3>1. CASE d = NoDrawer
      <4>1. PICK row : row = [by |-> u, at |-> TrustedTime(raw, 0), drawer |-> NoDrawer]
          OBVIOUS
      <4>2. TrustedTime(raw, 0) \in 0..hour
          BY <1>0, TrustedTimeType
      <4>3. row \in [by : Cashiers \cup {Nobody}, at : 0..hour, drawer : Drawers \cup {NoDrawer}]
          BY <4>1, <4>2
      <4> QED
          BY <1>4, <3>1, <4>1, <4>3 DEF Sells
    <3>2. CASE d # NoDrawer
      <4>1. PICK t : t = TrustedTime(raw, drawers[d].opened)
          OBVIOUS
      <4>2. PICK row : row = [by |-> drawers[d].owner, at |-> t, drawer |-> d]
          OBVIOUS
      <4>3. drawers[d].opened \in 0..hour /\ drawers[d].owner \in Cashiers \cup {Nobody} /\ d \in Drawers
          BY <2>1, <3>2 DEF DrawerShapes, Opened
      <4>4. t \in drawers[d].opened..hour
          BY <1>0, <4>1, <4>3, TrustedTimeType
      <4>5. t \in 0..hour /\ t >= drawers[d].opened
          BY <1>0, <4>3, <4>4
      <4>6. row \in [by : Cashiers \cup {Nobody}, at : 0..hour, drawer : Drawers \cup {NoDrawer}]
          BY <4>2, <4>3, <4>5
      <4>7. entries' = [entries EXCEPT ![e] = row]
          BY <1>4, <3>2, <4>1, <4>2 DEF Sells
      <4> QED
          BY <2>1, <3>2, <4>2, <4>5, <4>6, <4>7
    <3> QED
        BY <3>1, <3>2
  <2>3. DrawerShapes'
      BY <2>1, <2>2 DEF DrawerShapes
  <2>4. NamesItsShift'
      BY <2>1, <2>2 DEF NamesItsShift, Opened, DrawerShapes
  <2> QED
      BY <2>3, <2>4
<1>5. ASSUME NEW u \in Cashiers, PaysReads(u) PROVE DrawerInv'
  <2>1. PICK d : d = DrawerShiftFor(u)
      OBVIOUS
  <2>2. d \in Opened \cup {NoDrawer} /\ d \in Drawers \cup {NoDrawer}
      BY <2>1, DrawerShiftForType DEF Opened
  <2>3. paying' = [paying EXCEPT ![u] = [at |-> "write", drawer |-> d]]
      BY <1>5, <2>1 DEF PaysReads
  <2>4. UNCHANGED <<hour, drawers, entries>>
      BY <1>5 DEF PaysReads
  <2>5. DrawerShapes'
      BY <2>2, <2>3, <2>4 DEF DrawerShapes
  <2>6. NamesItsShift'
      BY <2>2, <2>3, <2>4 DEF NamesItsShift, Opened, DrawerShapes
  <2> QED
      BY <2>5, <2>6
<1>6. ASSUME NEW u \in Cashiers, NEW e \in Entries, PaysWrites(u, e) PROVE DrawerInv'
  <2>1. PICK row : row = [by |-> u, at |-> hour, drawer |-> paying[u].drawer]
      OBVIOUS
  <2>2. paying[u].drawer \in Opened \cup {NoDrawer}
      BY <1>6 DEF PaysWrites, NamesItsShift
  <2>3. \A d \in Opened : d \in Drawers /\ hour >= drawers[d].opened
      BY <1>0 DEF Opened, DrawerShapes
  <2>4. row \in [by : Cashiers \cup {Nobody}, at : 0..hour, drawer : Drawers \cup {NoDrawer}]
      BY <1>0, <2>1, <2>2, <2>3
  <2>5. entries' = [entries EXCEPT ![e] = row] /\ paying' = [paying EXCEPT ![u] = NotPaying]
      BY <1>6, <2>1 DEF PaysWrites
  <2>6. UNCHANGED <<hour, drawers>>
      BY <1>6 DEF PaysWrites
  <2>7. DrawerShapes'
      BY <2>4, <2>5, <2>6 DEF DrawerShapes
  <2>8. \A f \in Entries : entries'[f] = IF f = e THEN row ELSE entries[f]
      BY <2>5 DEF DrawerShapes
  <2>9. \A v \in Cashiers : paying'[v] = IF v = u THEN NotPaying ELSE paying[v]
      BY <2>5 DEF DrawerShapes
  <2>10. row.drawer # NoDrawer => row.drawer \in Opened /\ row.at >= drawers[row.drawer].opened
      BY <2>1, <2>2, <2>3
  <2>11. NamesItsShift'
      BY <2>6, <2>8, <2>9, <2>10 DEF NamesItsShift, Opened, NotPaying
  <2> QED
      BY <2>7, <2>11
<1>7. CASE UNCHANGED drawerVars
    BY <1>7 DEF drawerVars, DrawerShapes, NamesItsShift, Opened
<1> QED
    BY <1>1, <1>2, <1>3, <1>4, <1>5, <1>6, <1>7 DEF DrawerNext

LEMMA DrawerAlwaysHolds == DrawerSpec => []DrawerInv
<1>1. DrawerInit => DrawerInv
    BY DrawerInitHolds
<1>2. DrawerInv /\ [DrawerNext]_drawerVars => DrawerInv'
    BY DrawerStepHolds
<1> QED
    BY <1>1, <1>2, PTL DEF DrawerSpec

\* Nothing is written in the future and no shift ends before it begins
\* (DrawerTypeOK), for any times tills send.
THEOREM DrawerTypes == DrawerSpec => []DrawerTypeOK
<1>1. DrawerInv => DrawerTypeOK
  <2> SUFFICES ASSUME DrawerShapes PROVE DrawerTypeOK
      BY DEF DrawerInv
  <2>1. hour \in Nat
      BY DrawerAssumption DEF DrawerShapes
  <2>2. \A d \in Drawers : drawers[d].closed \in {Open} \cup drawers[d].opened..hour
      BY <2>1 DEF DrawerShapes
  <2> QED
      BY <2>2 DEF DrawerShapes, DrawerTypeOK
<1> QED
    BY <1>1, DrawerAlwaysHolds, PTL

-----------------------------------------------------------------------------
(* Who can claim a row. *)
Claimants(e) == {d \in Opened : Claims(d, e)}

LEMMA UntilType ==
    ASSUME DrawerShapes, NEW d \in Drawers
    PROVE  /\ hour \in Nat /\ Until(d) \in Nat /\ drawers[d].opened \in Nat
           /\ drawers[d].closed \in Int
           /\ drawers[d].closed # Open => Until(d) = drawers[d].closed
BY DrawerAssumption DEF DrawerShapes, Until, Open

\* Whoever can claim the row crosses in time with everybody else who can.
LEMMA NeighboursClaim ==
    ASSUME DrawerShapes, NEW e \in Written, NEW d \in Claimants(e)
    PROVE  {n \in Neighbours(d) : Claims(n, e)} = Claimants(e)
<1>1. entries[e].at \in Nat /\ e \in Entries
    BY DrawerAssumption DEF DrawerShapes, Written
<1>2. ASSUME NEW n \in Claimants(e) PROVE n \in Neighbours(d)
  <2>1. n \in Drawers /\ d \in Drawers /\ n \in Opened
      BY <1>2 DEF Claimants, Opened
  <2>2. drawers[n].opened <= entries[e].at /\ entries[e].at <= Until(n)
      BY <1>1, <1>2, <2>1, UntilType DEF Claimants, Claims
  <2>3. drawers[d].opened <= entries[e].at /\ entries[e].at <= Until(d)
      BY <1>1, <2>1, UntilType DEF Claimants, Claims
  <2>4. drawers[n].opened <= Until(d)
      BY <1>1, <2>1, <2>2, <2>3, UntilType
  <2>5. drawers[n].closed = Open \/ drawers[n].closed >= drawers[d].opened
      BY <1>1, <2>1, <2>2, <2>3, UntilType
  <2> QED
      BY <2>1, <2>4, <2>5 DEF Neighbours
<1> QED
    BY <1>2 DEF Claimants, Neighbours

\* Those the report looks at.
LEMMA ReportClaims ==
    ASSUME DrawerShapes, NEW e \in Written, NEW from \in Nat, entries[e].at >= from
    PROVE  {n \in {m \in Opened : drawers[m].closed = Open \/ drawers[m].closed >= from} : Claims(n, e)}
              = Claimants(e)
<1>1. entries[e].at \in Nat /\ e \in Entries
    BY DrawerAssumption DEF DrawerShapes, Written
<1>2. ASSUME NEW n \in Claimants(e) PROVE drawers[n].closed = Open \/ drawers[n].closed >= from
  <2>1. n \in Drawers
      BY <1>2 DEF Claimants, Opened
  <2>2. entries[e].at <= Until(n)
      BY <1>1, <1>2, <2>1, UntilType DEF Claimants, Claims
  <2> QED
      BY <1>1, <2>1, <2>2, UntilType
<1> QED
    BY <1>2 DEF Claimants

\* A row goes to nobody who cannot claim it.
LEMMA UnlinkedGoesToClaimant ==
    ASSUME DrawerShapes, NEW e, NEW C, C \subseteq Opened, NEW d \in Drawers, UnlinkedTo(e, C) = d
    PROVE  d \in C /\ Claims(d, e)
<1>1. PICK T : T = {n \in C : Claims(n, e)}
    OBVIOUS
<1>2. d # NoDrawer
    BY DrawerAssumption DEF NoDrawer
<1>3. T # {} /\ d = LastOpened(T)
    BY <1>1, <1>2 DEF UnlinkedTo
<1>4. T \in SUBSET Drawers
    BY <1>1 DEF Opened
<1> QED
    BY <1>1, <1>3, <1>4, LastOpenedIsThere

\* What the till's question about a shift finds, without its neighbours.
LEMMA ShiftCashIs ==
    ASSUME DrawerShapes, NEW e \in Written, NEW d \in Opened
    PROVE  e \in ShiftCashFor(d) <=>
              IF entries[e].drawer # NoDrawer THEN entries[e].drawer = d
              ELSE d \in Claimants(e) /\ LastOpened(Claimants(e)) = d
<1>0. d \in Drawers /\ Neighbours(d) \subseteq Opened
    BY DEF Opened, Neighbours
<1>1. CASE entries[e].drawer # NoDrawer
    BY <1>1 DEF ShiftCashFor, RowsNear, BelongsTo
<1>2. CASE entries[e].drawer = NoDrawer
  <2>1. ASSUME e \in ShiftCashFor(d) PROVE d \in Claimants(e) /\ LastOpened(Claimants(e)) = d
    <3>1. UnlinkedTo(e, Neighbours(d)) = d
        BY <1>2, <2>1 DEF ShiftCashFor, BelongsTo
    <3>2. d \in Claimants(e)
        BY <1>0, <3>1, UnlinkedGoesToClaimant DEF Claimants
    <3>3. {n \in Neighbours(d) : Claims(n, e)} = Claimants(e) /\ Claimants(e) # {}
        BY <3>2, NeighboursClaim
    <3> QED
        BY <3>1, <3>2, <3>3 DEF UnlinkedTo
  <2>2. ASSUME d \in Claimants(e), LastOpened(Claimants(e)) = d PROVE e \in ShiftCashFor(d)
    <3>1. {n \in Neighbours(d) : Claims(n, e)} = Claimants(e) /\ Claimants(e) # {}
        BY <2>2, NeighboursClaim
    <3>2. UnlinkedTo(e, Neighbours(d)) = d
        BY <2>2, <3>1 DEF UnlinkedTo
    <3>3. e \in RowsNear(d)
        BY <2>2 DEF Claimants, Claims, RowsNear
    <3> QED
        BY <1>2, <3>2, <3>3 DEF ShiftCashFor, BelongsTo
  <2> QED
      BY <1>2, <2>1, <2>2
<1> QED
    BY <1>1, <1>2

\* No money is expected in two drawers (ExpectedOnce), however many shifts overlap,
\* of one cashier or of several, and whatever time their rows say.
THEOREM AlwaysExpectedOnce == DrawerSpec => []ExpectedOnce
<1>1. DrawerInv => ExpectedOnce
  <2> SUFFICES ASSUME DrawerShapes, NEW e \in Written
               PROVE  Cardinality({d \in Opened : e \in ShiftCashFor(d)}) <= 1
      BY DEF DrawerInv, ExpectedOnce
  <2>1. PICK D : D = {d \in Opened : e \in ShiftCashFor(d)}
      OBVIOUS
  <2>2. \A c, d \in D : c = d
      BY <2>1, ShiftCashIs
  <2>3. D = {} \/ \E d : D = {d}
      BY <2>2
  <2>4. Cardinality(D) \in {0, 1}
      BY <2>3, FS_EmptySet, FS_Singleton
  <2> QED
      BY <2>1, <2>4
<1> QED
    BY <1>1, DrawerAlwaysHolds, PTL

\* The till and the report count the same money into a shift (SameMoneyForBoth).
THEOREM AlwaysTheSameMoney == DrawerSpec => []SameMoneyForBoth
<1>1. DrawerInv => SameMoneyForBoth
  <2> SUFFICES ASSUME DrawerInv, NEW d \in Opened, NEW from \in 0..drawers[d].opened
               PROVE  ShiftCashFor(d) = ReportedCash(d, from)
      BY DEF SameMoneyForBoth
  <2>0. DrawerShapes /\ d \in Drawers
      BY DEF DrawerInv, Opened
  <2>1. drawers[d].opened \in Nat /\ from \in Nat /\ from <= drawers[d].opened
      BY <2>0, UntilType
  <2>2. PICK C : C = {m \in Opened : drawers[m].closed = Open \/ drawers[m].closed >= from}
      OBVIOUS
  <2>3. ASSUME NEW e \in Written PROVE e \in ShiftCashFor(d) <=> e \in ReportedCash(d, from)
    <3>0. entries[e].at \in Nat /\ e \in Entries
        BY <2>0, DrawerAssumption DEF DrawerShapes, Written
    <3>1. e \in ReportedCash(d, from) <=> entries[e].at >= from /\ BelongsTo(e, d, C)
        BY <2>2 DEF ReportedCash
    <3>2. CASE entries[e].drawer # NoDrawer
      <4>1. entries[e].drawer = d => entries[e].at >= from
          BY <2>1, <3>0, <3>2 DEF DrawerInv, NamesItsShift
      <4> QED
          BY <2>0, <3>1, <3>2, <4>1, ShiftCashIs DEF BelongsTo
    <3>3. CASE entries[e].drawer = NoDrawer
      <4>1. d \in Claimants(e) => entries[e].at >= from
          BY <2>0, <2>1, <3>0, UntilType DEF Claimants, Claims
      <4>2. entries[e].at >= from => {n \in C : Claims(n, e)} = Claimants(e)
          BY <2>0, <2>1, <2>2, ReportClaims
      <4>3. BelongsTo(e, d, C) => d \in Claimants(e)
          BY <2>0, <2>2, <3>3, UnlinkedGoesToClaimant DEF BelongsTo, Claimants
      <4>4. d \in Claimants(e) => (BelongsTo(e, d, C) <=> LastOpened(Claimants(e)) = d)
          BY <3>3, <4>1, <4>2 DEF BelongsTo, UnlinkedTo
      <4> QED
          BY <2>0, <3>1, <3>3, <4>1, <4>3, <4>4, ShiftCashIs
    <3> QED
        BY <3>2, <3>3
  <2> QED
      BY <2>3 DEF ShiftCashFor, RowsNear, ReportedCash
<1> QED
    BY <1>1, DrawerAlwaysHolds, PTL

-----------------------------------------------------------------------------
(***************************************************************************)
(* The counter's money, for any number of tills, sales and settlements.    *)
(*                                                                         *)
(* That points add up is inductive as it stands, for the balance is moved  *)
(* by the statement that writes it.  Of debts the books say more: what was *)
(* put on the documents and what was kept aside is what was taken, and     *)
(* nothing was put on a document that is not a debt, also by a settlement  *)
(* that is still to be written.                                            *)
(***************************************************************************)
LEMMA SumOverWhereNotZero ==
    ASSUME NEW S, IsFiniteSet(S), NEW T, T \subseteq S, NEW f,
           \A x \in S : f[x] \in Int, \A x \in S \ T : f[x] = 0
    PROVE  SumOver(f, S) = SumOver(f, T)
<1>1. PICK R : R = S \ T
    OBVIOUS
<1>2. PICK Good : Good = {U \in SUBSET R : SumOver(f, T \cup U) = SumOver(f, T)}
    OBVIOUS
<1>3. IsFiniteSet(R)
    BY <1>1, FS_Difference
<1>4. {} \in Good
  <2>1. T \cup {} = T
      OBVIOUS
  <2> QED
      BY <1>2, <2>1
<1>5. ASSUME NEW U \in SUBSET R, NEW x \in R \ U, U \in Good PROVE U \cup {x} \in Good
  <2>1. IsFiniteSet(T \cup U)
      BY <1>1, FS_Subset
  <2>2. x \notin T \cup U /\ f[x] = 0 /\ \A y \in T \cup U : f[y] \in Int
      BY <1>1
  <2>3. SumOver(f, (T \cup U) \cup {x}) = SumOver(f, T \cup U) + 0
      BY <2>1, <2>2, SumOverAdd
  <2>4. SumOver(f, T \cup U) = SumOver(f, T) /\ SumOver(f, T \cup U) \in Int
      BY <1>2, <1>5, <2>1, <2>2, SumOverType
  <2>5. T \cup (U \cup {x}) = (T \cup U) \cup {x}
      OBVIOUS
  <2>8. \A n \in Int : n + 0 = n
      OBVIOUS
  <2>9. SumOver(f, T \cup U) + 0 = SumOver(f, T \cup U)
      BY <2>4, <2>8, Zenon
  <2>6. SumOver(f, T \cup (U \cup {x})) = SumOver(f, T)
      BY <2>3, <2>4, <2>5, <2>9, Zenon
  <2>7. U \cup {x} \in SUBSET R
      OBVIOUS
  <2> QED
      BY <1>2, <2>6, <2>7
<1>6. R \in Good
    BY <1>3, <1>4, <1>5, FiniteSetInduction
<1>7. T \cup R = S
    BY <1>1
<1> QED
    BY <1>2, <1>6, <1>7

LEMMA LeastOfThree ==
    ASSUME NEW a \in Nat, NEW b \in Nat, NEW c \in Nat
    PROVE  Redeemable(a, b, c) \in Nat /\ Redeemable(a, b, c) <= a /\ Redeemable(a, b, c) <= b
<1>1. \E x \in {a, b, c} : \A y \in {a, b, c} : x <= y
  <2>1. CASE a <= b /\ a <= c
      BY <2>1
  <2>2. CASE b <= a /\ b <= c
      BY <2>2
  <2>3. CASE c <= a /\ c <= b
      BY <2>3
  <2> QED
      BY <2>1, <2>2, <2>3
<1>2. Min({a, b, c}) \in {a, b, c} /\ \A y \in {a, b, c} : Min({a, b, c}) <= y
    BY <1>1 DEF Min
<1> QED
    BY <1>2 DEF Redeemable

-----------------------------------------------------------------------------
ReceiptRows == [made : BOOLEAN, price : Nat, redeemed : Nat, earned : Nat, paid : Nat, credit : BOOLEAN]
SalesToPrice == [at : {"points"}, price : Nat, wish : Nat, took : Nat, credit : BOOLEAN]
SalesToWrite == [at : {"write"}, price : Nat, took : Nat, credit : BOOLEAN, seen : Nat,
                 redeemed : Nat, earned : Nat]
MoneyToWrite == [at : {"settle"}, amount : Nat, parts : [Receipts -> Nat]]

CheckoutShapes ==
    /\ balance \in Nat /\ unapplied \in Nat /\ taken \in Nat /\ running \in BOOLEAN
    /\ receipts \in [Receipts -> ReceiptRows]
    /\ settled \in [Receipts -> Nat]
    /\ selling \in [Tills -> {NotSelling} \cup SalesToPrice \cup SalesToWrite \cup MoneyToWrite]

\* A receipt that was not made says nothing, and one that was says what was paid.
ReceiptsAreRight ==
    \A r \in Receipts : /\ r \notin Made => receipts[r] = NoReceipt
                        /\ r \in Made => receipts[r].paid = Owed(r)

\* What was put on documents and what was not is what was taken.
SettledIsTaken ==
    /\ Sum(settled) + unapplied = taken
    /\ \A r \in Receipts \ Debts : settled[r] = 0
    /\ \A c \in Tills : selling[c].at = "settle" =>
          /\ \A r \in Receipts \ Debts : selling[c].parts[r] = 0
          /\ Sum(selling[c].parts) <= selling[c].amount

CheckoutInv == CheckoutShapes /\ ReceiptsAreRight /\ SettledIsTaken /\ PointsAddUp

PointsOf(list) == [r \in Receipts |-> list[r].earned - list[r].redeemed]

LEMMA CheckoutInitHolds == CheckoutInit => CheckoutInv
<1> SUFFICES ASSUME CheckoutInit PROVE CheckoutInv
    OBVIOUS
<1>0. IsFiniteSet(Receipts) /\ FirstPoints \in Nat
    BY CheckoutAssumption
<1>1. CheckoutShapes
    BY <1>0 DEF CheckoutInit, CheckoutShapes, NoReceipt, ReceiptRows
<1>2. ReceiptsAreRight /\ Debts = {}
    BY DEF CheckoutInit, ReceiptsAreRight, Made, Debts, NoReceipt
<1>3. Sum(settled) = 0
  <2>1. DOMAIN settled = Receipts /\ \A r \in Receipts : settled[r] = 0
      BY DEF CheckoutInit
  <2> QED
      BY <1>0, <2>1, ZeroSum
<1>4. SettledIsTaken
    BY <1>2, <1>3 DEF CheckoutInit, SettledIsTaken, NotSelling
<1>5. PointsAddUp
  <2>1. PICK f : f = PointsOf(receipts)
      OBVIOUS
  <2>2. DOMAIN f = Receipts /\ \A r \in Receipts : f[r] = 0
      BY <2>1 DEF CheckoutInit, PointsOf, NoReceipt
  <2>3. Sum(f) = 0
      BY <1>0, <2>2, ZeroSum
  <2> QED
      BY <1>0, <2>1, <2>3 DEF CheckoutInit, PointsAddUp, PointsOf
<1> QED
    BY <1>1, <1>2, <1>4, <1>5 DEF CheckoutInv

\* A step that only changes requests, and none to a settlement.
LEMMA OnlyRequestsChange ==
    ASSUME CheckoutInv, UNCHANGED <<balance, receipts, settled, unapplied, taken>>,
           running' \in BOOLEAN, NEW c \in Tills,
           NEW d \in {NotSelling} \cup SalesToPrice \cup SalesToWrite,
           selling' = [selling EXCEPT ![c] = d]
    PROVE  CheckoutInv'
<1>1. Made' = Made /\ Debts' = Debts /\ \A r : Owed(r)' = Owed(r)
    BY DEF Made, Debts, Owed
<1>2. CheckoutShapes'
    BY DEF CheckoutInv, CheckoutShapes
<1>3. ReceiptsAreRight'
    BY <1>1 DEF CheckoutInv, ReceiptsAreRight
<1>4. d.at # "settle"
    BY DEF NotSelling, SalesToPrice, SalesToWrite
<1>5. \A t \in Tills : selling'[t].at = "settle" => selling'[t] = selling[t]
    BY <1>4 DEF CheckoutInv, CheckoutShapes
<1>6. SettledIsTaken'
    BY <1>1, <1>5 DEF CheckoutInv, SettledIsTaken
<1>7. PointsAddUp'
    BY DEF CheckoutInv, PointsAddUp
<1> QED
    BY <1>2, <1>3, <1>6, <1>7 DEF CheckoutInv

LEMMA SaleReadsKeeps ==
    ASSUME CheckoutInv, NEW c \in Tills, NEW price \in Prices, NEW credit \in BOOLEAN,
           NEW wish \in 0..price, NEW took \in (price - wish)..price,
           SaleReads(c, price, wish, took, credit)
    PROVE  CheckoutInv'
<1>1. price \in Nat /\ wish \in Nat /\ took \in Nat
    BY CheckoutAssumption
<1>2. PICK d : d = [at |-> "points", price |-> price, wish |-> wish, took |-> took, credit |-> credit]
    OBVIOUS
<1>3. d \in SalesToPrice
    BY <1>1, <1>2 DEF SalesToPrice
<1>4. selling' = [selling EXCEPT ![c] = d]
    BY <1>2 DEF SaleReads
<1>5. UNCHANGED <<balance, receipts, settled, unapplied, taken>> /\ running' \in BOOLEAN
    BY DEF SaleReads, CheckoutInv, CheckoutShapes
<1> QED
    BY <1>3, <1>4, <1>5, OnlyRequestsChange

LEMMA EarnedType ==
    ASSUME NEW n \in Nat
    PROVE  (n * EarnRate) \div 100 \in Nat
<1>1. EarnRate \in Nat
    BY CheckoutAssumption
<1>2. \A a, b \in Nat : a * b \in Nat
    OBVIOUS
<1>3. n * EarnRate \in Nat
    BY <1>1, <1>2
<1>4. \A m \in Nat : m \div 100 \in Nat
    OBVIOUS
<1> QED
    BY <1>3, <1>4

LEMMA SaleReadsPointsKeeps ==
    ASSUME CheckoutInv, NEW c \in Tills, SaleReadsPoints(c)
    PROVE  CheckoutInv'
<1>1. PICK d : d = selling[c]
    OBVIOUS
<1>2. d \in SalesToPrice /\ balance \in Nat
    BY <1>1 DEF SaleReadsPoints, CheckoutInv, CheckoutShapes, NotSelling, SalesToWrite, MoneyToWrite
<1>3. PICK redeemed : redeemed = Redeemable(d.price, balance, d.wish)
    OBVIOUS
<1>4. d.price \in Nat /\ d.wish \in Nat /\ d.took \in Nat /\ d.credit \in BOOLEAN
    BY <1>2 DEF SalesToPrice
<1>5. redeemed \in Nat /\ redeemed <= d.price
    BY <1>2, <1>3, <1>4, LeastOfThree
<1>6. PICK earned : earned = ((d.price - redeemed) * EarnRate) \div 100
    OBVIOUS
<1>7. d.price - redeemed \in Nat
    BY <1>4, <1>5
<1>8. earned \in Nat
    BY <1>6, <1>7, EarnedType
<1>9. PICK e : e = [at |-> "write", price |-> d.price, took |-> d.took, credit |-> d.credit,
                    seen |-> balance, redeemed |-> redeemed, earned |-> earned]
    OBVIOUS
<1>10. e \in SalesToWrite
    BY <1>2, <1>4, <1>5, <1>8, <1>9 DEF SalesToWrite
<1>11. selling' = [selling EXCEPT ![c] = e]
    BY <1>1, <1>3, <1>6, <1>9 DEF SaleReadsPoints
<1>12. UNCHANGED <<balance, receipts, settled, unapplied, taken>> /\ running' \in BOOLEAN
    BY DEF SaleReadsPoints, CheckoutInv, CheckoutShapes
<1> QED
    BY <1>10, <1>11, <1>12, OnlyRequestsChange

\* The process ends with all its requests.
LEMMA AllRequestsEnd ==
    ASSUME CheckoutInv, UNCHANGED <<balance, receipts, settled, unapplied, taken>>,
           running' \in BOOLEAN, selling' = [t \in Tills |-> NotSelling]
    PROVE  CheckoutInv'
<1>1. Made' = Made /\ Debts' = Debts /\ \A r : Owed(r)' = Owed(r)
    BY DEF Made, Debts, Owed
<1>2. CheckoutShapes'
    BY DEF CheckoutInv, CheckoutShapes
<1>3. ReceiptsAreRight'
    BY <1>1 DEF CheckoutInv, ReceiptsAreRight
<1>4. SettledIsTaken'
    BY <1>1 DEF CheckoutInv, SettledIsTaken, NotSelling
<1>5. PointsAddUp'
    BY DEF CheckoutInv, PointsAddUp
<1> QED
    BY <1>2, <1>3, <1>4, <1>5 DEF CheckoutInv

LEMMA SaleCommitsKeeps ==
    ASSUME CheckoutInv, NEW c \in Tills, NEW r \in Receipts, SaleCommits(c, r)
    PROVE  CheckoutInv'
<1>1. PICK d : d = selling[c]
    OBVIOUS
<1>2. d \in SalesToWrite
    BY <1>1 DEF SaleCommits, CheckoutInv, CheckoutShapes, NotSelling, SalesToPrice, MoneyToWrite
<1>3. r \notin Made /\ UNCHANGED <<settled, unapplied, taken>>
    BY DEF SaleCommits
<1>4. CASE ~PointsEnough(d)
    BY <1>1, <1>3, <1>4, AllRequestsEnd DEF SaleCommits
<1>5. CASE PointsEnough(d) /\ ~PaymentFits(d)
  <2>1. UNCHANGED <<balance, receipts, settled, unapplied, taken>> /\ running' \in BOOLEAN
      BY <1>1, <1>3, <1>5 DEF SaleCommits, CheckoutInv, CheckoutShapes
  <2>2. selling' = [selling EXCEPT ![c] = NotSelling]
      BY <1>1, <1>5 DEF SaleCommits
  <2> QED
      BY <2>1, <2>2, OnlyRequestsChange
<1>6. CASE PointsEnough(d) /\ PaymentFits(d)
  <2>1. PICK new : new = [made |-> TRUE, price |-> d.price, redeemed |-> d.redeemed, earned |-> d.earned,
                          paid |-> IF d.price = d.redeemed THEN 0 ELSE d.took, credit |-> d.credit]
      OBVIOUS
  <2>2. /\ d.price \in Nat /\ d.redeemed \in Nat /\ d.earned \in Nat /\ d.took \in Nat
        /\ d.credit \in BOOLEAN
      BY <1>2 DEF SalesToWrite
  <2>3. new \in ReceiptRows /\ new.made
      BY <2>1, <2>2 DEF ReceiptRows
  <2>4. receipts' = [receipts EXCEPT ![r] = new] /\ balance' = PointsAfter(d) /\ running' = running
      BY <1>1, <1>6, <2>1 DEF SaleCommits
  <2>5. selling' = [selling EXCEPT ![c] = NotSelling]
      BY <1>1, <1>6 DEF SaleCommits
  <2>6. \A s \in Receipts : receipts'[s] = IF s = r THEN new ELSE receipts[s]
      BY <2>4 DEF CheckoutInv, CheckoutShapes
  <2>7. balance' = balance + d.earned - d.redeemed /\ balance' \in Nat
      BY <1>6, <2>2, <2>4 DEF PointsAfter, PointsEnough, CheckoutInv, CheckoutShapes
  <2>8. CheckoutShapes'
      BY <1>3, <2>3, <2>4, <2>5, <2>7 DEF CheckoutInv, CheckoutShapes
  <2>9. Debts \subseteq Debts' /\ Made' = Made \cup {r}
      BY <1>3, <2>3, <2>6 DEF Made, Debts
  <2>10. new.paid = new.price - new.redeemed
      BY <1>6, <2>1, <2>2 DEF PaymentFits
  <2>11. ReceiptsAreRight'
      BY <2>6, <2>9, <2>10 DEF CheckoutInv, ReceiptsAreRight, Owed
  <2>12. \A t \in Tills : selling'[t].at = "settle" => selling'[t] = selling[t]
      BY <2>5 DEF CheckoutInv, CheckoutShapes, NotSelling
  <2>13. SettledIsTaken'
      BY <1>3, <2>9, <2>12 DEF CheckoutInv, SettledIsTaken
  <2>14. PointsAddUp'
    <3>1. PICK f : f = PointsOf(receipts)
        OBVIOUS
    <3>2. PICK h : h = PointsOf(receipts')
        OBVIOUS
    <3>3. \A s \in Receipts : receipts[s] \in ReceiptRows /\ receipts'[s] \in ReceiptRows
        BY <2>8 DEF CheckoutInv, CheckoutShapes
    <3>4. f \in [Receipts -> Int] /\ h \in [Receipts -> Int]
        BY <3>1, <3>2, <3>3 DEF PointsOf, ReceiptRows
    <3>5. \A s \in Receipts \ {r} : h[s] = f[s]
        BY <2>6, <3>1, <3>2 DEF PointsOf
    <3>6. OneChanged(f, h, Receipts, r)
        BY <3>4, <3>5, CheckoutAssumption DEF OneChanged
    <3>7. Sum(h) = Sum(f) + h[r] - f[r] /\ Sum(f) \in Int
        BY <3>6, OneChanges
    <3>8. receipts[r] = NoReceipt
        BY <1>3 DEF CheckoutInv, ReceiptsAreRight
    <3>9. f[r] = 0 /\ h[r] = d.earned - d.redeemed
        BY <2>1, <2>6, <3>1, <3>2, <3>8 DEF PointsOf, NoReceipt
    <3>10. balance = FirstPoints + Sum(f)
        BY <3>1 DEF CheckoutInv, PointsAddUp, PointsOf
    <3>11. balance' = FirstPoints + Sum(h)
      <4>1. FirstPoints \in Nat
          BY CheckoutAssumption
      <4> QED
          BY <2>2, <2>7, <3>7, <3>9, <3>10, <4>1
    <3> QED
        BY <3>2, <3>11 DEF PointsAddUp, PointsOf
  <2> QED
      BY <2>8, <2>11, <2>13, <2>14 DEF CheckoutInv
<1> QED
    BY <1>4, <1>5, <1>6

\* What a settlement pays for is debts, and it pays for no more than it brings.
LEMMA AllocatePaymentPays ==
    ASSUME CheckoutInv, NEW amount \in Nat
    PROVE  /\ AllocatePayment(amount) \in [Receipts -> Nat]
           /\ \A r \in Receipts \ Debts : AllocatePayment(amount)[r] = 0
           /\ Sum(AllocatePayment(amount)) <= amount
<1>0. Debts \subseteq Receipts /\ IsFiniteSet(Receipts) /\ Receipts \subseteq Nat
    BY CheckoutAssumption DEF Debts, Made
<1>1. IsFiniteSet(Debts)
    BY <1>0, FS_Subset
<1>16. Debts \subseteq Int
    BY <1>0
<1>2. PICK space : space = [r \in Debts |-> Unsettled(r)]
    OBVIOUS
<1>3. \A r \in Debts : Owed(r) - settled[r] \in Int
    BY <1>0 DEF CheckoutInv, CheckoutShapes, ReceiptRows, Owed
<1>4. space \in [Debts -> Int]
    BY <1>2, <1>3 DEF Unsettled, NotNegative
<1>5. PICK parts : parts = InOrder(amount, space)
    OBVIOUS
<1>6. parts \in [Debts -> Nat] /\ Sum(parts) = Lesser(Sum([b \in Debts |-> NotNegative(space[b])]), amount)
    BY <1>1, <1>4, <1>5, <1>16, InOrderShares
<1>7. Sum([b \in Debts |-> NotNegative(space[b])]) \in Int
  <2>1. PICK k : k = [b \in Debts |-> NotNegative(space[b])]
      OBVIOUS
  <2>2. k \in [Debts -> Int]
      BY <1>4, <2>1 DEF NotNegative
  <2> QED
      BY <1>1, <2>1, <2>2, IntSum
<1>8. Sum(parts) <= amount
    BY <1>6, <1>7 DEF Lesser
<1>9. PICK all : all = AllocatePayment(amount)
    OBVIOUS
<1>10. all = [r \in Receipts |-> IF r \in Debts THEN parts[r] ELSE 0]
    BY <1>2, <1>5, <1>9 DEF AllocatePayment
<1>11. all \in [Receipts -> Nat]
    BY <1>6, <1>10
<1>12. SumOver(all, Receipts) = SumOver(all, Debts)
  <2>1. \A r \in Receipts : all[r] \in Int
      BY <1>11
  <2>2. \A r \in Receipts \ Debts : all[r] = 0
      BY <1>10
  <2> QED
      BY <1>0, <2>1, <2>2, SumOverWhereNotZero
<1>13. SumOver(all, Debts) = SumOver(parts, Debts)
    BY <1>0, <1>1, <1>10, SumOverSame
<1>14. Sum(all) = SumOver(all, Receipts) /\ Sum(parts) = SumOver(parts, Debts)
    BY <1>6, <1>11, SumIsOverDomain
<1>15. Sum(all) <= amount
    BY <1>8, <1>12, <1>13, <1>14
<1> QED
    BY <1>9, <1>10, <1>11, <1>15

LEMMA SettlementReadsKeeps ==
    ASSUME CheckoutInv, NEW c \in Tills, NEW amount \in 1..MaxSettled, SettlementReads(c, amount)
    PROVE  CheckoutInv'
<1>1. amount \in Nat
    OBVIOUS
<1>2. PICK parts : parts = AllocatePayment(amount)
    OBVIOUS
<1>3. /\ parts \in [Receipts -> Nat] /\ \A r \in Receipts \ Debts : parts[r] = 0
      /\ Sum(parts) <= amount
    BY <1>1, <1>2, AllocatePaymentPays
<1>4. PICK d : d = [at |-> "settle", amount |-> amount, parts |-> parts]
    OBVIOUS
<1>5. d \in MoneyToWrite
    BY <1>1, <1>3, <1>4 DEF MoneyToWrite
<1>6. selling' = [selling EXCEPT ![c] = d] /\ UNCHANGED <<balance, receipts, settled, unapplied, taken, running>>
    BY <1>2, <1>4 DEF SettlementReads
<1>7. Made' = Made /\ Debts' = Debts /\ \A r : Owed(r)' = Owed(r)
    BY <1>6 DEF Made, Debts, Owed
<1>8. CheckoutShapes'
    BY <1>5, <1>6 DEF CheckoutInv, CheckoutShapes
<1>9. ReceiptsAreRight'
    BY <1>6, <1>7 DEF CheckoutInv, ReceiptsAreRight
<1>10. \A t \in Tills : selling'[t] = IF t = c THEN d ELSE selling[t]
    BY <1>6 DEF CheckoutInv, CheckoutShapes
<1>11. SettledIsTaken'
    BY <1>3, <1>4, <1>6, <1>7, <1>10 DEF CheckoutInv, SettledIsTaken
<1>12. PointsAddUp'
    BY <1>6 DEF CheckoutInv, PointsAddUp
<1> QED
    BY <1>8, <1>9, <1>11, <1>12 DEF CheckoutInv

LEMMA SettlementCommitsKeeps ==
    ASSUME CheckoutInv, NEW c \in Tills, SettlementCommits(c)
    PROVE  CheckoutInv'
<1>1. PICK d : d = selling[c]
    OBVIOUS
<1>2. d \in MoneyToWrite /\ d.at = "settle"
    BY <1>1 DEF SettlementCommits, CheckoutInv, CheckoutShapes, NotSelling, SalesToPrice, SalesToWrite
<1>3. d.amount \in Nat /\ d.parts \in [Receipts -> Nat]
    BY <1>2 DEF MoneyToWrite
<1>4. Sum(d.parts) <= d.amount /\ \A r \in Receipts \ Debts : d.parts[r] = 0
    BY <1>1, <1>2 DEF CheckoutInv, SettledIsTaken
<1>5. /\ selling' = [selling EXCEPT ![c] = NotSelling]
      /\ settled' = [r \in Receipts |-> settled[r] + d.parts[r]]
      /\ unapplied' = unapplied + (d.amount - Sum(d.parts))
      /\ taken' = taken + d.amount
      /\ UNCHANGED <<balance, receipts, running>>
    BY <1>1 DEF SettlementCommits, LeftOver
<1>6. Sum(d.parts) \in Nat
    BY <1>3, NatSum, CheckoutAssumption
<1>7. unapplied' \in Nat /\ taken' \in Nat
    BY <1>3, <1>4, <1>5, <1>6 DEF CheckoutInv, CheckoutShapes
<1>8. settled' \in [Receipts -> Nat] /\ settled \in [Receipts -> Nat]
    BY <1>3, <1>5 DEF CheckoutInv, CheckoutShapes
<1>9. CheckoutShapes'
    BY <1>5, <1>7, <1>8 DEF CheckoutInv, CheckoutShapes
<1>10. Made' = Made /\ Debts' = Debts /\ \A r : Owed(r)' = Owed(r)
    BY <1>5 DEF Made, Debts, Owed
<1>11. ReceiptsAreRight'
    BY <1>5, <1>10 DEF CheckoutInv, ReceiptsAreRight
<1>12. Sum(settled') = Sum(settled) + Sum(d.parts) /\ Sum(settled) \in Nat
  <2>1. PICK new : new = settled'
      OBVIOUS
  <2>2. new \in [Receipts -> Nat] /\ \A r \in Receipts : new[r] = settled[r] + d.parts[r]
      BY <1>5, <1>8, <2>1
  <2>3. SumOver(new, Receipts) = SumOver(settled, Receipts) + SumOver(d.parts, Receipts)
    <3>1. \A r \in Receipts : settled[r] \in Int /\ d.parts[r] \in Int /\ new[r] = settled[r] + d.parts[r]
        BY <1>3, <1>8, <2>2
    <3>2. IsFiniteSet(Receipts)
        BY CheckoutAssumption
    <3> QED
        BY <3>1, <3>2, SumOverPlus, Zenon
  <2>4. /\ Sum(new) = SumOver(new, Receipts) /\ Sum(settled) = SumOver(settled, Receipts)
        /\ Sum(d.parts) = SumOver(d.parts, Receipts)
      BY <1>3, <1>8, <2>2, SumIsOverDomain
  <2>5. Sum(settled) \in Nat
      BY <1>8, NatSum, CheckoutAssumption
  <2> QED
      BY <2>1, <2>3, <2>4, <2>5
<1>13. Sum(settled') + unapplied' = taken'
  <2>1. Sum(settled) + unapplied = taken /\ unapplied \in Nat /\ taken \in Nat
      BY DEF CheckoutInv, CheckoutShapes, SettledIsTaken
  <2> QED
      BY <1>3, <1>5, <1>6, <1>12, <2>1
<1>14. \A r \in Receipts \ Debts : settled'[r] = 0
    BY <1>4, <1>5 DEF CheckoutInv, SettledIsTaken
<1>15. \A t \in Tills : selling'[t].at = "settle" => selling'[t] = selling[t]
    BY <1>5 DEF CheckoutInv, CheckoutShapes, NotSelling
<1>16. SettledIsTaken'
    BY <1>10, <1>13, <1>14, <1>15 DEF CheckoutInv, SettledIsTaken
<1>17. PointsAddUp'
    BY <1>5 DEF CheckoutInv, PointsAddUp
<1> QED
    BY <1>9, <1>11, <1>16, <1>17 DEF CheckoutInv

LEMMA CheckoutStepHolds == CheckoutInv /\ [CheckoutNext]_checkoutVars => CheckoutInv'
<1> SUFFICES ASSUME CheckoutInv, [CheckoutNext]_checkoutVars PROVE CheckoutInv'
    OBVIOUS
<1>1. CASE UNCHANGED <<balance, receipts, settled, unapplied, taken, selling>> /\ running' \in BOOLEAN
  <2>1. Made' = Made /\ Debts' = Debts /\ \A r : Owed(r)' = Owed(r)
      BY <1>1 DEF Made, Debts, Owed
  <2> QED
      BY <1>1, <2>1 DEF CheckoutInv, CheckoutShapes, ReceiptsAreRight, SettledIsTaken, PointsAddUp
<1>2. CASE Restarts
    BY <1>1, <1>2 DEF Restarts
<1>3. CASE UNCHANGED checkoutVars
    BY <1>1, <1>3 DEF checkoutVars, CheckoutInv, CheckoutShapes
<1>4. ASSUME NEW c \in Tills, NEW price \in Prices, NEW credit \in BOOLEAN,
             NEW wish \in 0..price, NEW took \in (price - wish)..price,
             SaleReads(c, price, wish, took, credit)
      PROVE  CheckoutInv'
    BY <1>4, SaleReadsKeeps
<1>5. ASSUME NEW c \in Tills, SaleReadsPoints(c) PROVE CheckoutInv'
    BY <1>5, SaleReadsPointsKeeps
<1>6. ASSUME NEW c \in Tills, SettlementCommits(c) PROVE CheckoutInv'
    BY <1>6, SettlementCommitsKeeps
<1>7. ASSUME NEW c \in Tills, NEW r \in Receipts, SaleCommits(c, r) PROVE CheckoutInv'
    BY <1>7, SaleCommitsKeeps
<1>8. ASSUME NEW c \in Tills, NEW amount \in 1..MaxSettled, SettlementReads(c, amount) PROVE CheckoutInv'
    BY <1>8, SettlementReadsKeeps
<1> QED
    BY <1>2, <1>3, <1>4, <1>5, <1>6, <1>7, <1>8 DEF CheckoutNext

LEMMA CheckoutAlwaysHolds == CheckoutSpec => []CheckoutInv
<1>1. CheckoutInit => CheckoutInv
    BY CheckoutInitHolds
<1>2. CheckoutInv /\ [CheckoutNext]_checkoutVars => CheckoutInv'
    BY CheckoutStepHolds
<1> QED
    BY <1>1, <1>2, PTL DEF CheckoutSpec

\* Nobody spends points that are not there (CheckoutTypeOK).
THEOREM CheckoutTypes == CheckoutSpec => []CheckoutTypeOK
<1>1. CheckoutInv => CheckoutTypeOK
    BY DEF CheckoutInv, CheckoutShapes, CheckoutTypeOK, ReceiptRows, NotSelling, SalesToPrice,
           SalesToWrite, MoneyToWrite
<1> QED
    BY <1>1, CheckoutAlwaysHolds, PTL

\* The balance is what the receipts say (PointsAddUp), however many tills give and
\* take points at once.
THEOREM PointsAlwaysAddUp == CheckoutSpec => []PointsAddUp
<1>1. CheckoutInv => PointsAddUp
    BY DEF CheckoutInv
<1> QED
    BY <1>1, CheckoutAlwaysHolds, PTL

\* Every receipt was paid to exactly what it says (PaidExactly), though the points
\* may have changed since the till looked.
THEOREM AlwaysPaidExactly == CheckoutSpec => []PaidExactly
<1>1. CheckoutInv => PaidExactly
    BY DEF CheckoutInv, ReceiptsAreRight, PaidExactly, Made
<1> QED
    BY <1>1, CheckoutAlwaysHolds, PTL

\* What the customer owes is what was taken on credit less the money that was
\* brought (DebtIsMoney), however many settlements pay for the same debts at once.
THEOREM DebtIsAlwaysMoney == CheckoutSpec => []DebtIsMoney
<1>1. CheckoutInv => DebtIsMoney
  <2> SUFFICES ASSUME CheckoutInv PROVE DebtIsMoney
      OBVIOUS
  <2>0. Debts \subseteq Receipts /\ IsFiniteSet(Receipts) /\ Debts \subseteq Made
      BY CheckoutAssumption DEF Debts, Made
  <2>1. IsFiniteSet(Debts)
      BY <2>0, FS_Subset
  <2>2. PICK left : left = [r \in Debts |-> Owed(r) - settled[r]]
      OBVIOUS
  <2>3. PICK paid : paid = [r \in Debts |-> receipts[r].paid]
      OBVIOUS
  <2>4. PICK put : put = [r \in Debts |-> settled[r]]
      OBVIOUS
  <2>5. \A r \in Debts : receipts[r].paid \in Int /\ settled[r] \in Int /\ Owed(r) = receipts[r].paid
      BY <2>0 DEF CheckoutInv, CheckoutShapes, ReceiptsAreRight, ReceiptRows
  <2>6. LessEach(left, paid, put, Debts)
      BY <2>1, <2>2, <2>3, <2>4, <2>5 DEF LessEach
  <2>7. Sum(left) = Sum(paid) - Sum(put) /\ Sum(paid) \in Int /\ Sum(put) \in Int
      BY <2>6, LessSum
  <2>8. Sum(put) = SumOver(settled, Debts)
    <3>1. DOMAIN put = Debts /\ \A r \in Debts : put[r] = settled[r]
        BY <2>4
    <3> QED
        BY <2>1, <3>1, SumIsOverDomain, SumOverSame
  <2>9. SumOver(settled, Receipts) = SumOver(settled, Debts)
      BY <2>0, SumOverWhereNotZero DEF CheckoutInv, CheckoutShapes, SettledIsTaken
  <2>10. Sum(settled) = SumOver(settled, Receipts)
    <3>1. DOMAIN settled = Receipts
        BY DEF CheckoutInv, CheckoutShapes
    <3> QED
        BY <3>1, SumIsOverDomain
  <2>11. Sum(put) + unapplied = taken /\ unapplied \in Int /\ taken \in Int
      BY <2>8, <2>9, <2>10 DEF CheckoutInv, CheckoutShapes, SettledIsTaken
  <2>12. Sum(left) - unapplied = Sum(paid) - taken
      BY <2>7, <2>11
  <2> QED
      BY <2>2, <2>3, <2>12 DEF DebtIsMoney, Balance
<1> QED
    BY <1>1, CheckoutAlwaysHolds, PTL

-----------------------------------------------------------------------------
(***************************************************************************)
(* Counting while the shop trades, for any number of shelves, walks and    *)
(* sales on their way.                                                     *)
(*                                                                         *)
(* What a count has to bring about on a shelf is what lies there now and   *)
(* what tills have sold from it since the walk and not yet sent.  Before   *)
(* the count reads the movements this is what was found and what the books *)
(* were told since; after that it is what the books say and what the count *)
(* will add to them, on each shelf or, for a whole product, together.      *)
(***************************************************************************)
Reasons == {"trade", "lost", "count"}
Count ==
    [at : {"walked", "rows", "write"}, kind : {"product", "shelves"}, scope : (SUBSET Shelves) \ {{}},
     dated : BOOLEAN, found : [Shelves -> Nat], since : [Shelves -> Int], rows : [Shelves -> Nat],
     delta : [Shelves -> Int], spoiled : SUBSET Reasons]
LateSale == [shelf : Shelves, after : SUBSET Counters]

CountShapes ==
    /\ books \in [Shelves -> Nat] /\ onShelf \in [Shelves -> Nat]
    /\ late \in [LateSales -> {NotSold} \cup LateSale]
    /\ counts \in [Counters -> {NotCounting} \cup Count]

\* Sold since the walk and not yet sent, and what the books are to say of a shelf.
SoldSince(c, s) == {l \in LateSales : late[l] # NotSold /\ late[l].shelf = s /\ c \in late[l].after}
ToSay(c, s) == onShelf[s] + Cardinality(SoldSince(c, s))
ToSayOf(c) == [s \in Shelves |-> ToSay(c, s)]

FoundRight(c) ==
    counts[c].at \in {"walked", "rows"} => \A s \in counts[c].scope :
        ToSay(c, s) = counts[c].found[s] + (IF counts[c].dated THEN counts[c].since[s] ELSE 0)
RowsRight(c) == counts[c].at = "rows" => \A s \in counts[c].scope : counts[c].rows[s] = books[s]
DeltaRight(c) ==
    counts[c].at = "write" =>
        IF counts[c].kind = "product" THEN Sum(books) + Sum(counts[c].delta) = Sum(ToSayOf(c))
        ELSE \A s \in counts[c].scope : books[s] + counts[c].delta[s] = ToSay(c, s)
CountRight(c) ==
    /\ counts[c].kind = "product" => counts[c].scope = Shelves
    /\ counts[c].spoiled = {} => FoundRight(c) /\ RowsRight(c) /\ DeltaRight(c)

CountsInv == CountShapes /\ \A c \in Walked : CountRight(c)

-----------------------------------------------------------------------------
LEMMA CountOf ==
    ASSUME CountShapes, NEW c \in Counters
    PROVE  /\ c \notin Walked => counts[c] = NotCounting /\ counts[c].at = "idle"
           /\ c \in Walked => counts[c] \in Count /\ counts[c].at \in {"walked", "rows", "write"}
           /\ c \in Walked <=> counts[c] \in Count
BY DEF CountShapes, Walked, NotCounting, Count

LEMMA ToSayType ==
    ASSUME CountShapes, NEW c, NEW s \in Shelves
    PROVE  /\ IsFiniteSet(SoldSince(c, s)) /\ Cardinality(SoldSince(c, s)) \in Nat
           /\ ToSay(c, s) \in Nat
<1>1. SoldSince(c, s) \subseteq LateSales
    BY DEF SoldSince
<1>2. IsFiniteSet(SoldSince(c, s)) /\ Cardinality(SoldSince(c, s)) \in Nat
    BY <1>1, CountsAssumption, FS_Subset, FS_CardinalityType
<1> QED
    BY <1>2 DEF ToSay, CountShapes

\* A movement enters the books.
LEMMA MovementHolds ==
    ASSUME CountsInv, NEW s \in Shelves, NEW n \in Int, NEW after \in SUBSET Counters,
           books' \in [Shelves -> Nat], onShelf' \in [Shelves -> Nat],
           late' \in [LateSales -> {NotSold} \cup LateSale],
           \A t \in Shelves : books'[t] = books[t] + (IF t = s THEN n ELSE 0),
           counts' = Booked(s, n, after),
           \A c \in Walked, t \in Shelves :
               /\ ToSay(c, t)' = ToSay(c, t) + (IF t = s /\ c \in after THEN n ELSE 0)
               /\ ToSay(c, t) \in Int
    PROVE  CountsInv'
<1>1. ASSUME NEW c \in Walked
      PROVE  /\ counts'[c] \in Count /\ counts'[c].at = counts[c].at /\ counts'[c].kind = counts[c].kind
             /\ counts'[c].scope = counts[c].scope /\ counts'[c].dated = counts[c].dated
             /\ counts'[c].found = counts[c].found /\ counts'[c].rows = counts[c].rows
             /\ counts'[c].delta = counts[c].delta
             /\ \A t \in Shelves : counts'[c].since[t] = counts[c].since[t] + (IF t = s /\ c \in after THEN n ELSE 0)
             /\ counts'[c].spoiled = {} => counts[c].spoiled = {} /\ ~Spoils(c, s, after)
  <2>1. PICK r : r = counts[c]
      OBVIOUS
  <2>2. r \in Count /\ c \in Counters
      BY <2>1, CountOf DEF CountsInv, Walked
  <2>3. PICK k : k = IF c \in after THEN n ELSE 0
      OBVIOUS
  <2>4. k \in Int
      BY <2>3
  <2>5. PICK g : g = [r.since EXCEPT ![s] = @ + k]
      OBVIOUS
  <2>6. r.since \in [Shelves -> Int]
      BY <2>2 DEF Count
  <2>7. g \in [Shelves -> Int] /\ \A t \in Shelves : g[t] = r.since[t] + (IF t = s /\ c \in after THEN n ELSE 0)
      BY <2>3, <2>4, <2>5, <2>6
  <2>8. PICK sp : sp = r.spoiled \cup (IF Spoils(c, s, after) THEN {"trade"} ELSE {})
      OBVIOUS
  <2>9. sp \in SUBSET Reasons
      BY <2>2, <2>8 DEF Count, Reasons
  <2>10. PICK y : y = [r EXCEPT !.since = g, !.spoiled = sp]
      OBVIOUS
  <2>11. /\ y \in Count /\ y.at = r.at /\ y.kind = r.kind /\ y.scope = r.scope /\ y.dated = r.dated
         /\ y.found = r.found /\ y.rows = r.rows /\ y.delta = r.delta /\ y.since = g /\ y.spoiled = sp
      BY <2>2, <2>7, <2>9, <2>10 DEF Count
  <2>12. counts'[c] = Seen(c, s, n, after)
      BY <2>2 DEF Booked
  <2>13. Seen(c, s, n, after) = y
      BY <2>1, <2>2, <2>3, <2>5, <2>8, <2>10 DEF Seen, Count
  <2>14. sp = {} => r.spoiled = {} /\ ~Spoils(c, s, after)
      BY <2>8
  <2> QED
      BY <2>1, <2>7, <2>11, <2>12, <2>13, <2>14
<1>2. \A c \in Counters \ Walked : counts'[c] = NotCounting
    BY CountOf DEF Booked, CountsInv
<1>3. counts' \in [Counters -> {NotCounting} \cup Count]
  <2>1. counts' = [c \in Counters |-> counts'[c]]
      BY DEF Booked
  <2>2. \A c \in Counters : counts'[c] \in {NotCounting} \cup Count
      BY <1>1, <1>2
  <2> QED
      BY <2>1, <2>2
<1>4. CountShapes'
    BY <1>3 DEF CountShapes
<1>5. Walked' \subseteq Walked
    BY <1>2 DEF Walked
<1>6. ASSUME NEW c \in Walked PROVE CountRight(c)'
  <2>1. CountRight(c)
      BY DEF CountsInv
  <2>2. counts[c].scope \subseteq Shelves /\ counts[c].since \in [Shelves -> Int] /\ counts[c].found \in [Shelves -> Nat]
        /\ counts[c].delta \in [Shelves -> Int]
    <3>1. counts[c] \in Count
        BY CountOf DEF CountsInv, Walked
    <3> QED
        BY <3>1 DEF Count
  <2>3. counts'[c].kind = "product" => counts'[c].scope = Shelves
      BY <1>1, <2>1 DEF CountRight
  <2>4. ASSUME counts'[c].spoiled = {} PROVE FoundRight(c)' /\ RowsRight(c)' /\ DeltaRight(c)'
    <3>1. counts[c].spoiled = {} /\ ~Spoils(c, s, after)
        BY <1>1, <2>4
    <3>2. FoundRight(c) /\ RowsRight(c) /\ DeltaRight(c)
        BY <2>1, <3>1 DEF CountRight
    <3>3. FoundRight(c)'
      <4> SUFFICES ASSUME counts[c].at \in {"walked", "rows"}, NEW t \in counts[c].scope
                   PROVE  ToSay(c, t)' = counts'[c].found[t] + (IF counts'[c].dated THEN counts'[c].since[t] ELSE 0)
          BY <1>1 DEF FoundRight
      <4>1. t \in Shelves
          BY <2>2
      <4>2. ToSay(c, t) = counts[c].found[t] + (IF counts[c].dated THEN counts[c].since[t] ELSE 0)
          BY <3>2 DEF FoundRight
      <4>3. ~counts[c].dated => t # s
          BY <3>1 DEF Spoils
      <4>4. ToSay(c, t)' = ToSay(c, t) + (IF t = s /\ c \in after THEN n ELSE 0) /\ ToSay(c, t) \in Int
          BY <4>1
      <4>5. /\ counts'[c].found[t] = counts[c].found[t] /\ counts'[c].dated = counts[c].dated
            /\ counts'[c].since[t] = counts[c].since[t] + (IF t = s /\ c \in after THEN n ELSE 0)
            /\ counts[c].found[t] \in Nat /\ counts[c].since[t] \in Int
          BY <1>1, <2>2, <4>1
      <4> QED
          BY <4>2, <4>3, <4>4, <4>5
    <3>4. RowsRight(c)'
      <4> SUFFICES ASSUME counts[c].at = "rows", NEW t \in counts[c].scope PROVE counts'[c].rows[t] = books'[t]
          BY <1>1 DEF RowsRight
      <4>1. t # s /\ t \in Shelves
          BY <2>2, <3>1 DEF Spoils
      <4>2. books'[t] = books[t]
          BY <4>1 DEF CountsInv, CountShapes
      <4> QED
          BY <1>1, <3>2, <4>2 DEF RowsRight
    <3>5. DeltaRight(c)'
      <4> SUFFICES ASSUME counts[c].at = "write" PROVE DeltaRight(c)'
          BY <1>1 DEF DeltaRight
      <4>1. s \in counts[c].scope => c \in after
          BY <3>1 DEF Spoils
      <4>2. CASE counts[c].kind = "product"
        <5>1. c \in after
            BY <2>1, <4>1, <4>2 DEF CountRight
        <5>2. PICK f : f = ToSayOf(c)
            OBVIOUS
        <5>3. PICK h : h = ToSayOf(c)'
            OBVIOUS
        <5>4. PICK b : b = books'
            OBVIOUS
        <5>5. \A t \in Shelves : f[t] = ToSay(c, t) /\ h[t] = ToSay(c, t)'
            BY <5>2, <5>3 DEF ToSayOf
        <5>6. \A t \in Shelves : h[t] = f[t] + (IF t = s THEN n ELSE 0) /\ f[t] \in Int
            BY <5>1, <5>5
        <5>7. f \in [Shelves -> Int] /\ h \in [Shelves -> Int]
            BY <5>2, <5>3, <5>6 DEF ToSayOf
        <5>8. h[s] = f[s] + n /\ \A t \in Shelves \ {s} : h[t] = f[t]
            BY <5>6, <5>7
        <5>9. OneChanged(f, h, Shelves, s)
            BY <5>7, <5>8, CountsAssumption DEF OneChanged
        <5>10. Sum(h) = Sum(f) + h[s] - f[s] /\ Sum(f) \in Int
            BY <5>9, OneChanges
        <5>11. books \in [Shelves -> Int] /\ b \in [Shelves -> Int] /\ b[s] = books[s] + n
               /\ \A t \in Shelves \ {s} : b[t] = books[t]
            BY <5>4 DEF CountsInv, CountShapes
        <5>12. OneChanged(books, b, Shelves, s)
            BY <5>11, CountsAssumption DEF OneChanged
        <5>13. Sum(b) = Sum(books) + b[s] - books[s] /\ Sum(books) \in Int
            BY <5>12, OneChanges
        <5>14. Sum(counts[c].delta) \in Int
            BY <2>2, IntSum, CountsAssumption
        <5>15. Sum(books) + Sum(counts[c].delta) = Sum(f)
            BY <3>2, <4>2, <5>2 DEF DeltaRight
        <5>16. f[s] \in Int /\ books[s] \in Int
            BY <5>7, <5>11
        <5>17. Sum(b) = Sum(books) + n
            BY <5>11, <5>13, <5>16
        <5>18. Sum(h) = Sum(f) + n
            BY <5>8, <5>10, <5>16
        <5>19. Sum(b) + Sum(counts[c].delta) = Sum(h)
            BY <5>10, <5>13, <5>14, <5>15, <5>17, <5>18
        <5>20. counts'[c].delta = counts[c].delta /\ counts'[c].kind = "product"
            BY <1>1, <4>2
        <5> QED
            BY <5>3, <5>4, <5>19, <5>20 DEF DeltaRight
      <4>3. CASE counts[c].kind # "product"
        <5> SUFFICES ASSUME NEW t \in counts[c].scope
                     PROVE  books'[t] + counts'[c].delta[t] = ToSay(c, t)'
            BY <1>1, <4>3 DEF DeltaRight
        <5>1. t \in Shelves /\ books[t] + counts[c].delta[t] = ToSay(c, t)
            BY <2>2, <3>2, <4>3 DEF DeltaRight
        <5>2. ToSay(c, t)' = ToSay(c, t) + (IF t = s /\ c \in after THEN n ELSE 0) /\ ToSay(c, t) \in Int
            BY <5>1
        <5>3. t = s => c \in after
            BY <4>1
        <5>4. counts'[c].delta[t] = counts[c].delta[t] /\ counts[c].delta[t] \in Int
            BY <1>1, <2>2, <5>1
        <5>5. books'[t] = books[t] + (IF t = s THEN n ELSE 0) /\ books[t] \in Int
            BY <5>1 DEF CountsInv, CountShapes
        <5> QED
            BY <5>1, <5>2, <5>3, <5>4, <5>5
      <4> QED
          BY <4>2, <4>3
    <3> QED
        BY <3>3, <3>4, <3>5
  <2> QED
      BY <2>3, <2>4 DEF CountRight
<1> QED
    BY <1>4, <1>5, <1>6 DEF CountsInv

\* A step that leaves alone what there is to say of the shelves of a walk and what the
\* books say of them leaves the count right.
LEMMA CountStaysRight ==
    ASSUME CountsInv, NEW c \in Walked, counts'[c] = counts[c],
           \A t \in counts[c].scope : ToSay(c, t)' = ToSay(c, t) /\ books'[t] = books[t],
           books' \in [Shelves -> Nat]
    PROVE  CountRight(c)'
<1>1. CountRight(c) /\ counts[c].scope \subseteq Shelves
  <2>1. counts[c] \in Count
      BY CountOf DEF CountsInv, Walked
  <2> QED
      BY <2>1 DEF CountsInv, Count
<1>2. FoundRight(c) => FoundRight(c)'
    BY DEF FoundRight
<1>3. RowsRight(c) => RowsRight(c)'
    BY DEF RowsRight
<1>4. DeltaRight(c) => DeltaRight(c)'
  <2>1. CASE counts[c].kind # "product"
      BY <2>1 DEF DeltaRight
  <2>2. CASE counts[c].kind = "product"
    <3>1. counts[c].scope = Shelves
        BY <1>1, <2>2 DEF CountRight
    <3>2. books' = books
        BY <3>1 DEF CountsInv, CountShapes
    <3>3. ToSayOf(c)' = ToSayOf(c)
        BY <3>1 DEF ToSayOf
    <3> QED
        BY <2>2, <3>2, <3>3 DEF DeltaRight
  <2> QED
      BY <2>1, <2>2
<1> QED
    BY <1>1, <1>2, <1>3, <1>4 DEF CountRight

-----------------------------------------------------------------------------
LEMMA CountsInvInit == CountsInit => CountsInv
<1> SUFFICES ASSUME CountsInit PROVE CountsInv
    OBVIOUS
<1>1. 0..MostGoods \subseteq Nat
    BY CountsAssumption
<1>2. books \in [Shelves -> Nat] /\ onShelf \in [Shelves -> Nat]
    BY <1>1 DEF CountsInit
<1>3. late \in [LateSales -> {NotSold} \cup LateSale] /\ counts \in [Counters -> {NotCounting} \cup Count]
    BY DEF CountsInit
<1>4. Walked = {}
    BY DEF CountsInit, Walked
<1> QED
    BY <1>2, <1>3, <1>4 DEF CountsInv, CountShapes

LEMMA SellsAndDeliversHold ==
    ASSUME CountsInv, NEW s \in Shelves, SellsHere(s) \/ Delivers(s)
    PROVE  CountsInv'
<1>1. PICK n : n = IF SellsHere(s) THEN -1 ELSE 1
    OBVIOUS
<1>2. n \in Int
    BY <1>1
<1>3. late' = late /\ counts' = Booked(s, n, Walked)
    BY <1>1 DEF SellsHere, Delivers
<1>4. /\ books' \in [Shelves -> Nat] /\ onShelf' \in [Shelves -> Nat]
      /\ \A t \in Shelves : books'[t] = books[t] + (IF t = s THEN n ELSE 0)
      /\ \A t \in Shelves : onShelf'[t] = onShelf[t] + (IF t = s THEN n ELSE 0)
  <2>1. CASE SellsHere(s)
    <3>1. n = -1
        BY <1>1, <2>1
    <3>2. /\ onShelf[s] > 0 /\ books[s] > 0
          /\ onShelf' = [onShelf EXCEPT ![s] = @ - 1] /\ books' = [books EXCEPT ![s] = @ - 1]
        BY <2>1 DEF SellsHere
    <3> QED
        BY <3>1, <3>2 DEF CountsInv, CountShapes
  <2>2. CASE ~SellsHere(s)
    <3>1. n = 1
        BY <1>1, <2>2
    <3>2. onShelf' = [onShelf EXCEPT ![s] = @ + 1] /\ books' = [books EXCEPT ![s] = @ + 1]
        BY <2>2 DEF Delivers
    <3> QED
        BY <3>1, <3>2 DEF CountsInv, CountShapes
  <2> QED
      BY <2>1, <2>2
<1>5. ASSUME NEW c \in Walked, NEW t \in Shelves
      PROVE  /\ ToSay(c, t)' = ToSay(c, t) + (IF t = s /\ c \in Walked THEN n ELSE 0)
             /\ ToSay(c, t) \in Int
  <2>1. SoldSince(c, t)' = SoldSince(c, t)
      BY <1>3 DEF SoldSince
  <2>2. PICK k : k = Cardinality(SoldSince(c, t))
      OBVIOUS
  <2>3. k \in Nat /\ ToSay(c, t) \in Nat
      BY <2>2, ToSayType DEF CountsInv
  <2>4. ToSay(c, t)' = onShelf'[t] + k /\ ToSay(c, t) = onShelf[t] + k
      BY <2>1, <2>2 DEF ToSay
  <2>5. onShelf[t] \in Nat /\ onShelf'[t] = onShelf[t] + (IF t = s THEN n ELSE 0)
      BY <1>4 DEF CountsInv, CountShapes
  <2> QED
      BY <1>2, <2>3, <2>4, <2>5
<1>6. late' \in [LateSales -> {NotSold} \cup LateSale] /\ Walked \in SUBSET Counters
    BY <1>3 DEF CountsInv, CountShapes, Walked
<1> QED
    BY <1>2, <1>3, <1>4, <1>5, <1>6, MovementHolds

LEMMA SendsLateHolds ==
    ASSUME CountsInv, NEW l \in LateSales, SendsLate(l)
    PROVE  CountsInv'
<1>1. PICK s : s = late[l].shelf
    OBVIOUS
<1>2. PICK after : after = late[l].after
    OBVIOUS
<1>3. s \in Shelves /\ after \in SUBSET Counters /\ late[l] # NotSold
    BY <1>1, <1>2 DEF SendsLate, CountsInv, CountShapes, LateSale
<1>4. /\ books[s] > 0 /\ books' = [books EXCEPT ![s] = @ - 1]
      /\ counts' = Booked(s, -1, after) /\ late' = [late EXCEPT ![l] = NotSold] /\ onShelf' = onShelf
    BY <1>1, <1>2 DEF SendsLate
<1>5. PICK n : n = -1
    OBVIOUS
<1>6. /\ n \in Int /\ books' \in [Shelves -> Nat]
      /\ \A t \in Shelves : books'[t] = books[t] + (IF t = s THEN n ELSE 0)
    BY <1>3, <1>4, <1>5 DEF CountsInv, CountShapes
<1>7. onShelf' \in [Shelves -> Nat] /\ late' \in [LateSales -> {NotSold} \cup LateSale]
    BY <1>4 DEF CountsInv, CountShapes
<1>8. ASSUME NEW c \in Walked, NEW t \in Shelves
      PROVE  /\ ToSay(c, t)' = ToSay(c, t) + (IF t = s /\ c \in after THEN n ELSE 0)
             /\ ToSay(c, t) \in Int
  <2>1. SoldSince(c, t)' = SoldSince(c, t) \ {l}
      BY <1>4 DEF SoldSince, CountsInv, CountShapes
  <2>2. l \in SoldSince(c, t) <=> t = s /\ c \in after
      BY <1>1, <1>2, <1>3 DEF SoldSince
  <2>3. IsFiniteSet(SoldSince(c, t)) /\ Cardinality(SoldSince(c, t)) \in Nat /\ ToSay(c, t) \in Nat
      BY ToSayType DEF CountsInv
  <2>4. Cardinality(SoldSince(c, t) \ {l})
          = IF l \in SoldSince(c, t) THEN Cardinality(SoldSince(c, t)) - 1 ELSE Cardinality(SoldSince(c, t))
      BY <2>3, FS_RemoveElement
  <2>5. ToSay(c, t)' = onShelf[t] + Cardinality(SoldSince(c, t) \ {l})
      BY <1>4, <2>1 DEF ToSay
  <2>6. ToSay(c, t) = onShelf[t] + Cardinality(SoldSince(c, t)) /\ onShelf[t] \in Nat
      BY DEF ToSay, CountsInv, CountShapes
  <2> QED
      BY <1>5, <2>2, <2>3, <2>4, <2>5, <2>6
<1>9. counts' = Booked(s, n, after)
    BY <1>4, <1>5
<1> QED
    BY <1>3, <1>6, <1>7, <1>8, <1>9, MovementHolds

LEMMA SellsOfflineHolds ==
    ASSUME CountsInv, NEW l \in LateSales, NEW s \in Shelves, SellsOffline(l, s)
    PROVE  CountsInv'
<1>1. PICK x : x = [shelf |-> s, after |-> Walked]
    OBVIOUS
<1>2. x \in LateSale /\ x # NotSold /\ x.shelf = s /\ x.after = Walked
    BY <1>1 DEF LateSale, Walked, NotSold
<1>3. /\ late[l] = NotSold /\ onShelf[s] > 0 /\ onShelf' = [onShelf EXCEPT ![s] = @ - 1]
      /\ late' = [late EXCEPT ![l] = x] /\ books' = books /\ counts' = counts
    BY <1>1 DEF SellsOffline
<1>4. CountShapes'
    BY <1>2, <1>3 DEF CountsInv, CountShapes
<1>5. Walked' = Walked
    BY <1>3 DEF Walked
<1>6. ASSUME NEW c \in Walked, NEW t \in Shelves PROVE ToSay(c, t)' = ToSay(c, t)
  <2>1. \A i \in LateSales : late'[i] = IF i = l THEN x ELSE late[i]
      BY <1>3 DEF CountsInv, CountShapes
  <2>2. SoldSince(c, t)' = SoldSince(c, t) \cup (IF t = s THEN {l} ELSE {})
      BY <1>2, <1>3, <2>1 DEF SoldSince
  <2>3. l \notin SoldSince(c, t)
      BY <1>3 DEF SoldSince
  <2>4. IsFiniteSet(SoldSince(c, t)) /\ Cardinality(SoldSince(c, t)) \in Nat
      BY ToSayType DEF CountsInv
  <2>5. CASE t = s
    <3>1. Cardinality(SoldSince(c, t) \cup {l}) = Cardinality(SoldSince(c, t)) + 1
        BY <2>3, <2>4, FS_AddElement
    <3>2. SoldSince(c, t)' = SoldSince(c, t) \cup {l}
        BY <2>2, <2>5
    <3>3. onShelf'[t] = onShelf[t] - 1 /\ onShelf[t] \in Nat
        BY <1>3, <2>5 DEF CountsInv, CountShapes
    <3> QED
        BY <2>4, <3>1, <3>2, <3>3 DEF ToSay
  <2>6. CASE t # s
    <3>1. SoldSince(c, t)' = SoldSince(c, t) /\ onShelf'[t] = onShelf[t]
        BY <1>3, <2>2, <2>6 DEF CountsInv, CountShapes
    <3> QED
        BY <3>1 DEF ToSay
  <2> QED
      BY <2>5, <2>6
<1>7. ASSUME NEW c \in Walked PROVE CountRight(c)'
  <2>1. counts[c].scope \subseteq Shelves
    <3>1. counts[c] \in Count
        BY CountOf DEF CountsInv, Walked
    <3> QED
        BY <3>1 DEF Count
  <2>2. \A t \in counts[c].scope : ToSay(c, t)' = ToSay(c, t) /\ books'[t] = books[t]
      BY <1>3, <1>6, <2>1
  <2>3. counts'[c] = counts[c] /\ books' \in [Shelves -> Nat]
      BY <1>3 DEF CountsInv, CountShapes
  <2> QED
      BY <2>2, <2>3, CountStaysRight
<1> QED
    BY <1>4, <1>5, <1>7 DEF CountsInv

LEMMA VanishesHolds ==
    ASSUME CountsInv, NEW s \in Shelves, Vanishes(s)
    PROVE  CountsInv'
<1>1. /\ onShelf[s] > 0 /\ onShelf' = [onShelf EXCEPT ![s] = @ - 1] /\ books' = books /\ late' = late
      /\ counts' = [c \in Counters |->
            IF c \in Walked /\ s \in counts[c].scope
            THEN [counts[c] EXCEPT !.spoiled = @ \cup {"lost"}] ELSE counts[c]]
    BY DEF Vanishes
<1>2. ASSUME NEW c \in Counters, c \in Walked, s \in counts[c].scope
      PROVE  /\ counts'[c] \in Count /\ counts'[c].spoiled # {} /\ counts'[c].kind = counts[c].kind
             /\ counts'[c].scope = counts[c].scope
  <2>1. PICK r : r = counts[c]
      OBVIOUS
  <2>2. PICK sp : sp = r.spoiled \cup {"lost"}
      OBVIOUS
  <2>3. r \in Count
      BY <1>2, <2>1, CountOf DEF CountsInv
  <2>4. sp \in SUBSET Reasons /\ sp # {}
      BY <2>2, <2>3 DEF Count, Reasons
  <2>5. PICK y : y = [r EXCEPT !.spoiled = sp]
      OBVIOUS
  <2>6. y \in Count /\ y.spoiled = sp /\ y.kind = r.kind /\ y.scope = r.scope
      BY <2>3, <2>4, <2>5 DEF Count
  <2>7. counts'[c] = y
      BY <1>1, <1>2, <2>1, <2>2, <2>5
  <2> QED
      BY <2>1, <2>4, <2>6, <2>7
<1>3. \A c \in Counters : ~(c \in Walked /\ s \in counts[c].scope) => counts'[c] = counts[c]
    BY <1>1
<1>4. CountShapes'
  <2>1. counts' \in [Counters -> {NotCounting} \cup Count]
    <3>1. counts' = [c \in Counters |-> counts'[c]]
        BY <1>1
    <3>2. \A c \in Counters : counts'[c] \in {NotCounting} \cup Count
        BY <1>2, <1>3 DEF CountsInv, CountShapes
    <3> QED
        BY <3>1, <3>2
  <2>2. onShelf' \in [Shelves -> Nat]
      BY <1>1 DEF CountsInv, CountShapes
  <2> QED
      BY <1>1, <2>1, <2>2 DEF CountsInv, CountShapes
<1>5. Walked' \subseteq Walked
  <2>1. \A c \in Counters : c \notin Walked => counts'[c] = NotCounting
      BY <1>3 DEF Walked
  <2> QED
      BY <2>1 DEF Walked
<1>6. ASSUME NEW c \in Walked PROVE CountRight(c)'
  <2>1. c \in Counters
      BY DEF Walked
  <2>2. CASE s \in counts[c].scope
      BY <1>2, <2>1, <2>2 DEF CountsInv, CountRight
  <2>3. CASE s \notin counts[c].scope
    <3>1. counts'[c] = counts[c]
        BY <1>3, <2>1, <2>3
    <3>2. counts[c].scope \subseteq Shelves
      <4>1. counts[c] \in Count
          BY CountOf DEF CountsInv, Walked
      <4> QED
          BY <4>1 DEF Count
    <3>3. ASSUME NEW t \in counts[c].scope PROVE ToSay(c, t)' = ToSay(c, t) /\ books'[t] = books[t]
      <4>1. onShelf'[t] = onShelf[t]
          BY <1>1, <2>3, <3>2 DEF CountsInv, CountShapes
      <4>2. SoldSince(c, t)' = SoldSince(c, t)
          BY <1>1 DEF SoldSince
      <4> QED
          BY <1>1, <4>1, <4>2 DEF ToSay
    <3>4. books' \in [Shelves -> Nat]
        BY <1>4 DEF CountShapes
    <3> QED
        BY <3>1, <3>3, <3>4, CountStaysRight
  <2> QED
      BY <2>2, <2>3
<1> QED
    BY <1>4, <1>5, <1>6 DEF CountsInv

-----------------------------------------------------------------------------
(* The count. *)

\* One count goes on, and what there is to say of the shelves of others stays.
LEMMA OneCountChanges ==
    ASSUME CountsInv, NEW c \in Counters, NEW r \in {NotCounting} \cup Count,
           counts' = [counts EXCEPT ![c] = r], books' = books, onShelf' = onShelf,
           late' \in [LateSales -> {NotSold} \cup LateSale],
           \A d \in Walked \ {c}, t \in Shelves : ToSay(d, t)' = ToSay(d, t),
           r \in Count => CountRight(c)'
    PROVE  CountsInv'
<1>1. CountShapes'
    BY DEF CountsInv, CountShapes
<1>2. \A d \in Counters : counts'[d] = IF d = c THEN r ELSE counts[d]
    BY DEF CountsInv, CountShapes
<1>3. ASSUME NEW d \in Walked' PROVE CountRight(d)'
  <2>1. d \in Counters /\ counts'[d] # NotCounting
      BY DEF Walked
  <2>2. CASE d = c
      BY <1>2, <2>1, <2>2
  <2>3. CASE d # c
    <3>1. counts'[d] = counts[d] /\ d \in Walked
        BY <1>2, <2>1, <2>3 DEF Walked
    <3>2. counts[d].scope \subseteq Shelves
      <4>1. counts[d] \in Count
          BY <2>1, <3>1, CountOf DEF CountsInv
      <4> QED
          BY <4>1 DEF Count
    <3>3. \A t \in counts[d].scope : ToSay(d, t)' = ToSay(d, t) /\ books'[t] = books[t]
        BY <2>3, <3>1, <3>2
    <3>4. books' \in [Shelves -> Nat]
        BY DEF CountsInv, CountShapes
    <3> QED
        BY <3>1, <3>3, <3>4, CountStaysRight
  <2> QED
      BY <2>2, <2>3
<1> QED
    BY <1>1, <1>3 DEF CountsInv

\* Nothing is written and no walk begins.
LEMMA ToSayStays ==
    ASSUME onShelf' = onShelf, late' = late
    PROVE  \A d, t : ToSay(d, t)' = ToSay(d, t)
BY DEF ToSay, SoldSince

LEMMA WalksHolds ==
    ASSUME CountsInv, NEW c \in Counters, NEW kind \in {"product", "shelves"},
           NEW scope \in (SUBSET Shelves) \ {{}}, NEW dated \in BOOLEAN, Walks(c, kind, scope, dated)
    PROVE  CountsInv'
<1>1. PICK r : r = [at |-> "walked", kind |-> kind, scope |-> scope, dated |-> dated, found |-> onShelf,
                    since |-> [s \in Shelves |-> 0], rows |-> [s \in Shelves |-> 0],
                    delta |-> [s \in Shelves |-> 0], spoiled |-> {}]
    OBVIOUS
<1>2. /\ counts' = [counts EXCEPT ![c] = r] /\ (kind = "product" => scope = Shelves)
      /\ late' = [l \in LateSales |->
             IF late[l] = NotSold THEN NotSold ELSE [late[l] EXCEPT !.after = @ \ {c}]]
      /\ books' = books /\ onShelf' = onShelf
    BY <1>1 DEF Walks
<1>3. [s \in Shelves |-> 0] \in [Shelves -> Nat] /\ [s \in Shelves |-> 0] \in [Shelves -> Int]
    OBVIOUS
<1>4. /\ r \in Count /\ r.at = "walked" /\ r.kind = kind /\ r.scope = scope /\ r.found = onShelf
      /\ \A s \in Shelves : r.since[s] = 0
    BY <1>1, <1>3 DEF Count, Reasons, CountsInv, CountShapes
<1>5. ASSUME NEW l \in LateSales
      PROVE  /\ late'[l] \in {NotSold} \cup LateSale /\ (late'[l] = NotSold <=> late[l] = NotSold)
             /\ late[l] # NotSold => late'[l].shelf = late[l].shelf /\ late'[l].after = late[l].after \ {c}
  <2>1. CASE late[l] = NotSold
      BY <1>2, <2>1
  <2>2. CASE late[l] # NotSold
    <3>1. PICK x : x = late[l]
        OBVIOUS
    <3>2. x \in LateSale /\ x.after \ {c} \in SUBSET Counters
        BY <2>2, <3>1 DEF CountsInv, CountShapes, LateSale
    <3>3. PICK y : y = [x EXCEPT !.after = x.after \ {c}]
        OBVIOUS
    <3>4. y \in LateSale /\ y.shelf = x.shelf /\ y.after = x.after \ {c}
        BY <3>2, <3>3 DEF LateSale
    <3>5. late'[l] = y
        BY <1>2, <2>2, <3>1, <3>3
    <3>6. y # NotSold
        BY <3>4 DEF LateSale, NotSold
    <3> QED
        BY <2>2, <3>1, <3>4, <3>5, <3>6
  <2> QED
      BY <2>1, <2>2
<1>6. late' \in [LateSales -> {NotSold} \cup LateSale]
    BY <1>2, <1>5
<1>7. ASSUME NEW d \in Walked \ {c}, NEW t \in Shelves PROVE ToSay(d, t)' = ToSay(d, t)
  <2>1. SoldSince(d, t)' = SoldSince(d, t)
      BY <1>5 DEF SoldSince
  <2> QED
      BY <1>2, <2>1 DEF ToSay
<1>8. CountRight(c)'
  <2>1. counts'[c] = r
      BY <1>2 DEF CountsInv, CountShapes
  <2>2. ASSUME NEW t \in scope
        PROVE  ToSay(c, t)' = r.found[t] + (IF r.dated THEN r.since[t] ELSE 0)
    <3>1. SoldSince(c, t)' = {}
        BY <1>5 DEF SoldSince
    <3>2. ToSay(c, t)' = onShelf[t] + 0
        BY <1>2, <3>1, FS_EmptySet DEF ToSay
    <3> QED
        BY <1>4, <3>2
  <2>3. FoundRight(c)'
      BY <1>4, <2>1, <2>2 DEF FoundRight
  <2> QED
      BY <1>2, <1>4, <2>1, <2>3 DEF CountRight, RowsRight, DeltaRight
<1> QED
    BY <1>2, <1>4, <1>6, <1>7, <1>8, OneCountChanges

LEMMA ReadsRowsHolds ==
    ASSUME CountsInv, NEW c \in Counters, ReadsRows(c)
    PROVE  CountsInv'
<1>1. PICK r : r = [counts[c] EXCEPT !.at = "rows", !.rows = books]
    OBVIOUS
<1>2. counts[c] \in Count /\ counts[c].at = "walked" /\ c \in Walked
    BY CountOf DEF CountsInv, ReadsRows
<1>3. /\ r \in Count /\ r.at = "rows" /\ r.rows = books /\ r.kind = counts[c].kind /\ r.scope = counts[c].scope
      /\ r.found = counts[c].found /\ r.since = counts[c].since /\ r.dated = counts[c].dated
      /\ r.spoiled = counts[c].spoiled
    BY <1>1, <1>2 DEF Count, CountsInv, CountShapes
<1>4. counts' = [counts EXCEPT ![c] = r] /\ books' = books /\ onShelf' = onShelf /\ late' = late
    BY <1>1, <1>2 DEF ReadsRows, CountsInv, CountShapes
<1>5. counts'[c] = r
    BY <1>4 DEF CountsInv, CountShapes
<1>6. \A d, t : ToSay(d, t)' = ToSay(d, t)
    BY <1>4, ToSayStays
<1>7. CountRight(c)'
  <2>1. CountRight(c)
      BY <1>2 DEF CountsInv
  <2>2. FoundRight(c) => FoundRight(c)'
      BY <1>2, <1>3, <1>5, <1>6 DEF FoundRight
  <2> QED
      BY <1>3, <1>4, <1>5, <2>1, <2>2 DEF CountRight, RowsRight, DeltaRight
<1>8. late' \in [LateSales -> {NotSold} \cup LateSale]
    BY <1>4 DEF CountsInv, CountShapes
<1> QED
    BY <1>3, <1>4, <1>6, <1>7, <1>8, OneCountChanges

LEMMA DeltaType ==
    ASSUME CountShapes, NEW c \in Counters, counts[c] \in Count
    PROVE  DeltaOf(c) \in [Shelves -> Int] /\ ShelfDelta(c) \in [Shelves -> Int]
<1>1. /\ counts[c].rows \in [Shelves -> Nat] /\ counts[c].since \in [Shelves -> Int]
      /\ counts[c].found \in [Shelves -> Nat]
    BY DEF Count
<1>2. \A s \in Shelves : Believed(c, s) \in Int
    BY <1>1 DEF Believed
<1>3. ShelfDelta(c) \in [Shelves -> Int]
    BY <1>1, <1>2 DEF ShelfDelta
<1>4. ProductDelta(c) \in [Shelves -> Int]
  <2>1. PICK rs : rs = counts[c].rows
      OBVIOUS
  <2>2. PICK d : d = Sum(counts[c].found) - Sum([s \in Shelves |-> Believed(c, s)])
      OBVIOUS
  <2>3. d \in Int
    <3>1. [s \in Shelves |-> Believed(c, s)] \in [Shelves -> Int]
        BY <1>2
    <3>2. Sum([s \in Shelves |-> Believed(c, s)]) \in Int
        BY <3>1, IntSum, CountsAssumption
    <3>3. counts[c].found \in [Shelves -> Int]
        BY <1>1
    <3>4. Sum(counts[c].found) \in Int
        BY <3>3, IntSum, CountsAssumption
    <3> QED
        BY <2>2, <3>2, <3>4
  <2>4. PICK open : open = [b \in Shelves |-> NotNegative(rs[b])]
      OBVIOUS
  <2>5. rs \in [Shelves -> Nat] /\ DOMAIN rs = Shelves /\ open \in [Shelves -> Int]
      BY <1>1, <2>1, <2>4 DEF NotNegative
  <2>6. PICK take :
            take = Spread(-(Sum(counts[c].found) - Sum([s \in Shelves |-> Believed(c, s)])), counts[c].rows,
                       LAMBDA p, q : IF (p = Pile) # (q = Pile) THEN q = Pile
                                     ELSE counts[c].rows[p] < counts[c].rows[q]
                                          \/ (counts[c].rows[p] = counts[c].rows[q] /\ p < q))
      OBVIOUS
  <2>7. PICK Earlier : Earlier = [b \in Shelves |->
                               {p \in Shelves : IF (p = Pile) # (b = Pile) THEN b = Pile
                                                ELSE rs[p] < rs[b] \/ (rs[p] = rs[b] /\ p < b)}]
      OBVIOUS
  <2>8. take = [b \in Shelves |-> Lesser(open[b], NotNegative(-d - SumOver(open, Earlier[b])))]
      BY <2>1, <2>2, <2>4, <2>5, <2>6, <2>7 DEF Spread
  <2>9. take \in [Shelves -> Int]
    <3>1. ASSUME NEW b \in Shelves PROVE SumOver(open, Earlier[b]) \in Int
      <4>1. Earlier[b] \subseteq Shelves
          BY <2>7
      <4>2. IsFiniteSet(Earlier[b])
          BY <4>1, CountsAssumption, FS_Subset
      <4>3. \A p \in Earlier[b] : open[p] \in Int
          BY <2>5, <4>1
      <4> QED
          BY <4>2, <4>3, SumOverType
    <3>2. \A b \in Shelves : Lesser(open[b], NotNegative(-d - SumOver(open, Earlier[b]))) \in Int
        BY <2>3, <2>5, <3>1 DEF Lesser, NotNegative
    <3> QED
        BY <2>8, <3>2
  <2>10. ProductDelta(c) = IF d < 0 THEN [s \in Shelves |-> -take[s]]
                           ELSE [s \in Shelves |-> IF s = Pile THEN d ELSE 0]
    <3>1. ProductDelta(c) =
              IF d < 0
              THEN [s \in Shelves |-> -Spread(-(Sum(counts[c].found) - Sum([s2 \in Shelves |-> Believed(c, s2)])),
                        counts[c].rows,
                        LAMBDA p, q : IF (p = Pile) # (q = Pile) THEN q = Pile
                                      ELSE counts[c].rows[p] < counts[c].rows[q]
                                           \/ (counts[c].rows[p] = counts[c].rows[q] /\ p < q))[s]]
              ELSE [s \in Shelves |-> IF s = Pile THEN d ELSE 0]
        BY <2>2, Zenon DEF ProductDelta
    <3> QED
        BY <2>6, <3>1, Zenon
  <2>11. [s \in Shelves |-> -take[s]] \in [Shelves -> Int]
      BY <2>9
  <2>12. [s \in Shelves |-> IF s = Pile THEN d ELSE 0] \in [Shelves -> Int]
      BY <2>3
  <2> QED
      BY <2>10, <2>11, <2>12
<1> QED
    BY <1>3, <1>4 DEF DeltaOf

LEMMA ReadsMovementsHolds ==
    ASSUME CountsInv, NEW c \in Counters, ReadsMovements(c)
    PROVE  CountsInv'
<1>1. counts[c] \in Count /\ counts[c].at = "rows" /\ c \in Walked
    BY CountOf DEF CountsInv, ReadsMovements
<1>2. books' = books /\ onShelf' = onShelf /\ late' = late
    BY DEF ReadsMovements
<1>3. \A d, t : ToSay(d, t)' = ToSay(d, t)
    BY <1>2, ToSayStays
<1>4. late' \in [LateSales -> {NotSold} \cup LateSale]
    BY <1>2 DEF CountsInv, CountShapes
<1>5. CASE ~Affordable(c)
  <2>1. counts' = [counts EXCEPT ![c] = NotCounting]
      BY <1>5 DEF ReadsMovements
  <2>2. NotCounting \notin Count
      BY DEF NotCounting, Count
  <2> QED
      BY <1>2, <1>3, <1>4, <2>1, <2>2, OneCountChanges
<1>6. CASE Affordable(c)
  <2>1. PICK delta : delta = DeltaOf(c)
      OBVIOUS
  <2>2. PICK none : none = [s \in Shelves |-> 0]
      OBVIOUS
  <2>3. PICK r : r = [counts[c] EXCEPT !.at = "write", !.delta = delta, !.rows = none]
      OBVIOUS
  <2>4. delta \in [Shelves -> Int] /\ none \in [Shelves -> Nat] /\ ShelfDelta(c) \in [Shelves -> Int]
      BY <1>1, <2>1, <2>2, DeltaType DEF CountsInv
  <2>5. /\ r \in Count /\ r.at = "write" /\ r.delta = delta /\ r.kind = counts[c].kind
        /\ r.scope = counts[c].scope /\ r.spoiled = counts[c].spoiled
      BY <1>1, <2>3, <2>4 DEF Count
  <2>6. counts' = [counts EXCEPT ![c] = r]
      BY <1>6, <2>1, <2>2, <2>3 DEF ReadsMovements
  <2>7. counts'[c] = r
      BY <2>6 DEF CountsInv, CountShapes
  <2>8. CountRight(c)
      BY <1>1 DEF CountsInv
  <2>9. counts[c].scope \subseteq Shelves /\ counts[c].since \in [Shelves -> Int]
        /\ counts[c].found \in [Shelves -> Nat] /\ counts[c].kind \in {"product", "shelves"}
      BY <1>1 DEF Count
  <2>10. ASSUME counts[c].spoiled = {}, NEW t \in counts[c].scope
         PROVE  books[t] + ShelfDelta(c)[t] = ToSay(c, t) /\ ToSay(c, t) \in Int
    <3>1. t \in Shelves
        BY <2>9
    <3>2. ToSay(c, t) = counts[c].found[t] + (IF counts[c].dated THEN counts[c].since[t] ELSE 0)
        BY <1>1, <2>8, <2>10 DEF CountRight, FoundRight
    <3>3. counts[c].rows[t] = books[t]
        BY <1>1, <2>8, <2>10 DEF CountRight, RowsRight
    <3>4. ShelfDelta(c)[t] = counts[c].found[t] - (books[t] - (IF counts[c].dated THEN counts[c].since[t] ELSE 0))
        BY <2>10, <3>1, <3>3 DEF ShelfDelta, Believed
    <3>5. counts[c].found[t] \in Nat /\ counts[c].since[t] \in Int /\ books[t] \in Nat
        BY <2>9, <3>1 DEF CountsInv, CountShapes
    <3> QED
        BY <3>2, <3>4, <3>5
  <2>11. ASSUME counts[c].spoiled = {} PROVE DeltaRight(c)'
    <3>1. CASE counts[c].kind = "product"
      <4>1. counts[c].scope = Shelves
          BY <2>8, <3>1 DEF CountRight
      <4>2. PICK add : add = ShelfDelta(c)
          OBVIOUS
      <4>3. PICK all : all = ToSayOf(c)
          OBVIOUS
      <4>4. \A t \in Shelves : all[t] = books[t] + add[t] /\ all[t] \in Int
          BY <2>10, <2>11, <4>1, <4>2, <4>3 DEF ToSayOf
      <4>5. all \in [Shelves -> Int] /\ add \in [Shelves -> Int] /\ books \in [Shelves -> Int]
          BY <2>4, <4>2, <4>3, <4>4 DEF ToSayOf, CountsInv, CountShapes
      <4>6. \A t \in Shelves : books[t] \in Int /\ add[t] \in Int /\ books[t] = all[t] - add[t]
          BY <4>4, <4>5
      <4>7. LessEach(books, all, add, Shelves)
          BY <4>5, <4>6, CountsAssumption DEF LessEach
      <4>8. Sum(books) = Sum(all) - Sum(add) /\ Sum(all) \in Int /\ Sum(add) \in Int
          BY <4>7, LessSum
      <4>9. Sum(delta) = Sum(add)
          BY <1>6, <2>1, <4>2 DEF Affordable
      <4>10. Sum(books) + Sum(delta) = Sum(all)
          BY <4>8, <4>9
      <4>11. ToSayOf(c)' = all
          BY <1>3, <4>3 DEF ToSayOf
      <4> QED
          BY <1>2, <2>5, <2>7, <3>1, <4>10, <4>11 DEF DeltaRight
    <3>2. CASE counts[c].kind = "shelves"
      <4>1. delta = ShelfDelta(c)
          BY <2>1, <3>2 DEF DeltaOf
      <4> QED
          BY <1>2, <1>3, <2>5, <2>7, <2>10, <2>11, <3>2, <4>1 DEF DeltaRight
    <3> QED
        BY <2>9, <3>1, <3>2
  <2>12. CountRight(c)'
    <3>1. counts'[c].kind = "product" => counts'[c].scope = Shelves
        BY <2>5, <2>7, <2>8 DEF CountRight
    <3>2. FoundRight(c)' /\ RowsRight(c)'
        BY <2>5, <2>7 DEF FoundRight, RowsRight
    <3> QED
        BY <2>5, <2>7, <2>11, <3>1, <3>2 DEF CountRight
  <2> QED
      BY <1>2, <1>3, <1>4, <2>5, <2>6, <2>12, OneCountChanges
<1> QED
    BY <1>5, <1>6

LEMMA CountLandsHolds ==
    ASSUME CountsInv, NEW c \in Counters, CountLands(c)
    PROVE  CountsInv'
<1>1. counts[c] \in Count /\ counts[c].at = "write"
    BY CountOf DEF CountsInv, CountLands
<1>2. onShelf' = onShelf /\ late' = late
    BY DEF CountLands
<1>3. \A d, t : ToSay(d, t)' = ToSay(d, t)
    BY <1>2, ToSayStays
<1>4. late' \in [LateSales -> {NotSold} \cup LateSale]
    BY <1>2 DEF CountsInv, CountShapes
<1>5. CASE ~RoomForDelta(c)
  <2>1. counts' = [counts EXCEPT ![c] = NotCounting] /\ books' = books
      BY <1>5 DEF CountLands
  <2>2. NotCounting \notin Count
      BY DEF NotCounting, Count
  <2> QED
      BY <1>2, <1>3, <1>4, <2>1, <2>2, OneCountChanges
<1>6. CASE RoomForDelta(c)
  <2>1. PICK delta : delta = counts[c].delta
      OBVIOUS
  <2>2. delta \in [Shelves -> Int]
      BY <1>1, <2>1 DEF Count
  <2>3. books' = [s \in Shelves |-> books[s] + delta[s]] /\ \A s \in Shelves : books[s] + delta[s] >= 0
      BY <1>6, <2>1 DEF CountLands, RoomForDelta
  <2>4. books' \in [Shelves -> Nat]
      BY <2>2, <2>3 DEF CountsInv, CountShapes
  <2>5. counts' = [d \in Counters |->
            IF d = c THEN NotCounting
            ELSE IF Overtaken(d, c)
            THEN [counts[d] EXCEPT !.since = [s \in Shelves |-> counts[d].since[s] + counts[c].delta[s]],
                                   !.spoiled = @ \cup SpoiledByCount(d)]
            ELSE counts[d]]
      BY <1>6 DEF CountLands
  <2>6. counts'[c] = NotCounting
      BY <2>5
  <2>7. ASSUME NEW d \in Counters, d # c, ~Overtaken(d, c) PROVE counts'[d] = counts[d]
      BY <2>5, <2>7
  <2>8. ASSUME NEW d \in Counters, d # c, Overtaken(d, c)
        PROVE  /\ counts'[d] \in Count /\ counts'[d].at = counts[d].at /\ counts'[d].kind = counts[d].kind
               /\ counts'[d].scope = counts[d].scope /\ counts'[d].dated = counts[d].dated
               /\ counts'[d].found = counts[d].found
               /\ counts'[d].spoiled = counts[d].spoiled \cup SpoiledByCount(d)
               /\ d \in Walked
    <3>1. PICK r : r = counts[d]
        OBVIOUS
    <3>2. r \in Count /\ d \in Walked
        BY <2>8, <3>1, CountOf DEF Overtaken, CountsInv
    <3>3. PICK g : g = [s \in Shelves |-> r.since[s] + delta[s]]
        OBVIOUS
    <3>4. g \in [Shelves -> Int]
        BY <2>2, <3>2, <3>3 DEF Count
    <3>5. PICK sp : sp = r.spoiled \cup SpoiledByCount(d)
        OBVIOUS
    <3>6. sp \in SUBSET Reasons
      <4>1. SpoiledByCount(d) \in SUBSET Reasons
          BY DEF SpoiledByCount, Reasons
      <4> QED
          BY <3>2, <3>5, <4>1 DEF Count
    <3>7. PICK y : y = [r EXCEPT !.since = g, !.spoiled = sp]
        OBVIOUS
    <3>8. /\ y \in Count /\ y.at = r.at /\ y.kind = r.kind /\ y.scope = r.scope /\ y.dated = r.dated
          /\ y.found = r.found /\ y.spoiled = sp
        BY <3>2, <3>4, <3>6, <3>7 DEF Count
    <3>9. counts'[d] = [r EXCEPT !.since = [s \in Shelves |-> r.since[s] + delta[s]], !.spoiled = @ \cup SpoiledByCount(d)]
        BY <2>1, <2>5, <2>8, <3>1
    <3>10. counts'[d] = y
        BY <3>2, <3>3, <3>5, <3>7, <3>9 DEF Count
    <3> QED
        BY <3>1, <3>2, <3>5, <3>8, <3>10
  <2>9. CountShapes'
    <3>1. \A d \in Counters : counts'[d] \in {NotCounting} \cup Count
      <4> SUFFICES ASSUME NEW d \in Counters PROVE counts'[d] \in {NotCounting} \cup Count
          OBVIOUS
      <4>1. counts[d] \in {NotCounting} \cup Count
          BY DEF CountsInv, CountShapes
      <4> QED
          BY <2>6, <2>7, <2>8, <4>1
    <3>2. counts' = [d \in Counters |-> counts'[d]]
        BY <2>5
    <3>3. counts' \in [Counters -> {NotCounting} \cup Count]
        BY <3>1, <3>2
    <3> QED
        BY <1>2, <1>4, <2>4, <3>3 DEF CountsInv, CountShapes
  <2>10. ASSUME NEW d \in Walked' PROVE CountRight(d)'
    <3>1. d \in Counters /\ d # c
        BY <2>6 DEF Walked
    <3>2. d \in Walked
        BY <2>7, <2>8, <2>10, <3>1 DEF Walked
    <3>3. counts[d] \in Count /\ counts[d].scope \subseteq Shelves
        BY <3>1, <3>2, CountOf DEF CountsInv, Count
    <3>4. CountRight(d)
        BY <3>2 DEF CountsInv
    <3>5. CASE ~Overtaken(d, c)
      <4>1. \A t \in counts[d].scope : delta[t] = 0
          BY <2>1, <3>1, <3>2, <3>3, <3>5 DEF Overtaken
      <4>2. \A t \in counts[d].scope : books'[t] = books[t]
        <5> SUFFICES ASSUME NEW t \in counts[d].scope PROVE books'[t] = books[t]
            OBVIOUS
        <5>1. t \in Shelves /\ delta[t] = 0
            BY <3>3, <4>1
        <5>2. books'[t] = books[t] + 0 /\ books[t] \in Nat
            BY <2>3, <5>1 DEF CountsInv, CountShapes
        <5> QED
            BY <5>2
      <4>3. counts'[d] = counts[d]
          BY <2>7, <3>1, <3>5
      <4> QED
          BY <1>3, <2>4, <3>2, <4>2, <4>3, CountStaysRight
    <3>6. CASE Overtaken(d, c)
      <4>1. /\ counts'[d].at = counts[d].at /\ counts'[d].kind = counts[d].kind
            /\ counts'[d].scope = counts[d].scope /\ counts'[d].dated = counts[d].dated
            /\ counts'[d].found = counts[d].found
            /\ counts'[d].spoiled = counts[d].spoiled \cup SpoiledByCount(d)
          BY <2>8, <3>1, <3>6
      <4>2. CASE counts[d].at = "walked" /\ ~counts[d].dated
        <5>1. counts'[d].spoiled = {} => counts[d].spoiled = {}
            BY <4>1
        <5>2. FoundRight(d) => FoundRight(d)'
            BY <1>3, <4>1, <4>2 DEF FoundRight
        <5>3. RowsRight(d)' /\ DeltaRight(d)'
            BY <4>1, <4>2 DEF RowsRight, DeltaRight
        <5>4. counts'[d].kind = "product" => counts'[d].scope = Shelves
            BY <3>4, <4>1 DEF CountRight
        <5> QED
            BY <3>4, <5>1, <5>2, <5>3, <5>4 DEF CountRight
      <4>3. CASE ~(counts[d].at = "walked" /\ ~counts[d].dated)
        <5>1. SpoiledByCount(d) # {}
            BY <4>3 DEF SpoiledByCount
        <5> QED
            BY <3>4, <4>1, <5>1 DEF CountRight
      <4> QED
          BY <4>2, <4>3
    <3> QED
        BY <3>5, <3>6
  <2> QED
      BY <2>9, <2>10 DEF CountsInv
<1> QED
    BY <1>5, <1>6

LEMMA CountsInvHolds == CountsInv /\ [CountsNext]_countVars => CountsInv'
<1> SUFFICES ASSUME CountsInv, [CountsNext]_countVars PROVE CountsInv'
    OBVIOUS
<1>1. ASSUME NEW s \in Shelves, SellsHere(s) \/ Delivers(s) PROVE CountsInv'
    BY <1>1, SellsAndDeliversHold
<1>2. ASSUME NEW s \in Shelves, Vanishes(s) PROVE CountsInv'
    BY <1>2, VanishesHolds
<1>3. ASSUME NEW l \in LateSales, SendsLate(l) PROVE CountsInv'
    BY <1>3, SendsLateHolds
<1>4. ASSUME NEW l \in LateSales, NEW s \in Shelves, SellsOffline(l, s) PROVE CountsInv'
    BY <1>4, SellsOfflineHolds
<1>5. ASSUME NEW c \in Counters, NEW dated \in BOOLEAN, Walks(c, "product", Shelves, dated) PROVE CountsInv'
  <2>1. Shelves \in (SUBSET Shelves) \ {{}}
      BY CountsAssumption
  <2> QED
      BY <1>5, <2>1, WalksHolds
<1>6. ASSUME NEW c \in Counters, NEW dated \in BOOLEAN, NEW scope \in (SUBSET Shelves) \ {{}},
             Walks(c, "shelves", scope, dated)
      PROVE  CountsInv'
    BY <1>6, WalksHolds
<1>7. ASSUME NEW c \in Counters, ReadsRows(c) PROVE CountsInv'
    BY <1>7, ReadsRowsHolds
<1>8. ASSUME NEW c \in Counters, ReadsMovements(c) PROVE CountsInv'
    BY <1>8, ReadsMovementsHolds
<1>9. ASSUME NEW c \in Counters, CountLands(c) PROVE CountsInv'
    BY <1>9, CountLandsHolds
<1>10. CASE UNCHANGED countVars
  <2>1. CountShapes' /\ Walked' = Walked
      BY <1>10 DEF countVars, CountsInv, CountShapes, Walked
  <2>2. \A c \in Walked : CountRight(c)'
      BY <1>10 DEF countVars, CountsInv, CountRight, FoundRight, RowsRight, DeltaRight, ToSay, ToSayOf, SoldSince
  <2> QED
      BY <2>1, <2>2 DEF CountsInv
<1> QED
    BY <1>1, <1>2, <1>3, <1>4, <1>5, <1>6, <1>7, <1>8, <1>9, <1>10 DEF CountsNext

LEMMA CountsInvAlways == CountsSpec => []CountsInv
<1>1. CountsInit => CountsInv
    BY CountsInvInit
<1>2. CountsInv /\ [CountsNext]_countVars => CountsInv'
    BY CountsInvHolds
<1> QED
    BY <1>1, <1>2, PTL DEF CountsSpec

\* No count takes goods that are no longer there (CountsTypeOK).
THEOREM CountTypes == CountsSpec => []CountsTypeOK
<1>1. CountsInv => CountsTypeOK
  <2> SUFFICES ASSUME CountsInv PROVE CountsTypeOK
      OBVIOUS
  <2>1. books \in [Shelves -> Nat] /\ onShelf \in [Shelves -> Nat]
      BY DEF CountsInv, CountShapes
  <2>2. \A l \in LateSales :
             late[l] = NotSold \/ (late[l].shelf \in Shelves /\ late[l].after \subseteq Counters)
      BY DEF CountsInv, CountShapes, LateSale
  <2>3. \A c \in Walked : counts[c] \in Count
      BY CountOf DEF CountsInv, Walked
  <2>4. \A c \in Walked :
            /\ counts[c].at \in {"walked", "rows", "write"}
            /\ counts[c].scope \in (SUBSET Shelves) \ {{}}
            /\ counts[c].found \in [Shelves -> Nat]
            /\ counts[c].spoiled \subseteq {"trade", "lost", "count"}
      BY <2>3 DEF Count, Reasons
  <2> QED
      BY <2>1, <2>2, <2>4 DEF CountsTypeOK
<1> QED
    BY <1>1, CountsInvAlways, PTL

\* No step but its landing ends a count that is ready to write.
LEMMA OnlyItsLandingEndsIt ==
    ASSUME CountsInv, [CountsNext]_countVars, NEW c \in Counters,
           counts[c].at = "write", counts'[c] = NotCounting
    PROVE  CountLands(c)
<1>1. c \in Walked /\ counts[c] \in Count /\ counts[c] # NotCounting
    BY CountOf DEF CountsInv, NotCounting
<1>2. counts \in [Counters -> {NotCounting} \cup Count]
    BY DEF CountsInv, CountShapes
<1>3. counts' # counts
    BY <1>1
<1>4. ASSUME NEW s, NEW n, NEW after, counts' = Booked(s, n, after) PROVE FALSE
  <2>1. counts'[c] = Seen(c, s, n, after)
      BY <1>1, <1>4 DEF Booked
  <2>2. Seen(c, s, n, after).at = "write"
      BY <1>1 DEF Seen, Count
  <2> QED
      BY <2>1, <2>2 DEF NotCounting
<1>5. ASSUME NEW s \in Shelves, SellsHere(s) \/ Delivers(s) PROVE FALSE
    BY <1>4, <1>5 DEF SellsHere, Delivers
<1>6. ASSUME NEW s \in Shelves, Vanishes(s) PROVE FALSE
  <2>1. counts'[c] = counts[c] \/ counts'[c] = [counts[c] EXCEPT !.spoiled = @ \cup {"lost"}]
      BY <1>6 DEF Vanishes
  <2>2. counts'[c].at = "write"
      BY <1>1, <2>1 DEF Count
  <2> QED
      BY <2>2 DEF NotCounting
<1>7. ASSUME NEW l \in LateSales, SendsLate(l) PROVE FALSE
    BY <1>4, <1>7 DEF SendsLate
<1>8. ASSUME NEW l \in LateSales, NEW s \in Shelves, SellsOffline(l, s) PROVE FALSE
    BY <1>3, <1>8 DEF SellsOffline
<1>9. ASSUME NEW d \in Counters, NEW kind, NEW scope, NEW dated, Walks(d, kind, scope, dated) PROVE FALSE
  <2>1. d # c
      BY <1>1, <1>9 DEF Walks
  <2>2. counts'[c] = counts[c]
      BY <1>2, <1>9, <2>1 DEF Walks
  <2> QED
      BY <1>1, <2>2
<1>10. ASSUME NEW d \in Counters, ReadsRows(d) \/ ReadsMovements(d) PROVE FALSE
  <2>1. d # c
      BY <1>10 DEF ReadsRows, ReadsMovements
  <2>2. counts'[c] = counts[c]
      BY <1>2, <1>10, <2>1 DEF ReadsRows, ReadsMovements
  <2> QED
      BY <1>1, <2>2
<1>11. ASSUME NEW d \in Counters, CountLands(d), d # c PROVE FALSE
  <2>1. CASE RoomForDelta(d)
    <3>1. counts'[c] = CASE c = d -> NotCounting
                         [] Overtaken(c, d) ->
                              [counts[c] EXCEPT !.since = [s \in Shelves |-> @[s] + counts[d].delta[s]],
                                                !.spoiled = @ \cup SpoiledByCount(c)]
                         [] OTHER -> counts[c]
        BY <1>11, <2>1 DEF CountLands
    <3>2. counts'[c] = counts[c] \/ counts'[c] =
              [counts[c] EXCEPT !.since = [s \in Shelves |-> @[s] + counts[d].delta[s]],
                                !.spoiled = @ \cup SpoiledByCount(c)]
        BY <1>11, <3>1
    <3>3. counts'[c].at = "write"
        BY <1>1, <3>2 DEF Count
    <3> QED
        BY <3>3 DEF NotCounting
  <2>2. CASE ~RoomForDelta(d)
    <3>1. counts'[c] = counts[c]
        BY <1>2, <1>11, <2>2 DEF CountLands
    <3> QED
        BY <1>1, <3>1
  <2> QED
      BY <2>1, <2>2
<1>12. ~UNCHANGED countVars
    BY <1>3 DEF countVars
<1> QED
    BY <1>5, <1>6, <1>7, <1>8, <1>9, <1>10, <1>11, <1>12 DEF CountsNext

LEMMA SumOverOne ==
    ASSUME NEW f, NEW x, f[x] \in Int
    PROVE  SumOver(f, {x}) = f[x]
<1>1. SumOver(f, {} \cup {x}) = SumOver(f, {}) + f[x]
    BY SumOverAdd, FS_EmptySet
<1>2. {} \cup {x} = {x}
    OBVIOUS
<1> QED
    BY <1>1, <1>2, SumOverEmpty

\* A shelf counted is a shelf corrected (CountSettles), whatever is sold, delivered and
\* still to be sent, for any number of shelves, walks and late sales.
THEOREM CountsAlwaysSettle == CountsSpec => CountSettles
<1>1. CountsInv /\ [CountsNext]_countVars =>
          \A c \in Counters :
              (/\ counts[c].at = "write" /\ counts'[c] = NotCounting
               /\ RoomForDelta(c) /\ counts[c].spoiled = {} /\ Hidden(c) = {})
              => /\ counts[c].kind = "product" => Accounted(Shelves)
                 /\ counts[c].kind = "shelves" => \A s \in counts[c].scope : Accounted({s})
  <2> SUFFICES ASSUME CountsInv, [CountsNext]_countVars, NEW c \in Counters,
                      counts[c].at = "write", counts'[c] = NotCounting,
                      RoomForDelta(c), counts[c].spoiled = {}, Hidden(c) = {}
               PROVE  /\ counts[c].kind = "product" => Accounted(Shelves)
                      /\ counts[c].kind = "shelves" => \A s \in counts[c].scope : Accounted({s})
      OBVIOUS
  <2>1. CountLands(c)
      BY OnlyItsLandingEndsIt
  <2>2. counts[c] \in Count /\ c \in Walked
      BY CountOf DEF CountsInv
  <2>3. CountRight(c) /\ DeltaRight(c)
      BY <2>2 DEF CountsInv, CountRight
  <2>4. PICK delta : delta = counts[c].delta
      OBVIOUS
  <2>5. PICK now : now = books'
      OBVIOUS
  <2>6. PICK goal : goal = [s \in Shelves |-> onShelf[s] + Unsent(s)]
      OBVIOUS
  <2>7. delta \in [Shelves -> Int] /\ counts[c].scope \subseteq Shelves
      BY <2>2, <2>4 DEF Count
  <2>8. now = [s \in Shelves |-> books[s] + delta[s]]
      BY <2>1, <2>4, <2>5 DEF CountLands
  <2>9. books \in [Shelves -> Nat] /\ now \in [Shelves -> Int]
      BY <2>7, <2>8 DEF CountsInv, CountShapes
  <2>10. ASSUME NEW t \in counts[c].scope PROVE goal[t] = ToSay(c, t) /\ ToSay(c, t) \in Int
    <3>1. t \in Shelves
        BY <2>7, <2>10
    <3>2. SoldSince(c, t) = {l \in LateSales : late[l] # NotSold /\ late[l].shelf = t}
        BY <2>10 DEF SoldSince, Hidden
    <3>3. Unsent(t) = Cardinality(SoldSince(c, t))
        BY <3>2 DEF Unsent
    <3> QED
        BY <2>6, <3>1, <3>3, ToSayType DEF ToSay, CountsInv
  <2>11. Accounted(Shelves) <=> SumOver(now, Shelves) = SumOver(goal, Shelves)
      BY <2>5, <2>6 DEF Accounted
  <2>12. ASSUME counts[c].kind = "product" PROVE Accounted(Shelves)
    <3>1. counts[c].scope = Shelves
        BY <2>3, <2>12 DEF CountRight
    <3>2. PICK all : all = ToSayOf(c)
        OBVIOUS
    <3>3. Sum(books) + Sum(delta) = Sum(all)
        BY <2>3, <2>4, <2>12, <3>2 DEF DeltaRight
    <3>4. all = goal
        BY <2>6, <2>10, <3>1, <3>2 DEF ToSayOf
    <3>5. \A s \in Shelves : books[s] \in Int /\ delta[s] \in Int /\ now[s] = books[s] + delta[s]
        BY <2>7, <2>8, <2>9
    <3>6. SumOver(now, Shelves) = SumOver(books, Shelves) + SumOver(delta, Shelves)
        BY <3>5, CountsAssumption, SumOverPlus
    <3>7. DOMAIN books = Shelves /\ DOMAIN delta = Shelves /\ DOMAIN goal = Shelves
        BY <2>6, <2>7, <2>9
    <3>8. Sum(books) = SumOver(books, Shelves) /\ Sum(delta) = SumOver(delta, Shelves)
          /\ Sum(goal) = SumOver(goal, Shelves)
        BY <3>7, SumIsOverDomain
    <3> QED
        BY <2>11, <3>3, <3>4, <3>6, <3>8
  <2>13. ASSUME counts[c].kind = "shelves", NEW t \in counts[c].scope PROVE Accounted({t})
    <3>1. t \in Shelves /\ books[t] + delta[t] = ToSay(c, t)
        BY <2>3, <2>4, <2>7, <2>13 DEF DeltaRight
    <3>2. now[t] = goal[t] /\ now[t] \in Int
        BY <2>8, <2>10, <2>13, <3>1
    <3>3. SumOver(now, {t}) = now[t] /\ SumOver(goal, {t}) = goal[t]
        BY <3>2, SumOverOne
    <3> QED
        BY <2>5, <2>6, <3>2, <3>3 DEF Accounted
  <2> QED
      BY <2>12, <2>13
<1> QED
    BY <1>1, CountsInvAlways, PTL DEF CountsSpec, CountSettles

-----------------------------------------------------------------------------
(***************************************************************************)
(* Repairs beside sales, deliveries and holds, for any number of them.     *)
(*                                                                         *)
(* A row a repair has set is locked until the repair ends, so that nobody  *)
(* sells from it or delivers to it, and what it was set to is what the     *)
(* movements say for as long as it is not to be seen.  The same lock keeps *)
(* what a repair found blocked on a row it cuts; of the rows it does not   *)
(* cut, what was found to fit fits until goods are sold from them.         *)
(***************************************************************************)
Figures(T) == UNION {[S -> T] : S \in SUBSET RepairShelves}
OpenSale == [at : {"open"}, shelf : RepairShelves, batch : Nat]
Repair ==
    [at : {"rows", "batches", "holds", "end"}, listed : SUBSET RepairShelves,
     missing : SUBSET RepairShelves, ledger : [RepairShelves -> Int], sum : Int,
     waiting : SUBSET RepairShelves, excess : Int,
     fixed : Figures(Int), trimmed : Figures(Nat), sold : SUBSET RepairShelves,
     stale : SUBSET RepairShelves, crossed : BOOLEAN]

RepairShapes ==
    /\ rows \in [RepairShelves -> [quantity : Int, reserved : Nat, blocked : Nat]]
    /\ ledger \in [RepairShelves -> Int] /\ batched \in Int
    /\ sales \in [Sellers -> {Idle} \cup OpenSale]
    /\ repairs \in [Menders -> {Idle} \cup Repair]
    /\ astray \subseteq RepairShelves

\* A row that was set is not being sold from, and agrees with the movements.
SetRight(r, s) ==
    s \in DOMAIN r.fixed => s \notin HeldBySale /\ (s \notin r.stale => r.fixed[s] = ledger[s])
RowsSetRight == \A m \in Menders : repairs[m] # Idle => \A s \in RepairShelves : SetRight(repairs[m], s)

\* What a repair is about to leave held on a shelf fits what it is about to leave there.
QuantityLeft(r, row, s) == IF s \in DOMAIN r.fixed THEN r.fixed[s] ELSE row.quantity
BlockedLeft(r, row, s) == IF s \in DOMAIN r.trimmed THEN r.trimmed[s] ELSE row.blocked
CutRight(r, row, s) ==
    /\ s \in DOMAIN r.trimmed => r.trimmed[s] <= row.blocked
    /\ s \in DOMAIN r.fixed => s \notin r.sold
    /\ s \notin r.sold => \/ row.reserved + BlockedLeft(r, row, s) <= QuantityLeft(r, row, s)
                          \/ BlockedLeft(r, row, s) = 0
HoldsCutRight ==
    \A m \in Menders : repairs[m].at = "end" =>
        \A s \in RepairShelves : CutRight(repairs[m], rows[s], s)

RepairInv == RepairShapes /\ RowsSetRight /\ RepairedAgrees /\ HoldsCutRight

\* A row that is not there has nothing to sell, and as long as it is not there nothing
\* is moved on its shelf: what a repair has read of the movements is what they are.
AbsentInv ==
    /\ \A s \in absent : s \in RepairShelves /\ rows[s].quantity = 0 /\ s \notin HeldBySale
    /\ \A m \in Menders : repairs[m] # Idle =>
          \A s \in repairs[m].missing \cap absent : repairs[m].ledger[s] = ledger[s]

-----------------------------------------------------------------------------
LEMMA RepairOf ==
    ASSUME RepairShapes, NEW m \in Menders
    PROVE  /\ repairs[m] = Idle \/ repairs[m] \in Repair
           /\ repairs[m] = Idle <=> repairs[m].at = "idle"
           /\ repairs[m] # Idle =>
                 /\ FixedBy(m) = DOMAIN repairs[m].fixed /\ TrimmedBy(m) = DOMAIN repairs[m].trimmed
                 /\ FixedBy(m) \subseteq RepairShelves /\ TrimmedBy(m) \subseteq RepairShelves
                 /\ \A s \in FixedBy(m) : repairs[m].fixed[s] \in Int
                 /\ \A s \in TrimmedBy(m) : repairs[m].trimmed[s] \in Nat
<1>1. repairs[m] = Idle \/ repairs[m] \in Repair
    BY DEF RepairShapes
<1>2. repairs[m] = Idle <=> repairs[m].at = "idle"
    BY <1>1 DEF Idle, Repair
<1>3. ASSUME repairs[m] # Idle
      PROVE  /\ FixedBy(m) = DOMAIN repairs[m].fixed /\ TrimmedBy(m) = DOMAIN repairs[m].trimmed
             /\ FixedBy(m) \subseteq RepairShelves /\ TrimmedBy(m) \subseteq RepairShelves
             /\ \A s \in FixedBy(m) : repairs[m].fixed[s] \in Int
             /\ \A s \in TrimmedBy(m) : repairs[m].trimmed[s] \in Nat
  <2>1. FixedBy(m) = DOMAIN repairs[m].fixed /\ TrimmedBy(m) = DOMAIN repairs[m].trimmed
      BY <1>3 DEF FixedBy, TrimmedBy
  <2>2. repairs[m].fixed \in Figures(Int) /\ repairs[m].trimmed \in Figures(Nat)
      BY <1>1, <1>3 DEF Repair
  <2>3. PICK S \in SUBSET RepairShelves : repairs[m].fixed \in [S -> Int]
      BY <2>2 DEF Figures
  <2>4. PICK T \in SUBSET RepairShelves : repairs[m].trimmed \in [T -> Nat]
      BY <2>2 DEF Figures
  <2> QED
      BY <2>1, <2>3, <2>4
<1> QED
    BY <1>1, <1>2, <1>3

LEMMA SaleOf ==
    ASSUME RepairShapes, NEW p \in Sellers
    PROVE  sales[p] = Idle \/ (sales[p] \in OpenSale /\ sales[p].shelf \in RepairShelves
                               /\ sales[p].batch \in Nat /\ sales[p].shelf \in HeldBySale)
BY DEF RepairShapes, OpenSale, HeldBySale

LEMMA WithOne ==
    ASSUME NEW f \in Figures(Int), NEW s \in RepairShelves, NEW n \in Int
    PROVE  /\ With(f, s, n) \in Figures(Int) /\ DOMAIN With(f, s, n) = DOMAIN f \cup {s}
           /\ With(f, s, n)[s] = n /\ \A t \in DOMAIN f \ {s} : With(f, s, n)[t] = f[t]
<1>1. PICK S \in SUBSET RepairShelves : f \in [S -> Int]
    BY DEF Figures
<1>2. PICK T : T = S \cup {s}
    OBVIOUS
<1>3. T \in SUBSET RepairShelves /\ DOMAIN f = S
    BY <1>1, <1>2
<1>4. With(f, s, n) = [t \in T |-> IF t = s THEN n ELSE f[t]]
    BY <1>2, <1>3 DEF With
<1>5. With(f, s, n) \in [T -> Int]
    BY <1>1, <1>2, <1>4
<1>6. With(f, s, n) \in Figures(Int)
    BY <1>3, <1>5 DEF Figures
<1> QED
    BY <1>2, <1>3, <1>4, <1>6

LEMMA QuantitySeen ==
    ASSUME RepairShapes, NEW m \in Menders, repairs[m] # Idle, NEW s \in RepairShelves
    PROVE  /\ QuantityTo(m, s) = QuantityLeft(repairs[m], rows[s], s)
           /\ QuantityTo(m, s) \in Int
<1>1. FixedBy(m) = DOMAIN repairs[m].fixed /\ \A t \in FixedBy(m) : repairs[m].fixed[t] \in Int
    BY RepairOf
<1>2. rows[s].quantity \in Int
    BY DEF RepairShapes
<1> QED
    BY <1>1, <1>2 DEF QuantityTo, QuantityLeft

LEMMA SumSeen ==
    ASSUME RepairShapes, NEW m \in Menders, repairs[m] # Idle
    PROVE  Sum([s \in RepairShelves |-> QuantityTo(m, s)]) \in Int
<1>1. [s \in RepairShelves |-> QuantityTo(m, s)] \in [RepairShelves -> Int]
    BY QuantitySeen
<1> QED
    BY <1>1, IntSum, ReconciliationAssumption

LEMMA SumOfRows ==
    ASSUME RepairShapes
    PROVE  Sum([s \in RepairShelves |-> rows[s].quantity]) \in Int
<1>1. [s \in RepairShelves |-> rows[s].quantity] \in [RepairShelves -> Int]
    BY DEF RepairShapes
<1> QED
    BY <1>1, IntSum, ReconciliationAssumption

-----------------------------------------------------------------------------
LEMMA RepairInvInit == RepairInit => RepairInv
<1> SUFFICES ASSUME RepairInit PROVE RepairInv
    OBVIOUS
<1>1. 0..MostInBooks \subseteq Nat /\ 0..MostInBooks \subseteq Int
    BY ReconciliationAssumption
<1>2. rows \in [RepairShelves -> [quantity : Int, reserved : Nat, blocked : Nat]]
    BY <1>1 DEF RepairInit
<1>3. ledger \in [RepairShelves -> Int] /\ batched \in Int /\ astray \subseteq RepairShelves
    BY <1>1 DEF RepairInit
<1>4. sales \in [Sellers -> {Idle} \cup OpenSale] /\ repairs \in [Menders -> {Idle} \cup Repair]
    BY DEF RepairInit
<1>5. RepairShapes
    BY <1>2, <1>3, <1>4 DEF RepairShapes
<1>6. \A m \in Menders : repairs[m] = Idle
    BY DEF RepairInit
<1>7. RowsSetRight
    BY <1>6 DEF RowsSetRight
<1>8. HoldsCutRight
    BY <1>6 DEF HoldsCutRight, Idle
<1>9. RepairedAgrees
    BY DEF RepairInit, RepairedAgrees
<1> QED
    BY <1>5, <1>7, <1>8, <1>9 DEF RepairInv

-----------------------------------------------------------------------------
(* The shop. *)

LEMMA SaleWritesHolds ==
    ASSUME RepairInv, NEW p \in Sellers, NEW s \in RepairShelves, SaleWrites(p, s)
    PROVE  RepairInv'
<1>1. UNCHANGED <<rows, ledger, batched, repairs, astray>> /\ ~Locked(s)
    BY DEF SaleWrites
<1>2. PICK x : x = [at |-> "open", shelf |-> s, batch |-> NotNegative(Lesser(1, batched))]
    OBVIOUS
<1>3. x \in OpenSale /\ x.shelf = s
  <2>1. NotNegative(Lesser(1, batched)) \in Nat
      BY DEF NotNegative, Lesser, RepairInv, RepairShapes
  <2> QED
      BY <1>2, <2>1 DEF OpenSale
<1>4. sales' = [sales EXCEPT ![p] = x]
    BY <1>2 DEF SaleWrites
<1>5. RepairShapes'
    BY <1>1, <1>3, <1>4 DEF RepairInv, RepairShapes
<1>6. \A q \in Sellers : sales'[q] = IF q = p THEN x ELSE sales[q]
    BY <1>4 DEF RepairInv, RepairShapes
<1>7. \A t : t \in HeldBySale' => t \in HeldBySale \/ t = s
    BY <1>3, <1>6 DEF HeldBySale
<1>8. RowsSetRight'
  <2> SUFFICES ASSUME NEW m \in Menders, repairs[m] # Idle, NEW t \in RepairShelves, t \in DOMAIN repairs[m].fixed
               PROVE  t \notin HeldBySale' /\ (t \notin repairs[m].stale => repairs[m].fixed[t] = ledger[t])
      BY <1>1 DEF RowsSetRight, SetRight
  <2>1. t \in FixedBy(m)
      BY DEF FixedBy
  <2>2. t # s
      BY <1>1, <2>1 DEF Locked
  <2> QED
      BY <1>7, <2>2 DEF RepairInv, RowsSetRight, SetRight
<1>9. RepairedAgrees' /\ HoldsCutRight'
    BY <1>1 DEF RepairInv, RepairedAgrees, HoldsCutRight
<1> QED
    BY <1>5, <1>8, <1>9 DEF RepairInv

LEMMA SaleEndsHolds ==
    ASSUME RepairInv, NEW p \in Sellers, SaleEnds(p)
    PROVE  RepairInv'
<1>1. PICK s : s = sales[p].shelf
    OBVIOUS
<1>2. s \in RepairShelves /\ s \in HeldBySale /\ sales[p].batch \in Nat
    BY <1>1, SaleOf DEF RepairInv, SaleEnds
<1>3. /\ rows' = [rows EXCEPT ![s].quantity = @ - 1]
      /\ ledger' = [ledger EXCEPT ![s] = @ - 1]
      /\ batched' = batched - sales[p].batch
      /\ sales' = [sales EXCEPT ![p] = Idle]
      /\ repairs' = [m \in Menders |->
            IF repairs[m] # Idle THEN [repairs[m] EXCEPT !.sold = @ \cup {s}] ELSE Idle]
      /\ astray' = astray
    BY <1>1 DEF SaleEnds
<1>4. \A t \in RepairShelves : /\ rows'[t].quantity = rows[t].quantity - (IF t = s THEN 1 ELSE 0)
                               /\ rows'[t].reserved = rows[t].reserved /\ rows'[t].blocked = rows[t].blocked
                               /\ ledger'[t] = ledger[t] - (IF t = s THEN 1 ELSE 0)
    BY <1>2, <1>3 DEF RepairInv, RepairShapes
<1>5. \A m \in Menders : /\ repairs[m] = Idle => repairs'[m] = Idle
                         /\ repairs[m] # Idle =>
                              /\ repairs'[m] = [repairs[m] EXCEPT !.sold = @ \cup {s}]
                              /\ repairs[m] \in Repair
    BY <1>3, RepairOf DEF RepairInv
<1>6. \A m \in Menders : repairs[m] # Idle =>
          /\ repairs'[m] \in Repair /\ repairs'[m].at = repairs[m].at
          /\ repairs'[m].fixed = repairs[m].fixed /\ repairs'[m].trimmed = repairs[m].trimmed
          /\ repairs'[m].stale = repairs[m].stale /\ repairs'[m].sold = repairs[m].sold \cup {s}
  <2> SUFFICES ASSUME NEW m \in Menders, repairs[m] # Idle
               PROVE  /\ repairs'[m] \in Repair /\ repairs'[m].at = repairs[m].at
                      /\ repairs'[m].fixed = repairs[m].fixed /\ repairs'[m].trimmed = repairs[m].trimmed
                      /\ repairs'[m].stale = repairs[m].stale
                      /\ repairs'[m].sold = repairs[m].sold \cup {s}
      OBVIOUS
  <2>1. PICK r : r = repairs[m]
      OBVIOUS
  <2>2. r \in Repair /\ r.sold \cup {s} \in SUBSET RepairShelves
      BY <1>2, <1>5, <2>1 DEF Repair
  <2>3. PICK y : y = [r EXCEPT !.sold = r.sold \cup {s}]
      OBVIOUS
  <2>4. /\ y \in Repair /\ y.at = r.at /\ y.fixed = r.fixed /\ y.trimmed = r.trimmed
        /\ y.stale = r.stale /\ y.sold = r.sold \cup {s}
      BY <2>2, <2>3 DEF Repair
  <2>5. repairs'[m] = y
      BY <1>5, <2>1, <2>3
  <2> QED
      BY <2>1, <2>4, <2>5
<1>7. RepairShapes'
  <2>1. rows' \in [RepairShelves -> [quantity : Int, reserved : Nat, blocked : Nat]]
      BY <1>2, <1>3 DEF RepairInv, RepairShapes
  <2>2. ledger' \in [RepairShelves -> Int] /\ batched' \in Int
      BY <1>2, <1>3 DEF RepairInv, RepairShapes
  <2>3. repairs' \in [Menders -> {Idle} \cup Repair]
      BY <1>3, <1>5, <1>6
  <2>4. sales' \in [Sellers -> {Idle} \cup OpenSale] /\ astray' \subseteq RepairShelves
      BY <1>3 DEF RepairInv, RepairShapes
  <2> QED
      BY <2>1, <2>2, <2>3, <2>4 DEF RepairShapes
<1>8. HeldBySale' \subseteq HeldBySale
  <2>1. \A q \in Sellers : sales'[q] # Idle => sales'[q] = sales[q]
      BY <1>3 DEF RepairInv, RepairShapes
  <2> QED
      BY <2>1 DEF HeldBySale
<1>9. RowsSetRight'
  <2> SUFFICES ASSUME NEW m \in Menders, repairs'[m] # Idle, NEW t \in RepairShelves,
                      t \in DOMAIN repairs'[m].fixed
               PROVE  /\ t \notin HeldBySale'
                      /\ t \notin repairs'[m].stale => repairs'[m].fixed[t] = ledger'[t]
      BY DEF RowsSetRight, SetRight
  <2>1. repairs[m] # Idle /\ t \in DOMAIN repairs[m].fixed
      BY <1>5, <1>6
  <2>2. t \notin HeldBySale /\ (t \notin repairs[m].stale => repairs[m].fixed[t] = ledger[t])
      BY <2>1 DEF RepairInv, RowsSetRight, SetRight
  <2>3. ledger'[t] = ledger[t]
      BY <1>2, <1>3, <2>2 DEF RepairInv, RepairShapes
  <2> QED
      BY <1>6, <1>8, <2>1, <2>2, <2>3
<1>10. RepairedAgrees'
    BY <1>3, <1>4 DEF RepairInv, RepairedAgrees
<1>11. HoldsCutRight'
  <2> SUFFICES ASSUME NEW m \in Menders, repairs'[m].at = "end", NEW t \in RepairShelves
               PROVE  CutRight(repairs'[m], rows'[t], t)
      BY DEF HoldsCutRight
  <2>1. repairs[m] # Idle /\ repairs[m].at = "end"
      BY <1>5, <1>6 DEF Idle
  <2>2. CutRight(repairs[m], rows[t], t)
      BY <2>1 DEF RepairInv, HoldsCutRight
  <2>3. t \in DOMAIN repairs[m].fixed => t # s
      BY <1>2, <2>1 DEF RepairInv, RowsSetRight, SetRight
  <2>4. t # s => rows'[t] = rows[t]
      BY <1>3 DEF RepairInv, RepairShapes
  <2> QED
      BY <1>4, <1>6, <2>1, <2>2, <2>3, <2>4 DEF CutRight, BlockedLeft, QuantityLeft
<1> QED
    BY <1>7, <1>9, <1>10, <1>11 DEF RepairInv

LEMMA SaleFailsHolds ==
    ASSUME RepairInv, NEW p \in Sellers, SaleFails(p)
    PROVE  RepairInv'
<1>1. sales' = [sales EXCEPT ![p] = Idle] /\ UNCHANGED <<rows, ledger, batched, repairs, astray>>
    BY DEF SaleFails
<1>2. RepairShapes'
    BY <1>1 DEF RepairInv, RepairShapes
<1>3. HeldBySale' \subseteq HeldBySale
  <2>1. \A q \in Sellers : sales'[q] # Idle => sales'[q] = sales[q]
      BY <1>1 DEF RepairInv, RepairShapes
  <2> QED
      BY <2>1 DEF HeldBySale
<1>4. RowsSetRight'
    BY <1>1, <1>3 DEF RepairInv, RowsSetRight, SetRight
<1>5. RepairedAgrees' /\ HoldsCutRight'
    BY <1>1 DEF RepairInv, RepairedAgrees, HoldsCutRight
<1> QED
    BY <1>2, <1>4, <1>5 DEF RepairInv

\* Marking a repair as crossed changes nothing else of it.
LEMMA MarkedAsCrossed ==
    ASSUME NEW r \in Repair, NEW y, y = r \/ y = [r EXCEPT !.crossed = TRUE]
    PROVE  /\ y \in Repair /\ y # Idle /\ y.at = r.at /\ y.listed = r.listed /\ y.sum = r.sum
           /\ y.excess = r.excess /\ y.fixed = r.fixed /\ y.trimmed = r.trimmed
           /\ y.sold = r.sold /\ y.stale = r.stale /\ (r.crossed => y.crossed)
           /\ y.missing = r.missing /\ y.ledger = r.ledger
<1>1. CASE y = r
    BY <1>1 DEF Repair, Idle
<1>2. CASE y = [r EXCEPT !.crossed = TRUE]
    BY <1>2 DEF Repair, Idle
<1> QED
    BY <1>1, <1>2

LEMMA DeliveredHolds ==
    ASSUME RepairInv, NEW s \in RepairShelves, Delivered(s)
    PROVE  RepairInv'
<1>1. /\ rows' = [rows EXCEPT ![s].quantity = @ + 1]
      /\ ledger' = [ledger EXCEPT ![s] = @ + 1]
      /\ batched' = batched + 1
      /\ repairs' = [m \in Menders |->
            IF repairs[m].at = "batches" THEN [repairs[m] EXCEPT !.crossed = TRUE] ELSE repairs[m]]
      /\ sales' = sales /\ astray' = astray /\ ~Locked(s)
    BY DEF Delivered
<1>2. \A t \in RepairShelves : /\ rows'[t].quantity = rows[t].quantity + (IF t = s THEN 1 ELSE 0)
                               /\ rows'[t].reserved = rows[t].reserved /\ rows'[t].blocked = rows[t].blocked
                               /\ ledger'[t] = ledger[t] + (IF t = s THEN 1 ELSE 0)
                               /\ rows[t].quantity \in Int /\ rows[t].reserved \in Nat /\ rows[t].blocked \in Nat
    BY <1>1 DEF RepairInv, RepairShapes
<1>3. \A m \in Menders :
          /\ repairs[m] = Idle => repairs'[m] = Idle
          /\ repairs[m] # Idle =>
                /\ repairs'[m] \in Repair /\ repairs'[m].at = repairs[m].at
                /\ repairs'[m].fixed = repairs[m].fixed /\ repairs'[m].trimmed = repairs[m].trimmed
                /\ repairs'[m].stale = repairs[m].stale /\ repairs'[m].sold = repairs[m].sold
  <2> SUFFICES ASSUME NEW m \in Menders
               PROVE  /\ repairs[m] = Idle => repairs'[m] = Idle
                      /\ repairs[m] # Idle =>
                          /\ repairs'[m] \in Repair /\ repairs'[m].at = repairs[m].at
                          /\ repairs'[m].fixed = repairs[m].fixed /\ repairs'[m].trimmed = repairs[m].trimmed
                          /\ repairs'[m].stale = repairs[m].stale /\ repairs'[m].sold = repairs[m].sold
      OBVIOUS
  <2>1. repairs[m] = Idle \/ repairs[m] \in Repair
      BY RepairOf DEF RepairInv
  <2>2. CASE repairs[m].at # "batches"
      BY <1>1, <2>1, <2>2
  <2>3. CASE repairs[m].at = "batches"
    <3>1. repairs[m] \in Repair /\ repairs'[m] = [repairs[m] EXCEPT !.crossed = TRUE]
        BY <1>1, <2>1, <2>3 DEF Idle
    <3> QED
        BY <2>3, <3>1 DEF Idle, Repair
  <2> QED
      BY <2>2, <2>3
<1>4. RepairShapes'
  <2>1. rows' \in [RepairShelves -> [quantity : Int, reserved : Nat, blocked : Nat]]
      BY <1>1 DEF RepairInv, RepairShapes
  <2>2. ledger' \in [RepairShelves -> Int] /\ batched' \in Int
      BY <1>1 DEF RepairInv, RepairShapes
  <2>3. repairs' \in [Menders -> {Idle} \cup Repair]
      BY <1>1, <1>3
  <2> QED
      BY <1>1, <2>1, <2>2, <2>3 DEF RepairInv, RepairShapes
<1>5. HeldBySale' = HeldBySale
    BY <1>1 DEF HeldBySale
<1>6. \A m \in Menders : s \notin FixedBy(m) /\ s \notin TrimmedBy(m)
    BY <1>1 DEF Locked
<1>7. RowsSetRight'
  <2> SUFFICES ASSUME NEW m \in Menders, repairs'[m] # Idle, NEW t \in RepairShelves,
                      t \in DOMAIN repairs'[m].fixed
               PROVE  /\ t \notin HeldBySale'
                      /\ t \notin repairs'[m].stale => repairs'[m].fixed[t] = ledger'[t]
      BY DEF RowsSetRight, SetRight
  <2>1. repairs[m] # Idle /\ t \in DOMAIN repairs[m].fixed
      BY <1>3
  <2>2. t # s
      BY <1>6, <2>1 DEF FixedBy
  <2>3. ledger'[t] = ledger[t]
      BY <1>1, <2>2 DEF RepairInv, RepairShapes
  <2> QED
      BY <1>3, <1>5, <2>1, <2>3 DEF RepairInv, RowsSetRight, SetRight
<1>8. RepairedAgrees'
    BY <1>1, <1>2 DEF RepairInv, RepairedAgrees
<1>9. HoldsCutRight'
  <2> SUFFICES ASSUME NEW m \in Menders, repairs'[m].at = "end", NEW t \in RepairShelves
               PROVE  CutRight(repairs'[m], rows'[t], t)
      BY DEF HoldsCutRight
  <2>1. repairs[m] # Idle /\ repairs[m].at = "end"
      BY <1>3 DEF Idle
  <2>2. CutRight(repairs[m], rows[t], t)
      BY <2>1 DEF RepairInv, HoldsCutRight
  <2>3. t = s => t \notin DOMAIN repairs[m].fixed /\ t \notin DOMAIN repairs[m].trimmed
      BY <1>6, <2>1 DEF FixedBy, TrimmedBy
  <2>4. t # s => rows'[t] = rows[t]
      BY <1>1 DEF RepairInv, RepairShapes
  <2> QED
      BY <1>2, <1>3, <2>1, <2>2, <2>3, <2>4 DEF CutRight, BlockedLeft, QuantityLeft
<1> QED
    BY <1>4, <1>7, <1>8, <1>9 DEF RepairInv

LEMMA HoldsHolds ==
    ASSUME RepairInv, NEW s \in RepairShelves, NEW kind \in {"order", "quarantine"}, Holds(s, kind)
    PROVE  RepairInv'
<1>1. /\ rows' = IF kind = "order" THEN [rows EXCEPT ![s].reserved = @ + 1]
                 ELSE [rows EXCEPT ![s].blocked = @ + 1]
      /\ UNCHANGED <<ledger, batched, sales, repairs, astray>> /\ ~Locked(s)
      /\ rows[s].quantity - rows[s].reserved - rows[s].blocked >= 1
    BY DEF Holds
<1>2. \A t \in RepairShelves :
          /\ rows[t].quantity \in Int /\ rows[t].reserved \in Nat /\ rows[t].blocked \in Nat
          /\ rows'[t].quantity = rows[t].quantity
          /\ t # s => rows'[t] = rows[t]
    BY <1>1 DEF RepairInv, RepairShapes
<1>3. rows'[s].reserved + rows'[s].blocked = rows[s].reserved + rows[s].blocked + 1
  <2>1. CASE kind = "order"
    <3>1. rows'[s].reserved = rows[s].reserved + 1 /\ rows'[s].blocked = rows[s].blocked
        BY <1>1, <2>1 DEF RepairInv, RepairShapes
    <3> QED
        BY <1>2, <3>1
  <2>2. CASE kind # "order"
    <3>1. rows'[s].reserved = rows[s].reserved /\ rows'[s].blocked = rows[s].blocked + 1
        BY <1>1, <2>2 DEF RepairInv, RepairShapes
    <3> QED
        BY <1>2, <3>1
  <2> QED
      BY <2>1, <2>2
<1>4. RepairShapes'
  <2>1. rows' \in [RepairShelves -> [quantity : Int, reserved : Nat, blocked : Nat]]
      BY <1>1 DEF RepairInv, RepairShapes
  <2> QED
      BY <1>1, <2>1 DEF RepairInv, RepairShapes
<1>5. RowsSetRight'
    BY <1>1 DEF RepairInv, RowsSetRight, SetRight, HeldBySale
<1>6. RepairedAgrees'
    BY <1>1, <1>2 DEF RepairInv, RepairedAgrees
<1>7. HoldsCutRight'
  <2> SUFFICES ASSUME NEW m \in Menders, repairs[m].at = "end", NEW t \in RepairShelves
               PROVE  CutRight(repairs[m], rows'[t], t)
      BY <1>1 DEF HoldsCutRight
  <2>1. repairs[m] # Idle
      BY DEF Idle
  <2>2. CutRight(repairs[m], rows[t], t)
      BY DEF RepairInv, HoldsCutRight
  <2>3. CASE t = s
    <3>1. s \notin DOMAIN repairs[m].fixed /\ s \notin DOMAIN repairs[m].trimmed
        BY <1>1, <2>1 DEF Locked, FixedBy, TrimmedBy
    <3>2. rows'[s].reserved + rows'[s].blocked <= rows'[s].quantity
        BY <1>1, <1>2, <1>3
    <3> QED
        BY <2>3, <3>1, <3>2 DEF CutRight, BlockedLeft, QuantityLeft
  <2>4. CASE t # s
      BY <1>2, <2>2, <2>4
  <2> QED
      BY <2>3, <2>4
<1> QED
    BY <1>4, <1>5, <1>6, <1>7 DEF RepairInv

-----------------------------------------------------------------------------
(* The repair. *)

\* A repair's own record changes, and nothing else of what others see.
LEMMA RepairChanges ==
    ASSUME RepairInv, NEW m \in Menders, NEW r \in Repair,
           repairs' = [repairs EXCEPT ![m] = r],
           UNCHANGED <<rows, ledger, batched, sales, astray>>,
           \A s \in RepairShelves : SetRight(r, s),
           r.at = "end" => \A s \in RepairShelves : CutRight(r, rows[s], s)
    PROVE  RepairInv'
<1>1. \A n \in Menders : repairs'[n] = IF n = m THEN r ELSE repairs[n]
    BY DEF RepairInv, RepairShapes
<1>2. RepairShapes'
    BY DEF RepairInv, RepairShapes
<1>3. HeldBySale' = HeldBySale
    BY DEF HeldBySale
<1>4. \A n \in Menders : repairs'[n] # Idle => \A s \in RepairShelves : SetRight(repairs'[n], s)
    BY <1>1 DEF RepairInv, RowsSetRight
<1>5. RowsSetRight'
    BY <1>3, <1>4 DEF RowsSetRight, SetRight
<1>6. HoldsCutRight'
    BY <1>1 DEF RepairInv, HoldsCutRight
<1>7. RepairedAgrees'
    BY DEF RepairInv, RepairedAgrees
<1> QED
    BY <1>2, <1>5, <1>6, <1>7 DEF RepairInv

LEMMA RepairReadsHolds ==
    ASSUME RepairInv, NEW m \in Menders, RepairReads(m)
    PROVE  RepairInv'
<1>1. PICK listed : listed = {s \in RepairShelves : rows[s].quantity # ledger[s]}
    OBVIOUS
<1>2. PICK excess : excess = NotNegative(batched - Sum([s \in RepairShelves |-> rows[s].quantity]))
    OBVIOUS
<1>3. PICK r : r = [at |-> "rows", listed |-> listed, missing |-> listed \cap absent,
                    ledger |-> ledger, sum |-> 0, waiting |-> {}, excess |-> excess,
                    fixed |-> Empty, trimmed |-> Empty, sold |-> {}, stale |-> {}, crossed |-> FALSE]
    OBVIOUS
<1>4. /\ repairs' = [repairs EXCEPT ![m] = r]
      /\ UNCHANGED <<rows, ledger, batched, sales, astray>>
    BY <1>1, <1>2, <1>3 DEF RepairReads
<1>5. Empty \in Figures(Int) /\ Empty \in Figures(Nat) /\ DOMAIN Empty = {}
  <2>1. Empty \in [{} -> Int] /\ Empty \in [{} -> Nat]
      BY DEF Empty
  <2> QED
      BY <2>1 DEF Figures
<1>6. excess \in Int
  <2>1. Sum([s \in RepairShelves |-> rows[s].quantity]) \in Int /\ batched \in Int
      BY SumOfRows DEF RepairInv, RepairShapes
  <2> QED
      BY <1>2, <2>1 DEF NotNegative
<1>7. /\ ledger \in [RepairShelves -> Int] /\ listed \in SUBSET RepairShelves
      /\ listed \cap absent \in SUBSET RepairShelves
    BY <1>1 DEF RepairInv, RepairShapes
<1>8. r \in Repair /\ r.fixed = Empty /\ r.at = "rows"
    BY <1>3, <1>5, <1>6, <1>7 DEF Repair
<1>9. \A s \in RepairShelves : SetRight(r, s)
    BY <1>5, <1>8 DEF SetRight
<1> QED
    BY <1>4, <1>8, <1>9, RepairChanges

LEMMA RepairSetsHolds ==
    ASSUME RepairInv, NEW m \in Menders, NEW s \in RepairShelves, RepairSets(m, s)
    PROVE  RepairInv'
<1>1. PICK r : r = repairs[m]
    OBVIOUS
<1>2. r \in Repair /\ r.at = "rows" /\ repairs[m] # Idle
    BY <1>1, RepairOf DEF RepairInv, RepairSets, Idle
<1>3. PICK n : n = SumNow(m, s)
    OBVIOUS
<1>4. n \in Int /\ n = ledger[s]
    BY <1>3 DEF SumNow, RepairInv, RepairShapes
<1>5. UNCHANGED <<rows, ledger, batched, sales, astray>>
    BY DEF RepairSets
<1>6. \A t \in RepairShelves : SetRight(r, t)
    BY <1>1, <1>2 DEF RepairInv, RowsSetRight
<1>7. CASE LockedToOthers(m, s)
  <2>1. PICK y : y = [r EXCEPT !.waiting = {s}, !.sum = n]
      OBVIOUS
  <2>2. repairs' = [repairs EXCEPT ![m] = y]
      BY <1>1, <1>3, <1>7, <2>1 DEF RepairSets
  <2>3. y \in Repair /\ y.fixed = r.fixed /\ y.stale = r.stale /\ y.at = "rows"
      BY <1>2, <1>4, <2>1 DEF Repair
  <2>4. \A t \in RepairShelves : SetRight(y, t)
      BY <1>6, <2>3 DEF SetRight
  <2> QED
      BY <1>5, <2>2, <2>3, <2>4, RepairChanges
<1>8. CASE ~LockedToOthers(m, s)
  <2>1. PICK f : f = With(r.fixed, s, n)
      OBVIOUS
  <2>2. r.fixed \in Figures(Int)
      BY <1>2 DEF Repair
  <2>3. /\ f \in Figures(Int) /\ DOMAIN f = DOMAIN r.fixed \cup {s}
        /\ f[s] = n /\ \A t \in DOMAIN r.fixed \ {s} : f[t] = r.fixed[t]
    <3>1. /\ With(r.fixed, s, n) \in Figures(Int) /\ DOMAIN With(r.fixed, s, n) = DOMAIN r.fixed \cup {s}
          /\ With(r.fixed, s, n)[s] = n
          /\ \A t \in DOMAIN r.fixed \ {s} : With(r.fixed, s, n)[t] = r.fixed[t]
        BY <1>4, <2>2, WithOne, Zenon
    <3> QED
        BY <2>1, <3>1, Zenon
  <2>4. PICK y : y = [r EXCEPT !.fixed = f]
      OBVIOUS
  <2>5. repairs' = [repairs EXCEPT ![m] = y]
      BY <1>1, <1>3, <1>8, <2>1, <2>4 DEF RepairSets
  <2>6. y \in Repair /\ y.fixed = f /\ y.stale = r.stale /\ y.at = "rows"
      BY <1>2, <2>3, <2>4 DEF Repair
  <2>7. s \notin HeldBySale
      BY <1>8 DEF LockedToOthers
  <2>8. \A t \in RepairShelves : SetRight(y, t)
      BY <1>4, <1>6, <2>3, <2>6, <2>7 DEF SetRight
  <2> QED
      BY <1>5, <2>5, <2>6, <2>8, RepairChanges
<1> QED
    BY <1>7, <1>8

LEMMA RepairSetsAfterWaitHolds ==
    ASSUME RepairInv, NEW m \in Menders, NEW s \in RepairShelves, RepairSetsAfterWait(m, s)
    PROVE  RepairInv'
<1>1. PICK r : r = repairs[m]
    OBVIOUS
<1>2. r \in Repair /\ r.at = "rows" /\ repairs[m] # Idle
    BY <1>1, RepairOf DEF RepairInv, RepairSetsAfterWait, Idle
<1>3. UNCHANGED <<rows, ledger, batched, sales, astray>> /\ ~LockedToOthers(m, s)
    BY DEF RepairSetsAfterWait
<1>4. \A t \in RepairShelves : SetRight(r, t)
    BY <1>1, <1>2 DEF RepairInv, RowsSetRight
<1>5. r.fixed \in Figures(Int) /\ r.sum \in Int /\ r.stale \subseteq RepairShelves
    BY <1>2 DEF Repair
<1>6. PICK f : f = With(r.fixed, s, r.sum)
    OBVIOUS
<1>7. /\ f \in Figures(Int) /\ DOMAIN f = DOMAIN r.fixed \cup {s}
      /\ \A t \in DOMAIN r.fixed \ {s} : f[t] = r.fixed[t]
  <2>1. /\ With(r.fixed, s, r.sum) \in Figures(Int)
        /\ DOMAIN With(r.fixed, s, r.sum) = DOMAIN r.fixed \cup {s}
        /\ \A t \in DOMAIN r.fixed \ {s} : With(r.fixed, s, r.sum)[t] = r.fixed[t]
      BY <1>5, WithOne, Zenon
  <2> QED
      BY <1>6, <2>1, Zenon
<1>8. PICK y : y = [r EXCEPT !.waiting = {}, !.sum = 0, !.fixed = f, !.stale = r.stale \cup {s}]
    OBVIOUS
<1>9. repairs' = [repairs EXCEPT ![m] = y]
    BY <1>1, <1>2, <1>6, <1>8 DEF RepairSetsAfterWait, RepairInv, RepairShapes
<1>10. y \in Repair /\ y.fixed = f /\ y.stale = r.stale \cup {s} /\ y.at = "rows"
  <2>1. PICK older : older = r.stale \cup {s}
      OBVIOUS
  <2>2. older \in SUBSET RepairShelves
      BY <1>5, <2>1
  <2>3. y = [r EXCEPT !.waiting = {}, !.sum = 0, !.fixed = f, !.stale = older]
      BY <1>8, <2>1
  <2>4. PICK x : x = [r EXCEPT !.waiting = {}, !.sum = 0]
      OBVIOUS
  <2>9. PICK none : none = {}
      OBVIOUS
  <2>10. PICK zero : zero = 0
      OBVIOUS
  <2>11. none \in SUBSET RepairShelves /\ zero \in Int
      BY <2>9, <2>10
  <2>5. x \in Repair /\ x.at = "rows"
    <3>1. x = [r EXCEPT !.waiting = none, !.sum = zero]
        BY <2>4, <2>9, <2>10
    <3> QED
        BY <1>2, <2>11, <3>1 DEF Repair
  <2>6. PICK z : z = [x EXCEPT !.fixed = f, !.stale = older]
      OBVIOUS
  <2>7. z \in Repair /\ z.fixed = f /\ z.stale = older /\ z.at = "rows"
      BY <1>7, <2>2, <2>5, <2>6 DEF Repair
  <2>8. y = z
      BY <1>2, <2>3, <2>4, <2>6 DEF Repair
  <2> QED
      BY <2>1, <2>7, <2>8
<1>11. s \notin HeldBySale
    BY <1>3 DEF LockedToOthers
<1>12. \A t \in RepairShelves : SetRight(y, t)
    BY <1>4, <1>7, <1>10, <1>11 DEF SetRight
<1> QED
    BY <1>3, <1>9, <1>10, <1>12, RepairChanges

\* The row that is made has what was read, which is what was moved.
LEMMA RepairCreatesHolds ==
    ASSUME RepairInv, AbsentInv, NEW m \in Menders, NEW s \in RepairShelves, RepairCreates(m, s)
    PROVE  RepairInv'
<1>1. PICK r : r = repairs[m]
    OBVIOUS
<1>2. r \in Repair /\ r.at = "rows" /\ repairs[m] # Idle
    BY <1>1, RepairOf DEF RepairInv, RepairCreates, Idle
<1>3. PICK n : n = r.ledger[s]
    OBVIOUS
<1>4. n \in Int /\ n = ledger[s]
  <2>1. s \in r.missing \cap absent
      BY <1>1 DEF RepairCreates
  <2>2. r.ledger[s] = ledger[s]
      BY <1>1, <1>2, <2>1 DEF AbsentInv
  <2> QED
      BY <1>3, <2>2 DEF RepairInv, RepairShapes
<1>5. UNCHANGED <<rows, ledger, batched, sales, astray>>
    BY DEF RepairCreates
<1>6. \A t \in RepairShelves : SetRight(r, t)
    BY <1>1, <1>2 DEF RepairInv, RowsSetRight
<1>7. PICK f : f = With(r.fixed, s, n)
    OBVIOUS
<1>8. r.fixed \in Figures(Int)
    BY <1>2 DEF Repair
<1>9. /\ f \in Figures(Int) /\ DOMAIN f = DOMAIN r.fixed \cup {s}
      /\ f[s] = n /\ \A t \in DOMAIN r.fixed \ {s} : f[t] = r.fixed[t]
  <2>1. /\ With(r.fixed, s, n) \in Figures(Int) /\ DOMAIN With(r.fixed, s, n) = DOMAIN r.fixed \cup {s}
        /\ With(r.fixed, s, n)[s] = n
        /\ \A t \in DOMAIN r.fixed \ {s} : With(r.fixed, s, n)[t] = r.fixed[t]
      BY <1>4, <1>8, WithOne, Zenon
  <2> QED
      BY <1>7, <2>1, Zenon
<1>10. PICK y : y = [r EXCEPT !.fixed = f]
    OBVIOUS
<1>11. repairs' = [repairs EXCEPT ![m] = y]
    BY <1>1, <1>3, <1>7, <1>10 DEF RepairCreates
<1>12. y \in Repair /\ y.fixed = f /\ y.stale = r.stale /\ y.at = "rows"
    BY <1>2, <1>9, <1>10 DEF Repair
<1>13. s \notin HeldBySale
    BY DEF RepairCreates, LockedToOthers
<1>14. \A t \in RepairShelves : SetRight(y, t)
    BY <1>4, <1>6, <1>9, <1>12, <1>13 DEF SetRight
<1> QED
    BY <1>5, <1>11, <1>12, <1>14, RepairChanges

LEMMA RepairFailsHolds ==
    ASSUME RepairInv, NEW m \in Menders, RepairFails(m)
    PROVE  RepairInv'
<1>1. repairs' = [repairs EXCEPT ![m] = Idle] /\ UNCHANGED <<rows, ledger, batched, sales, astray>>
    BY DEF RepairFails
<1>2. \A n \in Menders : repairs'[n] = IF n = m THEN Idle ELSE repairs[n]
    BY <1>1 DEF RepairInv, RepairShapes
<1>3. RepairShapes'
    BY <1>1 DEF RepairInv, RepairShapes
<1>4. HeldBySale' = HeldBySale
    BY <1>1 DEF HeldBySale
<1>5. RowsSetRight'
    BY <1>1, <1>2, <1>4 DEF RepairInv, RowsSetRight, SetRight
<1>6. HoldsCutRight'
    BY <1>1, <1>2 DEF RepairInv, HoldsCutRight, Idle
<1>7. RepairedAgrees'
    BY <1>1 DEF RepairInv, RepairedAgrees
<1> QED
    BY <1>3, <1>5, <1>6, <1>7 DEF RepairInv

LEMMA RepairReadsBatchesHolds ==
    ASSUME RepairInv, NEW m \in Menders, RepairReadsBatches(m)
    PROVE  RepairInv'
<1>1. PICK r : r = repairs[m]
    OBVIOUS
<1>2. r \in Repair /\ repairs[m] # Idle
    BY <1>1, RepairOf DEF RepairInv, RepairReadsBatches, Idle
<1>3. UNCHANGED <<rows, ledger, batched, sales, astray>> /\ batched \in Int
    BY DEF RepairReadsBatches, RepairInv, RepairShapes
<1>4. PICK y : y = [r EXCEPT !.at = "batches", !.sum = batched]
    OBVIOUS
<1>5. repairs' = [repairs EXCEPT ![m] = y]
    BY <1>1, <1>2, <1>4 DEF RepairReadsBatches, RepairInv, RepairShapes
<1>6. y \in Repair /\ y.fixed = r.fixed /\ y.stale = r.stale /\ y.at = "batches"
    BY <1>2, <1>3, <1>4 DEF Repair
<1>7. \A t \in RepairShelves : SetRight(y, t)
    BY <1>1, <1>2, <1>6 DEF RepairInv, RowsSetRight, SetRight
<1> QED
    BY <1>3, <1>5, <1>6, <1>7, RepairChanges

LEMMA RepairReadsRowsHolds ==
    ASSUME RepairInv, NEW m \in Menders, RepairReadsRows(m)
    PROVE  RepairInv'
<1>1. PICK r : r = repairs[m]
    OBVIOUS
<1>2. r \in Repair /\ repairs[m] # Idle /\ r.sum \in Int
    BY <1>1, RepairOf DEF RepairInv, RepairReadsRows, Idle, Repair
<1>3. UNCHANGED <<rows, ledger, batched, sales, astray>> /\ batched \in Int
    BY DEF RepairReadsRows, RepairInv, RepairShapes
<1>4. PICK n : n = ExcessNow(m)
    OBVIOUS
<1>5. n \in Int
  <2>1. Sum([s \in RepairShelves |-> QuantityTo(m, s)]) \in Int
      BY <1>2, SumSeen DEF RepairInv
  <2> QED
      BY <1>1, <1>2, <1>3, <1>4, <2>1 DEF ExcessNow, Lesser, NotNegative
<1>6. PICK y : y = [r EXCEPT !.at = "holds", !.excess = n, !.sold = {}]
    OBVIOUS
<1>7. repairs' = [repairs EXCEPT ![m] = y]
    BY <1>1, <1>2, <1>4, <1>6 DEF RepairReadsRows, RepairInv, RepairShapes
<1>8. y \in Repair /\ y.fixed = r.fixed /\ y.stale = r.stale /\ y.at = "holds"
    BY <1>2, <1>5, <1>6 DEF Repair
<1>9. \A t \in RepairShelves : SetRight(y, t)
    BY <1>1, <1>2, <1>8 DEF RepairInv, RowsSetRight, SetRight
<1> QED
    BY <1>3, <1>7, <1>8, <1>9, RepairChanges

LEMMA RepairTrimsHolds ==
    ASSUME RepairInv, NEW m \in Menders, RepairTrims(m)
    PROVE  RepairInv'
<1>1. PICK r : r = repairs[m]
    OBVIOUS
<1>2. r \in Repair /\ repairs[m] # Idle
    BY <1>1, RepairOf DEF RepairInv, RepairTrims, Idle
<1>3. UNCHANGED <<rows, ledger, batched, sales, astray>>
    BY DEF RepairTrims
<1>4. PICK cut : cut = {s \in RepairShelves : Overheld(m, s)}
    OBVIOUS
<1>5. PICK f : f = [s \in cut |-> Lesser(rows[s].blocked, RoomToBlock(m, s))]
    OBVIOUS
<1>6. \A s \in RepairShelves :
          /\ QuantityTo(m, s) = QuantityLeft(r, rows[s], s) /\ QuantityTo(m, s) \in Int
          /\ rows[s].reserved \in Nat /\ rows[s].blocked \in Nat
    BY <1>1, <1>2, QuantitySeen DEF RepairInv, RepairShapes
<1>7. \A s \in cut : f[s] \in Nat /\ f[s] <= rows[s].blocked
                    /\ (rows[s].reserved + f[s] <= QuantityTo(m, s) \/ f[s] = 0)
  <2> SUFFICES ASSUME NEW s \in cut
               PROVE  /\ f[s] \in Nat /\ f[s] <= rows[s].blocked
                      /\ (rows[s].reserved + f[s] <= QuantityTo(m, s) \/ f[s] = 0)
      OBVIOUS
  <2>1. s \in RepairShelves /\ f[s] = Lesser(rows[s].blocked, RoomToBlock(m, s))
      BY <1>4, <1>5
  <2>2. QuantityTo(m, s) \in Int /\ rows[s].reserved \in Nat /\ rows[s].blocked \in Nat
      BY <1>6, <2>1
  <2> QED
      BY <2>1, <2>2 DEF Lesser, RoomToBlock, NotNegative
<1>8. f \in Figures(Nat) /\ DOMAIN f = cut
  <2>1. f \in [cut -> Nat] /\ cut \in SUBSET RepairShelves
      BY <1>4, <1>5, <1>7
  <2> QED
      BY <2>1 DEF Figures
<1>9. PICK y : y = [r EXCEPT !.at = "end", !.sold = {}, !.trimmed = f]
    OBVIOUS
<1>10. repairs' = [repairs EXCEPT ![m] = y]
    BY <1>1, <1>2, <1>4, <1>5, <1>9 DEF RepairTrims, RepairInv, RepairShapes
<1>11. y \in Repair /\ y.fixed = r.fixed /\ y.stale = r.stale /\ y.trimmed = f /\ y.sold = {}
    BY <1>2, <1>8, <1>9 DEF Repair
<1>12. \A t \in RepairShelves : SetRight(y, t)
    BY <1>1, <1>2, <1>11 DEF RepairInv, RowsSetRight, SetRight
<1>13. \A t \in RepairShelves : CutRight(y, rows[t], t)
  <2> SUFFICES ASSUME NEW t \in RepairShelves PROVE CutRight(y, rows[t], t)
      OBVIOUS
  <2>1. QuantityLeft(y, rows[t], t) = QuantityTo(m, t)
      BY <1>6, <1>11 DEF QuantityLeft
  <2>2. CASE t \in cut
      BY <1>7, <1>8, <1>11, <2>1, <2>2 DEF CutRight, BlockedLeft
  <2>3. CASE t \notin cut
    <3>1. rows[t].reserved + rows[t].blocked <= QuantityTo(m, t)
        BY <1>4, <1>6, <2>3 DEF Overheld
    <3> QED
        BY <1>8, <1>11, <2>1, <2>3, <3>1 DEF CutRight, BlockedLeft
  <2> QED
      BY <2>2, <2>3
<1> QED
    BY <1>3, <1>10, <1>11, <1>12, <1>13, RepairChanges

\* What a repair leaves, one lemma for each thing that is told of it below.
LEMMA RepairAtItsEnd ==
    ASSUME NEW m \in Menders, RepairEnds(m)
    PROVE  repairs[m].at = "end" /\ \A s \in FixedBy(m) \cup TrimmedBy(m) : ~LockedToOthers(m, s)
BY Zenon DEF RepairEnds

LEMMA RowsAfterRepair ==
    ASSUME NEW m \in Menders, RepairEnds(m)
    PROVE  rows' = [s \in RepairShelves |->
               [rows[s] EXCEPT !.quantity = QuantityTo(m, s),
                               !.blocked = IF s \in TrimmedBy(m) THEN repairs[m].trimmed[s] ELSE rows[s].blocked]]
BY Zenon DEF RepairEnds

LEMMA RowsMadeByRepair ==
    ASSUME NEW m \in Menders, RepairEnds(m)
    PROVE  absent' = absent \ FixedBy(m)
BY Zenon DEF RepairEnds

LEMMA BatchesAfterRepair ==
    ASSUME NEW m \in Menders, RepairEnds(m)
    PROVE  batched' = batched - repairs[m].excess
BY Zenon DEF RepairEnds

LEMMA AstrayAfterRepair ==
    ASSUME NEW m \in Menders, RepairEnds(m)
    PROVE  astray' = (astray \ FixedBy(m)) \cup repairs[m].stale
BY Zenon DEF RepairEnds

LEMMA RepairsAfterRepair ==
    ASSUME NEW m \in Menders, RepairEnds(m)
    PROVE  repairs' = [n \in Menders |->
               IF n = m THEN Idle
               ELSE IF repairs[n] # Idle /\ repairs[m].stale # {} THEN [repairs[n] EXCEPT !.crossed = TRUE]
               ELSE repairs[n]]
BY Zenon DEF RepairEnds

LEMMA BooksAfterRepair ==
    ASSUME NEW m \in Menders, RepairEnds(m)
    PROVE  ledger' = ledger /\ sales' = sales
BY Zenon DEF RepairEnds

\* A row after a repair.
LEMMA RowAfterRepair ==
    ASSUME RepairInv, NEW m \in Menders, RepairEnds(m), NEW s \in RepairShelves
    PROVE  /\ rows'[s].quantity = QuantityLeft(repairs[m], rows[s], s) /\ rows'[s].quantity \in Int
           /\ rows'[s].reserved = rows[s].reserved /\ rows[s].reserved \in Nat
           /\ rows'[s].blocked = BlockedLeft(repairs[m], rows[s], s) /\ rows'[s].blocked \in Nat
           /\ rows'[s] \in [quantity : Int, reserved : Nat, blocked : Nat]
           /\ repairs[m] \in Repair /\ CutRight(repairs[m], rows[s], s)
           /\ (s \notin FixedBy(m) \cup TrimmedBy(m) => rows'[s] = rows[s])
<1>1. repairs[m] \in Repair /\ repairs[m] # Idle /\ CutRight(repairs[m], rows[s], s)
    BY RepairAtItsEnd, RepairOf DEF RepairInv, Idle, HoldsCutRight
<1>2. /\ FixedBy(m) = DOMAIN repairs[m].fixed /\ TrimmedBy(m) = DOMAIN repairs[m].trimmed
      /\ \A t \in TrimmedBy(m) : repairs[m].trimmed[t] \in Nat
    BY <1>1, RepairOf DEF RepairInv
<1>3. PICK row : row = rows[s]
    OBVIOUS
<1>4. row \in [quantity : Int, reserved : Nat, blocked : Nat]
    BY <1>3 DEF RepairInv, RepairShapes
<1>5. PICK q : q = QuantityTo(m, s)
    OBVIOUS
<1>6. q \in Int /\ q = QuantityLeft(repairs[m], row, s)
    BY <1>1, <1>3, <1>5, QuantitySeen DEF RepairInv
<1>7. PICK b : b = BlockedLeft(repairs[m], row, s)
    OBVIOUS
<1>8. b \in Nat
    BY <1>2, <1>4, <1>7 DEF BlockedLeft
<1>9. rows'[s] = [row EXCEPT !.quantity = q, !.blocked = b]
  <2>1. rows'[s] = [row EXCEPT !.quantity = q,
                               !.blocked = IF s \in TrimmedBy(m) THEN repairs[m].trimmed[s] ELSE row.blocked]
      BY <1>3, <1>5, RowsAfterRepair, Zenon
  <2> QED
      BY <1>2, <1>7, <2>1 DEF BlockedLeft
<1>10. /\ rows'[s].quantity = q /\ rows'[s].reserved = row.reserved /\ rows'[s].blocked = b
       /\ rows'[s] \in [quantity : Int, reserved : Nat, blocked : Nat]
    BY <1>4, <1>6, <1>8, <1>9
<1>11. s \notin FixedBy(m) \cup TrimmedBy(m) => rows'[s] = row
  <2>1. s \notin FixedBy(m) \cup TrimmedBy(m) => q = row.quantity /\ b = row.blocked
      BY <1>2, <1>6, <1>7 DEF QuantityLeft, BlockedLeft
  <2> QED
      BY <1>4, <1>9, <2>1
<1> QED
    BY <1>1, <1>3, <1>4, <1>6, <1>7, <1>8, <1>10, <1>11

\* The other repairs after a repair.
LEMMA OthersAfterRepair ==
    ASSUME RepairShapes, NEW m \in Menders, RepairEnds(m), NEW n \in Menders
    PROVE  /\ n = m \/ repairs[n] = Idle => repairs'[n] = Idle
           /\ n # m /\ repairs[n] # Idle =>
                 /\ repairs'[n] \in Repair /\ repairs'[n] # Idle /\ repairs'[n].at = repairs[n].at
                 /\ repairs'[n].listed = repairs[n].listed /\ repairs'[n].sum = repairs[n].sum
                 /\ repairs'[n].excess = repairs[n].excess
                 /\ repairs'[n].fixed = repairs[n].fixed /\ repairs'[n].trimmed = repairs[n].trimmed
                 /\ repairs'[n].stale = repairs[n].stale /\ repairs'[n].sold = repairs[n].sold
                 /\ (repairs[n].crossed \/ repairs[m].stale # {} => repairs'[n].crossed)
                 /\ repairs'[n].missing = repairs[n].missing /\ repairs'[n].ledger = repairs[n].ledger
<1>1. repairs'[n] = IF n = m THEN Idle
                    ELSE IF repairs[n] # Idle /\ repairs[m].stale # {}
                    THEN [repairs[n] EXCEPT !.crossed = TRUE] ELSE repairs[n]
    BY RepairsAfterRepair
<1>2. CASE n = m \/ repairs[n] = Idle
    BY <1>1, <1>2
<1>3. CASE n # m /\ repairs[n] # Idle
  <2>1. PICK r : r = repairs[n]
      OBVIOUS
  <2>2. r \in Repair
      BY <1>3, <2>1, RepairOf
  <2>3. PICK y : y = repairs'[n]
      OBVIOUS
  <2>4. y = r \/ y = [r EXCEPT !.crossed = TRUE]
      BY <1>1, <1>3, <2>1, <2>3
  <2>5. repairs[m].stale # {} => y.crossed
      BY <1>1, <1>3, <2>1, <2>2, <2>3 DEF Repair
  <2> QED
      BY <1>3, <2>1, <2>2, <2>3, <2>4, <2>5, MarkedAsCrossed
<1> QED
    BY <1>2, <1>3

LEMMA RepairEndsHolds ==
    ASSUME RepairInv, NEW m \in Menders, RepairEnds(m)
    PROVE  RepairInv'
<1>1. PICK r : r = repairs[m]
    OBVIOUS
<1>2. r \in Repair /\ repairs[m] # Idle /\ r.excess \in Int /\ r.stale \subseteq RepairShelves
    BY <1>1, RepairAtItsEnd, RepairOf DEF RepairInv, Idle, Repair
<1>3. FixedBy(m) = DOMAIN r.fixed /\ TrimmedBy(m) = DOMAIN r.trimmed
    BY <1>1, <1>2, RepairOf DEF RepairInv
<1>4. /\ batched' = batched - r.excess /\ astray' = (astray \ FixedBy(m)) \cup r.stale
      /\ ledger' = ledger /\ sales' = sales
    BY <1>1, BatchesAfterRepair, AstrayAfterRepair, BooksAfterRepair
<1>5. \A n \in Menders :
          /\ n = m \/ repairs[n] = Idle => repairs'[n] = Idle
          /\ n # m /\ repairs[n] # Idle =>
                /\ repairs'[n] \in Repair /\ repairs'[n].at = repairs[n].at
                /\ repairs'[n].fixed = repairs[n].fixed /\ repairs'[n].trimmed = repairs[n].trimmed
                /\ repairs'[n].stale = repairs[n].stale /\ repairs'[n].sold = repairs[n].sold
    BY OthersAfterRepair DEF RepairInv
<1>6. RepairShapes'
  <2>1. rows' \in [RepairShelves -> [quantity : Int, reserved : Nat, blocked : Nat]]
    <3>1. rows' = [s \in RepairShelves |-> rows'[s]]
        BY RowsAfterRepair, Zenon
    <3>2. \A s \in RepairShelves : rows'[s] \in [quantity : Int, reserved : Nat, blocked : Nat]
        BY RowAfterRepair
    <3> QED
        BY <3>1, <3>2
  <2>2. batched' \in Int /\ ledger' \in [RepairShelves -> Int] /\ astray' \subseteq RepairShelves
      BY <1>2, <1>4 DEF RepairInv, RepairShapes
  <2>3. repairs' \in [Menders -> {Idle} \cup Repair]
    <3>1. repairs' = [n \in Menders |-> repairs'[n]]
        BY RepairsAfterRepair
    <3>2. \A n \in Menders : repairs'[n] \in {Idle} \cup Repair
        BY <1>5
    <3> QED
        BY <3>1, <3>2
  <2> QED
      BY <1>4, <2>1, <2>2, <2>3 DEF RepairInv, RepairShapes
<1>7. RowsSetRight'
  <2>1. HeldBySale' = HeldBySale
      BY <1>4 DEF HeldBySale
  <2> QED
      BY <1>4, <1>5, <2>1 DEF RepairInv, RowsSetRight, SetRight
<1>8. RepairedAgrees'
  <2> SUFFICES ASSUME NEW s \in RepairShelves, s \notin astray' PROVE rows'[s].quantity = ledger[s]
      BY <1>4 DEF RepairedAgrees
  <2>1. rows'[s].quantity = QuantityLeft(r, rows[s], s)
      BY <1>1, RowAfterRepair
  <2>2. s \notin r.stale /\ (s \notin DOMAIN r.fixed => s \notin astray)
      BY <1>3, <1>4
  <2>3. SetRight(r, s)
      BY <1>1, <1>2 DEF RepairInv, RowsSetRight
  <2> QED
      BY <2>1, <2>2, <2>3 DEF RepairInv, RepairedAgrees, QuantityLeft, SetRight
<1>9. HoldsCutRight'
  <2> SUFFICES ASSUME NEW n \in Menders, repairs'[n].at = "end", NEW s \in RepairShelves
               PROVE  CutRight(repairs'[n], rows'[s], s)
      BY DEF HoldsCutRight
  <2>1. /\ n # m /\ repairs[n].at = "end" /\ repairs[n] # Idle
        /\ repairs'[n].fixed = repairs[n].fixed /\ repairs'[n].trimmed = repairs[n].trimmed
        /\ repairs'[n].sold = repairs[n].sold
      BY <1>5 DEF Idle
  <2>2. PICK k : k = repairs[n]
      OBVIOUS
  <2>3. CutRight(k, rows[s], s) /\ FixedBy(n) = DOMAIN k.fixed /\ TrimmedBy(n) = DOMAIN k.trimmed
      BY <2>1, <2>2, RepairOf DEF RepairInv, HoldsCutRight
  <2>4. CASE s \in FixedBy(n) \cup TrimmedBy(n)
    <3>1. s \notin FixedBy(m) \cup TrimmedBy(m)
        BY <2>1, <2>4, RepairAtItsEnd DEF LockedToOthers
    <3>2. rows'[s] = rows[s]
        BY <3>1, RowAfterRepair
    <3> QED
        BY <2>1, <2>2, <2>3, <3>2 DEF CutRight, BlockedLeft, QuantityLeft
  <2>5. CASE s \notin FixedBy(n) \cup TrimmedBy(n)
    <3>1. /\ rows'[s].quantity = QuantityLeft(r, rows[s], s) /\ rows'[s].quantity \in Int
          /\ rows'[s].reserved = rows[s].reserved /\ rows[s].reserved \in Nat
          /\ rows'[s].blocked = BlockedLeft(r, rows[s], s) /\ rows'[s].blocked \in Nat
          /\ CutRight(r, rows[s], s)
        BY <1>1, RowAfterRepair
    <3>2. rows[s].blocked \in Nat /\ rows[s].quantity \in Int
        BY DEF RepairInv, RepairShapes
    <3>3. s \notin k.sold => rows[s].reserved + rows[s].blocked <= rows[s].quantity \/ rows[s].blocked = 0
        BY <2>3, <2>5 DEF CutRight, BlockedLeft, QuantityLeft
    <3>4. s \notin k.sold =>
              rows'[s].reserved + rows'[s].blocked <= rows'[s].quantity \/ rows'[s].blocked = 0
      <4>1. CASE s \in DOMAIN r.fixed
          BY <3>1, <4>1 DEF CutRight
      <4>2. CASE s \notin DOMAIN r.fixed
        <5>1. rows'[s].quantity = rows[s].quantity /\ rows'[s].blocked <= rows[s].blocked
            BY <3>1, <3>2, <4>2 DEF CutRight, BlockedLeft, QuantityLeft
        <5> QED
            BY <3>1, <3>2, <3>3, <5>1
      <4> QED
          BY <4>1, <4>2
    <3> QED
        BY <2>1, <2>2, <2>3, <2>5, <3>4 DEF CutRight, BlockedLeft, QuantityLeft
  <2> QED
      BY <2>4, <2>5
<1> QED
    BY <1>6, <1>7, <1>8, <1>9 DEF RepairInv

-----------------------------------------------------------------------------
(* Rows that are not there. *)

LEMMA AbsentInvInit == RepairInit => AbsentInv
<1> SUFFICES ASSUME RepairInit PROVE AbsentInv
    OBVIOUS
<1>1. (\A p \in Sellers : sales[p] = Idle) /\ (\A m \in Menders : repairs[m] = Idle)
    BY DEF RepairInit
<1>2. \A s \in absent : s \in RepairShelves /\ rows[s].quantity = 0
    BY DEF RepairInit
<1> QED
    BY <1>1, <1>2 DEF AbsentInv, HeldBySale

\* A step that leaves alone what is not there.
LEMMA AbsentStays ==
    ASSUME AbsentInv, absent' \subseteq absent,
           \A s \in absent' : rows'[s].quantity = 0 /\ s \notin HeldBySale' /\ ledger'[s] = ledger[s],
           \A m \in Menders : repairs'[m] # Idle =>
               /\ repairs[m] # Idle /\ repairs'[m].missing = repairs[m].missing
               /\ repairs'[m].ledger = repairs[m].ledger
    PROVE  AbsentInv'
BY DEF AbsentInv

LEMMA SalesLeaveAbsent ==
    ASSUME RepairInv, AbsentInv, NEW p \in Sellers,
           SaleEnds(p) \/ SaleFails(p) \/ \E s \in RepairShelves : SaleWrites(p, s)
    PROVE  AbsentInv'
<1>1. CASE SaleEnds(p)
  <2>1. PICK s : s = sales[p].shelf
      OBVIOUS
  <2>2. s \in RepairShelves /\ s \in HeldBySale
      BY <1>1, <2>1, SaleOf DEF RepairInv, SaleEnds
  <2>3. /\ rows' = [rows EXCEPT ![s].quantity = @ - 1] /\ ledger' = [ledger EXCEPT ![s] = @ - 1]
        /\ sales' = [sales EXCEPT ![p] = Idle] /\ absent' = absent
        /\ repairs' = [m \in Menders |->
              IF repairs[m] # Idle THEN [repairs[m] EXCEPT !.sold = @ \cup {s}] ELSE Idle]
      BY <1>1, <2>1 DEF SaleEnds
  <2>4. HeldBySale' \subseteq HeldBySale
    <3>1. \A q \in Sellers : sales'[q] # Idle => sales'[q] = sales[q]
        BY <2>3 DEF RepairInv, RepairShapes
    <3> QED
        BY <3>1 DEF HeldBySale
  <2>5. \A t \in absent : t # s /\ rows'[t] = rows[t] /\ ledger'[t] = ledger[t]
      BY <2>2, <2>3 DEF AbsentInv, RepairInv, RepairShapes
  <2>6. ASSUME NEW m \in Menders, repairs'[m] # Idle
        PROVE  /\ repairs[m] # Idle /\ repairs'[m].missing = repairs[m].missing
               /\ repairs'[m].ledger = repairs[m].ledger
    <3>1. repairs[m] # Idle /\ repairs'[m] = [repairs[m] EXCEPT !.sold = @ \cup {s}]
        BY <2>3, <2>6
    <3>2. repairs[m] \in Repair
        BY <3>1, RepairOf DEF RepairInv
    <3> QED
        BY <3>1, <3>2 DEF Repair
  <2>7. \A t \in absent' : rows'[t].quantity = 0 /\ t \notin HeldBySale' /\ ledger'[t] = ledger[t]
      BY <2>3, <2>4, <2>5 DEF AbsentInv
  <2> QED
      BY <2>3, <2>6, <2>7, AbsentStays
<1>2. CASE SaleFails(p)
  <2>1. sales' = [sales EXCEPT ![p] = Idle] /\ UNCHANGED <<rows, absent, ledger, repairs>>
      BY <1>2 DEF SaleFails
  <2>2. \A q \in Sellers : sales'[q] # Idle => sales'[q] = sales[q]
      BY <2>1 DEF RepairInv, RepairShapes
  <2>3. HeldBySale' \subseteq HeldBySale
      BY <2>2 DEF HeldBySale
  <2> QED
      BY <2>1, <2>3 DEF AbsentInv
<1>3. ASSUME NEW s \in RepairShelves, SaleWrites(p, s) PROVE AbsentInv'
  <2>1. PICK x : x = [at |-> "open", shelf |-> s, batch |-> NotNegative(Lesser(1, batched))]
      OBVIOUS
  <2>2. /\ sales' = [sales EXCEPT ![p] = x] /\ x.shelf = s /\ UNCHANGED <<rows, absent, ledger, repairs>>
        /\ rows[s].quantity - rows[s].reserved >= 1
      BY <1>3, <2>1 DEF SaleWrites
  <2>3. s \notin absent
      BY <2>2 DEF AbsentInv, RepairInv, RepairShapes
  <2>4. \A q \in Sellers : sales'[q] = IF q = p THEN x ELSE sales[q]
      BY <2>2 DEF RepairInv, RepairShapes
  <2>5. HeldBySale' \subseteq HeldBySale \cup {s}
      BY <2>2, <2>4 DEF HeldBySale
  <2> QED
      BY <2>2, <2>3, <2>5 DEF AbsentInv
<1> QED
    BY <1>1, <1>2, <1>3

LEMMA GoodsLeaveAbsent ==
    ASSUME RepairInv, AbsentInv, NEW s \in RepairShelves,
           Delivered(s) \/ \E kind \in {"order", "quarantine"} : Holds(s, kind)
    PROVE  AbsentInv'
<1>1. sales' = sales /\ absent' \subseteq absent
    BY DEF Delivered, Holds
<1>2. HeldBySale' = HeldBySale
    BY <1>1 DEF HeldBySale
<1>3. CASE Delivered(s)
  <2>1. /\ rows' = [rows EXCEPT ![s].quantity = @ + 1] /\ ledger' = [ledger EXCEPT ![s] = @ + 1]
        /\ absent' = absent \ {s}
        /\ repairs' = [m \in Menders |->
              IF repairs[m].at = "batches" THEN [repairs[m] EXCEPT !.crossed = TRUE] ELSE repairs[m]]
      BY <1>3 DEF Delivered
  <2>2. \A t \in absent' : t # s /\ rows'[t] = rows[t] /\ ledger'[t] = ledger[t]
      BY <2>1 DEF AbsentInv, RepairInv, RepairShapes
  <2>3. ASSUME NEW m \in Menders, repairs'[m] # Idle
        PROVE  /\ repairs[m] # Idle /\ repairs'[m].missing = repairs[m].missing
               /\ repairs'[m].ledger = repairs[m].ledger
    <3>1. CASE repairs[m].at # "batches"
        BY <2>1, <2>3, <3>1
    <3>2. CASE repairs[m].at = "batches"
      <4>1. repairs[m] \in Repair /\ repairs[m] # Idle
          BY <3>2, RepairOf DEF RepairInv, Idle
      <4>2. repairs'[m] = [repairs[m] EXCEPT !.crossed = TRUE]
          BY <2>1, <3>2
      <4> QED
          BY <4>1, <4>2 DEF Repair
    <3> QED
        BY <3>1, <3>2
  <2>4. \A t \in absent' : rows'[t].quantity = 0 /\ t \notin HeldBySale' /\ ledger'[t] = ledger[t]
      BY <1>1, <1>2, <2>2 DEF AbsentInv
  <2> QED
      BY <1>1, <2>3, <2>4, AbsentStays
<1>4. ASSUME NEW kind \in {"order", "quarantine"}, Holds(s, kind) PROVE AbsentInv'
  <2>1. UNCHANGED <<absent, ledger, repairs>>
      BY <1>4 DEF Holds
  <2>2. \A t \in RepairShelves : rows'[t].quantity = rows[t].quantity
      BY <1>4 DEF Holds, RepairInv, RepairShapes
  <2> QED
      BY <1>2, <2>1, <2>2 DEF AbsentInv
<1> QED
    BY <1>3, <1>4

\* A repair's own step.
LEMMA OwnStepLeavesAbsent ==
    ASSUME AbsentInv, NEW m \in Menders, UNCHANGED <<rows, absent, ledger, sales>>,
           \A n \in Menders \ {m} : repairs'[n] = repairs[n],
           repairs'[m] # Idle =>
               /\ repairs[m] # Idle /\ repairs'[m].missing = repairs[m].missing
               /\ repairs'[m].ledger = repairs[m].ledger
    PROVE  AbsentInv'
<1>1. HeldBySale' = HeldBySale
    BY DEF HeldBySale
<1>2. \A s \in absent' : rows'[s].quantity = 0 /\ s \notin HeldBySale' /\ ledger'[s] = ledger[s]
    BY <1>1 DEF AbsentInv
<1> QED
    BY <1>2, AbsentStays

LEMMA RepairReadsLeavesAbsent ==
    ASSUME RepairInv, AbsentInv, NEW m \in Menders, RepairReads(m)
    PROVE  AbsentInv'
<1>1. UNCHANGED <<rows, absent, ledger, sales>>
    BY DEF RepairReads
<1>2. repairs'[m].missing \subseteq absent /\ repairs'[m].ledger = ledger
    BY DEF RepairReads, RepairInv, RepairShapes
<1>3. \A n \in Menders \ {m} : repairs'[n] = repairs[n]
    BY DEF RepairReads, RepairInv, RepairShapes
<1>4. HeldBySale' = HeldBySale
    BY <1>1 DEF HeldBySale
<1> QED
    BY <1>1, <1>2, <1>3, <1>4 DEF AbsentInv

LEMMA RepairSetsLeavesAbsent ==
    ASSUME RepairInv, AbsentInv, NEW m \in Menders, NEW s \in RepairShelves, RepairSets(m, s)
    PROVE  AbsentInv'
<1>1. PICK r : r = repairs[m]
    OBVIOUS
<1>2. PICK y : y = repairs'[m]
    OBVIOUS
<1>3. r \in Repair /\ repairs[m] # Idle
    BY <1>1, RepairOf DEF RepairInv, RepairSets, Idle
<1>4. /\ UNCHANGED <<rows, absent, ledger, sales>>
      /\ \A n \in Menders \ {m} : repairs'[n] = repairs[n]
    BY DEF RepairSets, RepairInv, RepairShapes
<1>5. CASE LockedToOthers(m, s)
  <2>1. y = [r EXCEPT !.waiting = {s}, !.sum = SumNow(m, s)]
      BY <1>1, <1>2, <1>5 DEF RepairSets, RepairInv, RepairShapes
  <2>2. y.missing = r.missing /\ y.ledger = r.ledger
      BY <1>3, <2>1 DEF Repair
  <2> QED
      BY <1>1, <1>2, <1>3, <1>4, <2>2, OwnStepLeavesAbsent
<1>6. CASE ~LockedToOthers(m, s)
  <2>1. y = [r EXCEPT !.fixed = With(@, s, SumNow(m, s))]
      BY <1>1, <1>2, <1>6 DEF RepairSets, RepairInv, RepairShapes
  <2>2. y.missing = r.missing /\ y.ledger = r.ledger
      BY <1>3, <2>1 DEF Repair
  <2> QED
      BY <1>1, <1>2, <1>3, <1>4, <2>2, OwnStepLeavesAbsent
<1> QED
    BY <1>5, <1>6

LEMMA RepairSetsAfterWaitLeavesAbsent ==
    ASSUME RepairInv, AbsentInv, NEW m \in Menders, NEW s \in RepairShelves, RepairSetsAfterWait(m, s)
    PROVE  AbsentInv'
<1>1. PICK r : r = repairs[m]
    OBVIOUS
<1>2. PICK y : y = repairs'[m]
    OBVIOUS
<1>3. r \in Repair /\ r.at = "rows" /\ repairs[m] # Idle
    BY <1>1, RepairOf DEF RepairInv, RepairSetsAfterWait, Idle
<1>4. /\ UNCHANGED <<rows, absent, ledger, sales>>
      /\ \A n \in Menders \ {m} : repairs'[n] = repairs[n]
    BY DEF RepairSetsAfterWait, RepairInv, RepairShapes
<1>5. y = [r EXCEPT !.waiting = {}, !.sum = 0, !.fixed = With(r.fixed, s, r.sum), !.stale = r.stale \cup {s}]
    BY <1>1, <1>2, <1>3 DEF RepairSetsAfterWait, RepairInv, RepairShapes
<1>6. PICK x : x = [r EXCEPT !.waiting = {}, !.sum = 0]
    OBVIOUS
<1>7. x.missing = r.missing /\ x.ledger = r.ledger /\ DOMAIN x = DOMAIN r
    BY <1>3, <1>6 DEF Repair
<1>8. y = [x EXCEPT !.fixed = With(r.fixed, s, r.sum), !.stale = r.stale \cup {s}]
    BY <1>3, <1>5, <1>6 DEF Repair
<1>9. y.missing = r.missing /\ y.ledger = r.ledger
    BY <1>3, <1>7, <1>8 DEF Repair
<1> QED
    BY <1>1, <1>2, <1>3, <1>4, <1>9, OwnStepLeavesAbsent

LEMMA RepairCreatesLeavesAbsent ==
    ASSUME RepairInv, AbsentInv, NEW m \in Menders, NEW s \in RepairShelves, RepairCreates(m, s)
    PROVE  AbsentInv'
<1>1. PICK r : r = repairs[m]
    OBVIOUS
<1>2. PICK y : y = repairs'[m]
    OBVIOUS
<1>3. r \in Repair /\ repairs[m] # Idle
    BY <1>1, RepairOf DEF RepairInv, RepairCreates, Idle
<1>4. /\ UNCHANGED <<rows, absent, ledger, sales>>
      /\ \A n \in Menders \ {m} : repairs'[n] = repairs[n]
    BY DEF RepairCreates, RepairInv, RepairShapes
<1>5. y = [r EXCEPT !.fixed = With(@, s, r.ledger[s])]
    BY <1>1, <1>2 DEF RepairCreates, RepairInv, RepairShapes
<1>6. y.missing = r.missing /\ y.ledger = r.ledger
    BY <1>3, <1>5 DEF Repair
<1> QED
    BY <1>1, <1>2, <1>3, <1>4, <1>6, OwnStepLeavesAbsent

LEMMA RepairReadsOnLeavesAbsent ==
    ASSUME RepairInv, AbsentInv, NEW m \in Menders,
           RepairReadsBatches(m) \/ RepairReadsRows(m) \/ RepairTrims(m)
    PROVE  AbsentInv'
<1>1. PICK r : r = repairs[m]
    OBVIOUS
<1>2. PICK y : y = repairs'[m]
    OBVIOUS
<1>3. r \in Repair /\ repairs[m] # Idle
    BY <1>1, RepairOf DEF RepairInv, RepairReadsBatches, RepairReadsRows, RepairTrims, Idle
<1>4. /\ UNCHANGED <<rows, absent, ledger, sales>>
      /\ \A n \in Menders \ {m} : repairs'[n] = repairs[n]
    BY DEF RepairReadsBatches, RepairReadsRows, RepairTrims, RepairInv, RepairShapes
<1>5. y.missing = r.missing /\ y.ledger = r.ledger
  <2>1. CASE RepairReadsBatches(m)
    <3>1. y = [r EXCEPT !.at = "batches", !.sum = batched]
        BY <1>1, <1>2, <1>3, <2>1 DEF RepairReadsBatches, RepairInv, RepairShapes
    <3> QED
        BY <1>3, <3>1 DEF Repair
  <2>2. CASE RepairReadsRows(m)
    <3>1. y = [r EXCEPT !.at = "holds", !.excess = ExcessNow(m), !.sold = {}]
        BY <1>1, <1>2, <1>3, <2>2 DEF RepairReadsRows, RepairInv, RepairShapes
    <3> QED
        BY <1>3, <3>1 DEF Repair
  <2>3. CASE RepairTrims(m)
    <3>1. PICK f : f = [s \in {t \in RepairShelves : Overheld(m, t)} |-> Lesser(rows[s].blocked, RoomToBlock(m, s))]
        OBVIOUS
    <3>2. y = [r EXCEPT !.at = "end", !.sold = {}, !.trimmed = f]
        BY <1>1, <1>2, <1>3, <2>3, <3>1 DEF RepairTrims, RepairInv, RepairShapes
    <3> QED
        BY <1>3, <3>2 DEF Repair
  <2> QED
      BY <2>1, <2>2, <2>3
<1> QED
    BY <1>1, <1>2, <1>3, <1>4, <1>5, OwnStepLeavesAbsent

LEMMA RepairFailsLeavesAbsent ==
    ASSUME RepairInv, AbsentInv, NEW m \in Menders, RepairFails(m)
    PROVE  AbsentInv'
<1>1. repairs[m] # Idle
    BY RepairOf DEF RepairInv, RepairFails, Idle
<1>2. /\ UNCHANGED <<rows, absent, ledger, sales>> /\ repairs'[m] = Idle
      /\ \A n \in Menders \ {m} : repairs'[n] = repairs[n]
    BY DEF RepairFails, RepairInv, RepairShapes
<1> QED
    BY <1>1, <1>2, OwnStepLeavesAbsent

LEMMA RepairLeavesAbsent ==
    ASSUME RepairInv, AbsentInv, NEW m \in Menders,
           \/ RepairReadsBatches(m) \/ RepairReadsRows(m) \/ RepairTrims(m) \/ RepairFails(m)
           \/ \E s \in RepairShelves :
                 RepairSets(m, s) \/ RepairSetsAfterWait(m, s) \/ RepairCreates(m, s)
    PROVE  AbsentInv'
BY RepairSetsLeavesAbsent, RepairSetsAfterWaitLeavesAbsent, RepairCreatesLeavesAbsent,
   RepairReadsOnLeavesAbsent, RepairFailsLeavesAbsent

LEMMA RepairEndsLeavesAbsent ==
    ASSUME RepairInv, AbsentInv, NEW m \in Menders, RepairEnds(m)
    PROVE  AbsentInv'
<1>1. ledger' = ledger /\ sales' = sales /\ absent' = absent \ FixedBy(m) /\ repairs[m].at = "end"
    BY BooksAfterRepair, RowsMadeByRepair, RepairAtItsEnd
<1>2. HeldBySale' = HeldBySale
    BY <1>1 DEF HeldBySale
<1>3. repairs[m] # Idle /\ FixedBy(m) = DOMAIN repairs[m].fixed
    BY <1>1, RepairOf DEF RepairInv, Idle
<1>4. ASSUME NEW s \in absent' PROVE rows'[s].quantity = 0
  <2>1. s \in RepairShelves /\ s \notin FixedBy(m) /\ rows[s].quantity = 0
      BY <1>1, <1>4 DEF AbsentInv
  <2>2. rows'[s].quantity = QuantityLeft(repairs[m], rows[s], s)
      BY <2>1, RowAfterRepair
  <2> QED
      BY <1>3, <2>1, <2>2 DEF QuantityLeft
<1>5. \A n \in Menders : repairs'[n] # Idle =>
          /\ repairs[n] # Idle /\ repairs'[n].missing = repairs[n].missing
          /\ repairs'[n].ledger = repairs[n].ledger
    BY OthersAfterRepair DEF RepairInv
<1>6. \A s \in absent' : rows'[s].quantity = 0 /\ s \notin HeldBySale' /\ ledger'[s] = ledger[s]
    BY <1>1, <1>2, <1>4 DEF AbsentInv
<1> QED
    BY <1>1, <1>5, <1>6, AbsentStays

LEMMA AbsentInvHolds == RepairInv /\ AbsentInv /\ [RepairNext]_repairVars => AbsentInv'
<1> SUFFICES ASSUME RepairInv, AbsentInv, [RepairNext]_repairVars PROVE AbsentInv'
    OBVIOUS
<1>1. ASSUME NEW p \in Sellers,
             SaleEnds(p) \/ SaleFails(p) \/ \E s \in RepairShelves : SaleWrites(p, s)
      PROVE  AbsentInv'
    BY <1>1, SalesLeaveAbsent
<1>2. ASSUME NEW s \in RepairShelves,
             Delivered(s) \/ \E kind \in {"order", "quarantine"} : Holds(s, kind)
      PROVE  AbsentInv'
    BY <1>2, GoodsLeaveAbsent
<1>3. ASSUME NEW m \in Menders, RepairReads(m) PROVE AbsentInv'
    BY <1>3, RepairReadsLeavesAbsent
<1>4. ASSUME NEW m \in Menders,
             \/ RepairReadsBatches(m) \/ RepairReadsRows(m) \/ RepairTrims(m) \/ RepairFails(m)
             \/ \E s \in RepairShelves :
                   RepairSets(m, s) \/ RepairSetsAfterWait(m, s) \/ RepairCreates(m, s)
      PROVE  AbsentInv'
    BY <1>4, RepairLeavesAbsent
<1>5. ASSUME NEW m \in Menders, RepairEnds(m) PROVE AbsentInv'
    BY <1>5, RepairEndsLeavesAbsent
<1>6. CASE UNCHANGED repairVars
    BY <1>6 DEF repairVars, AbsentInv, HeldBySale
<1> QED
    BY <1>1, <1>2, <1>3, <1>4, <1>5, <1>6 DEF RepairNext

-----------------------------------------------------------------------------
LEMMA RepairInvHolds == RepairInv /\ AbsentInv /\ [RepairNext]_repairVars => RepairInv'
<1> SUFFICES ASSUME RepairInv, AbsentInv, [RepairNext]_repairVars PROVE RepairInv'
    OBVIOUS
<1>1. ASSUME NEW p \in Sellers, SaleEnds(p) PROVE RepairInv'
    BY <1>1, SaleEndsHolds
<1>2. ASSUME NEW p \in Sellers, NEW s \in RepairShelves, SaleWrites(p, s) PROVE RepairInv'
    BY <1>2, SaleWritesHolds
<1>3. ASSUME NEW s \in RepairShelves, Delivered(s) PROVE RepairInv'
    BY <1>3, DeliveredHolds
<1>4. ASSUME NEW s \in RepairShelves, NEW kind \in {"order", "quarantine"}, Holds(s, kind)
      PROVE  RepairInv'
    BY <1>4, HoldsHolds
<1>5. ASSUME NEW m \in Menders, RepairReads(m) PROVE RepairInv'
    BY <1>5, RepairReadsHolds
<1>6. ASSUME NEW m \in Menders, RepairReadsBatches(m) PROVE RepairInv'
    BY <1>6, RepairReadsBatchesHolds
<1>7. ASSUME NEW m \in Menders, RepairReadsRows(m) PROVE RepairInv'
    BY <1>7, RepairReadsRowsHolds
<1>8. ASSUME NEW m \in Menders, RepairTrims(m) PROVE RepairInv'
    BY <1>8, RepairTrimsHolds
<1>9. ASSUME NEW m \in Menders, RepairEnds(m) PROVE RepairInv'
    BY <1>9, RepairEndsHolds
<1>10. ASSUME NEW m \in Menders, NEW s \in RepairShelves, RepairSets(m, s) PROVE RepairInv'
    BY <1>10, RepairSetsHolds
<1>11. ASSUME NEW m \in Menders, NEW s \in RepairShelves, RepairSetsAfterWait(m, s) PROVE RepairInv'
    BY <1>11, RepairSetsAfterWaitHolds
<1>12. ASSUME NEW p \in Sellers, SaleFails(p) PROVE RepairInv'
    BY <1>12, SaleFailsHolds
<1>13. ASSUME NEW m \in Menders, NEW s \in RepairShelves, RepairCreates(m, s) PROVE RepairInv'
    BY <1>13, RepairCreatesHolds
<1>14. ASSUME NEW m \in Menders, RepairFails(m) PROVE RepairInv'
    BY <1>14, RepairFailsHolds
<1>15. CASE UNCHANGED repairVars
    BY <1>15 DEF repairVars, RepairInv, RepairShapes, RowsSetRight, SetRight, HeldBySale,
                 RepairedAgrees, HoldsCutRight
<1> QED
    BY <1>1, <1>2, <1>3, <1>4, <1>5, <1>6, <1>7, <1>8, <1>9, <1>10, <1>11, <1>12, <1>13, <1>14, <1>15
       DEF RepairNext

LEMMA RepairInvAlways == RepairSpec => []RepairInv
<1>1. RepairInit => RepairInv /\ AbsentInv
    BY RepairInvInit, AbsentInvInit
<1>2. RepairInv /\ AbsentInv /\ [RepairNext]_repairVars => (RepairInv /\ AbsentInv)'
    BY RepairInvHolds, AbsentInvHolds
<1> QED
    BY <1>1, <1>2, PTL DEF RepairSpec

\* What repairs, sales and deliveries leave in a row is a number, and what is held
\* on it is no less than nothing (RepairTypeOK).
THEOREM RepairTypes == RepairSpec => []RepairTypeOK
<1>1. RepairInv => RepairTypeOK
  <2> SUFFICES ASSUME RepairInv PROVE RepairTypeOK
      OBVIOUS
  <2>1. \A s \in RepairShelves :
            rows[s].quantity \in Int /\ rows[s].reserved \in Nat /\ rows[s].blocked \in Nat
      BY DEF RepairInv, RepairShapes
  <2>2. \A p \in Sellers : sales[p] = Idle \/ sales[p].shelf \in RepairShelves
      BY SaleOf DEF RepairInv
  <2>3. \A m \in Menders : repairs[m] = Idle \/ repairs[m].at \in {"rows", "batches", "holds", "end"}
      BY RepairOf DEF RepairInv, Repair
  <2> QED
      BY <2>1, <2>2, <2>3 DEF RepairInv, RepairShapes, RepairTypeOK
<1> QED
    BY <1>1, RepairInvAlways, PTL

\* A row that was repaired agrees with the movements from then on, whatever is sold
\* and delivered meanwhile (RepairedAgrees), for any number of repairs at once.
THEOREM RepairedAlwaysAgrees == RepairSpec => []RepairedAgrees
<1>1. RepairInv => RepairedAgrees
    BY DEF RepairInv
<1> QED
    BY <1>1, RepairInvAlways, PTL

\* No step but its end makes a repair that is ready to end idle.
LEMMA OnlyItsEndEndsIt ==
    ASSUME RepairInv, [RepairNext]_repairVars, NEW m \in Menders,
           repairs[m].at = "end", repairs'[m] = Idle
    PROVE  RepairEnds(m)
<1>1. repairs[m] # Idle /\ repairs[m] \in Repair
    BY RepairOf DEF Idle, RepairInv
<1>2. repairs \in [Menders -> {Idle} \cup Repair]
    BY DEF RepairInv, RepairShapes
<1>3. repairs' # repairs
    BY <1>1
<1>4. ASSUME NEW p \in Sellers, SaleEnds(p) PROVE FALSE
  <2>1. repairs'[m] = [repairs[m] EXCEPT !.sold = @ \cup {sales[p].shelf}]
      BY <1>1, <1>4 DEF SaleEnds
  <2>2. repairs'[m].at = "end"
      BY <1>1, <2>1 DEF Repair
  <2> QED
      BY <2>2 DEF Idle
<1>5. ASSUME NEW p \in Sellers, NEW s \in RepairShelves, SaleWrites(p, s) PROVE FALSE
    BY <1>3, <1>5 DEF SaleWrites
<1>6. ASSUME NEW s \in RepairShelves, Delivered(s) PROVE FALSE
  <2>1. repairs'[m] = repairs[m]
      BY <1>6 DEF Delivered
  <2> QED
      BY <1>1, <2>1
<1>7. ASSUME NEW s \in RepairShelves, NEW kind \in {"order", "quarantine"}, Holds(s, kind) PROVE FALSE
    BY <1>3, <1>7 DEF Holds
<1>8. ASSUME NEW n \in Menders, RepairReads(n) \/ RepairReadsBatches(n) \/ RepairReadsRows(n) \/ RepairTrims(n)
      PROVE  FALSE
  <2>1. n # m
      BY <1>1, <1>8 DEF RepairReads, RepairReadsBatches, RepairReadsRows, RepairTrims
  <2>2. repairs'[m] = repairs[m]
      BY <1>2, <1>8, <2>1 DEF RepairReads, RepairReadsBatches, RepairReadsRows, RepairTrims
  <2> QED
      BY <1>1, <2>2
<1>9. ASSUME NEW n \in Menders, NEW s \in RepairShelves, RepairSets(n, s) \/ RepairSetsAfterWait(n, s)
      PROVE  FALSE
  <2>1. n # m
      BY <1>9 DEF RepairSets, RepairSetsAfterWait
  <2>2. repairs'[m] = repairs[m]
      BY <1>2, <1>9, <2>1 DEF RepairSets, RepairSetsAfterWait
  <2> QED
      BY <1>1, <2>2
<1>10. ASSUME NEW n \in Menders, RepairEnds(n) PROVE n = m
    BY <1>1, <1>10, OthersAfterRepair DEF RepairInv
<1>11. ASSUME NEW p \in Sellers, SaleFails(p) PROVE FALSE
    BY <1>3, <1>11 DEF SaleFails
<1>12. ~(UNCHANGED repairVars)
    BY <1>3 DEF repairVars
<1>13. ASSUME NEW n \in Menders, NEW s \in RepairShelves, RepairCreates(n, s) PROVE FALSE
  <2>1. n # m
      BY <1>13 DEF RepairCreates
  <2>2. repairs'[m] = repairs[m]
      BY <1>2, <1>13, <2>1 DEF RepairCreates
  <2> QED
      BY <1>1, <2>2
<1>14. ASSUME NEW n \in Menders, RepairFails(n) PROVE FALSE
  <2>1. n # m
      BY <1>14 DEF RepairFails
  <2>2. repairs'[m] = repairs[m]
      BY <1>2, <1>14, <2>1 DEF RepairFails
  <2> QED
      BY <1>1, <2>2
<1> QED
    BY <1>4, <1>5, <1>6, <1>7, <1>8, <1>9, <1>10, <1>11, <1>12, <1>13, <1>14 DEF RepairNext

\* After a repair no shelf has more held than lies on it, unless orders alone hold
\* more or it was sold from meanwhile (HoldsCut), for any number of repairs at once.
THEOREM HoldsAreAlwaysCut == RepairSpec => HoldsCut
<1>1. RepairInv /\ [RepairNext]_repairVars =>
          \A m \in Menders : repairs[m].at = "end" /\ repairs'[m] = Idle =>
              \A s \in RepairShelves \ repairs[m].sold :
                  \/ rows'[s].reserved + rows'[s].blocked <= rows'[s].quantity
                  \/ rows'[s].blocked = 0
  <2> SUFFICES ASSUME RepairInv, [RepairNext]_repairVars, NEW m \in Menders,
                      repairs[m].at = "end", repairs'[m] = Idle,
                      NEW s \in RepairShelves \ repairs[m].sold
               PROVE  \/ rows'[s].reserved + rows'[s].blocked <= rows'[s].quantity
                      \/ rows'[s].blocked = 0
      OBVIOUS
  <2>1. RepairEnds(m)
      BY OnlyItsEndEndsIt
  <2>2. /\ rows'[s].quantity = QuantityLeft(repairs[m], rows[s], s)
        /\ rows'[s].reserved = rows[s].reserved
        /\ rows'[s].blocked = BlockedLeft(repairs[m], rows[s], s)
        /\ CutRight(repairs[m], rows[s], s)
      BY <2>1, RowAfterRepair
  <2> QED
      BY <2>2 DEF CutRight
<1> QED
    BY <1>1, RepairInvAlways, PTL DEF RepairSpec, HoldsCut

-----------------------------------------------------------------------------
(***************************************************************************)
(* What a repair leaves of the batches.                                    *)
(*                                                                         *)
(* A repair that nothing crossed has listed every row that is wrong, so    *)
(* that the rows it sees are the movements, for as long as it is at work:  *)
(* no other repair can set a row it has set, and none is left to be set.   *)
(* What it takes off the batch brings it down to them.  Sales that count   *)
(* on nothing of the batch are what could still come between: such a sale  *)
(* was begun when the batch was empty, so that it and all the others like  *)
(* it are covered by goods that are in no batch.                           *)
(***************************************************************************)
Unbatched ==
    {s \in RepairShelves :
        \E p \in Sellers : sales[p] # Idle /\ sales[p].shelf = s /\ sales[p].batch = 0}
LeftOf(l, U) == [s \in RepairShelves |-> IF s \in U THEN l[s] - 1 ELSE l[s]]
Left == Sum(LeftOf(ledger, Unbatched))

SalesAreOfGoods ==
    /\ ledger \in [RepairShelves -> Nat]
    /\ \A p \in Sellers : sales[p] # Idle => ledger[sales[p].shelf] >= 1 /\ sales[p].batch \in {0, 1}
    /\ \A p, q \in Sellers :
          sales[p] # Idle /\ sales[q] # Idle /\ sales[p].shelf = sales[q].shelf => p = q

Summing == {"batches", "holds", "end"}
ListedRight(r) == \A s \in RepairShelves \ r.listed : rows[s].quantity = ledger[s]
WillCover(r) ==
    /\ r.at = "batches" => batched <= r.sum
    /\ r.at \in {"holds", "end"} => batched - r.excess <= Left
CoverRight(r) ==
    /\ r.excess \in Nat
    /\ r.at \in Summing => r.listed \subseteq DOMAIN r.fixed
    /\ ~r.crossed => ListedRight(r)
    /\ ~r.crossed /\ r.stale = {} => WillCover(r)

BatchInv ==
    /\ SalesAreOfGoods
    /\ Unbatched # {} => batched <= Left
    /\ \A m \in Menders : repairs[m] # Idle => CoverRight(repairs[m])

LEMMA LeftIsWithin ==
    ASSUME NEW l \in [RepairShelves -> Nat], NEW U \in SUBSET RepairShelves, \A s \in U : l[s] >= 1
    PROVE  /\ LeftOf(l, U) \in [RepairShelves -> Nat] /\ Sum(LeftOf(l, U)) \in Nat
           /\ Sum(l) \in Nat /\ Sum(LeftOf(l, U)) <= Sum(l)
           /\ (U = {} => Sum(LeftOf(l, U)) = Sum(l))
<1>1. PICK f : f = LeftOf(l, U)
    OBVIOUS
<1>2. f = [s \in RepairShelves |-> IF s \in U THEN l[s] - 1 ELSE l[s]]
    BY <1>1 DEF LeftOf
<1>3. f \in [RepairShelves -> Nat]
    BY <1>2
<1>4. IsFiniteSet(RepairShelves)
    BY ReconciliationAssumption
<1>5. Sum(f) \in Nat /\ Sum(l) \in Nat
    BY <1>3, <1>4, NatSum
<1>6. \A s \in RepairShelves : f[s] \in Int /\ l[s] \in Int /\ f[s] <= l[s]
    BY <1>2, <1>3
<1>7. SumOver(f, RepairShelves) <= SumOver(l, RepairShelves)
    BY <1>4, <1>6, SumOverMonotone
<1>8. Sum(f) = SumOver(f, RepairShelves) /\ Sum(l) = SumOver(l, RepairShelves)
    BY <1>3, SumIsOverDomain
<1>9. U = {} => f = l
    BY <1>2
<1> QED
    BY <1>1, <1>3, <1>5, <1>7, <1>8, <1>9

\* One shelf has n more.
LEMMA LeftMoves ==
    ASSUME NEW l \in [RepairShelves -> Nat], NEW U \in SUBSET RepairShelves,
           NEW k \in [RepairShelves -> Nat], NEW V \in SUBSET RepairShelves,
           NEW s \in RepairShelves, NEW n \in Int,
           \A t \in RepairShelves \ {s} : k[t] = l[t] /\ (t \in U <=> t \in V),
           LeftOf(k, V)[s] = LeftOf(l, U)[s] + n
    PROVE  Sum(LeftOf(k, V)) = Sum(LeftOf(l, U)) + n
<1>1. PICK f : f = LeftOf(l, U)
    OBVIOUS
<1>2. PICK h : h = LeftOf(k, V)
    OBVIOUS
<1>3. f \in [RepairShelves -> Int] /\ h \in [RepairShelves -> Int]
    BY <1>1, <1>2 DEF LeftOf
<1>4. \A t \in RepairShelves \ {s} : h[t] = f[t]
    BY <1>1, <1>2 DEF LeftOf
<1>5. OneChanged(f, h, RepairShelves, s)
    BY <1>3, <1>4, ReconciliationAssumption DEF OneChanged
<1>6. Sum(h) = Sum(f) + h[s] - f[s] /\ Sum(f) \in Int /\ h[s] \in Int /\ f[s] \in Int
    BY <1>3, <1>5, OneChanges
<1> QED
    BY <1>1, <1>2, <1>6

LEMMA UnbatchedAreOfGoods ==
    ASSUME RepairInv, BatchInv
    PROVE  /\ Unbatched \in SUBSET RepairShelves /\ \A s \in Unbatched : ledger[s] >= 1
           /\ Unbatched \subseteq HeldBySale
           /\ Left \in Nat /\ Sum(ledger) \in Nat /\ Left <= Sum(ledger)
           /\ (Unbatched = {} => Left = Sum(ledger)) /\ batched \in Int
<1>1. Unbatched \in SUBSET RepairShelves /\ \A s \in Unbatched : ledger[s] >= 1
    BY DEF BatchInv, SalesAreOfGoods, Unbatched
<1>2. Unbatched \subseteq HeldBySale
    BY DEF Unbatched, HeldBySale
<1>3. ledger \in [RepairShelves -> Nat] /\ batched \in Int
    BY DEF BatchInv, SalesAreOfGoods, RepairInv, RepairShapes
<1> QED
    BY <1>1, <1>2, <1>3, LeftIsWithin DEF Left

\* A repair that nothing crossed and that set no row wrongly sees the movements.
LEMMA SeesTheLedger ==
    ASSUME RepairInv, BatchInv, NEW m \in Menders, repairs[m] # Idle, repairs[m].at \in Summing,
           ~repairs[m].crossed, repairs[m].stale = {}
    PROVE  \A s \in RepairShelves : QuantityLeft(repairs[m], rows[s], s) = ledger[s]
<1>1. PICK r : r = repairs[m]
    OBVIOUS
<1>2. r.listed \subseteq DOMAIN r.fixed /\ ListedRight(r)
    BY <1>1 DEF BatchInv, CoverRight
<1>3. \A s \in RepairShelves : SetRight(r, s)
    BY <1>1 DEF RepairInv, RowsSetRight
<1> QED
    BY <1>1, <1>2, <1>3 DEF QuantityLeft, ListedRight, SetRight

\* A step of the shop, or another repair's end.
LEMMA CoverStays ==
    ASSUME RepairInv, RepairInv', BatchInv, SalesAreOfGoods',
           batched' - Left' <= batched - Left \/ batched' <= 0,
           Unbatched' # {} => Unbatched # {} \/ batched' <= 0,
           \A m \in Menders : repairs'[m] # Idle =>
               /\ repairs[m] # Idle /\ repairs'[m].at = repairs[m].at
               /\ repairs'[m].listed = repairs[m].listed /\ repairs'[m].sum = repairs[m].sum
               /\ repairs'[m].excess = repairs[m].excess /\ repairs'[m].fixed = repairs[m].fixed
               /\ repairs'[m].stale = repairs[m].stale /\ (repairs[m].crossed => repairs'[m].crossed)
               /\ ~repairs'[m].crossed =>
                     /\ repairs[m].at = "batches" => batched' <= batched
                     /\ \A s \in RepairShelves :
                            rows[s].quantity = ledger[s] => rows'[s].quantity = ledger'[s]
    PROVE  BatchInv'
<1>1. Left \in Nat /\ batched \in Int
    BY UnbatchedAreOfGoods
<1>2. batched' \in Int /\ Left' \in Nat
  <2>1. Unbatched' \in SUBSET RepairShelves /\ \A s \in Unbatched' : ledger'[s] >= 1
      BY DEF SalesAreOfGoods, Unbatched
  <2>2. ledger' \in [RepairShelves -> Nat]
      BY DEF SalesAreOfGoods
  <2>3. Sum(LeftOf(ledger', Unbatched')) \in Nat
      BY <2>1, <2>2, LeftIsWithin
  <2> QED
      BY <2>3 DEF Left, RepairInv, RepairShapes
<1>3. Unbatched' # {} => batched' <= Left'
  <2>1. Unbatched # {} => batched <= Left
      BY DEF BatchInv
  <2>2. PICK b : b = batched'
      OBVIOUS
  <2>3. PICK l : l = Left'
      OBVIOUS
  <2>4. b - l <= batched - Left \/ b <= 0
      BY <2>2, <2>3
  <2>5. Unbatched' # {} => batched <= Left \/ b <= 0
      BY <2>1, <2>2
  <2>6. ASSUME Unbatched' # {} PROVE b <= l
    <3>1. b \in Int /\ l \in Nat /\ batched \in Int /\ Left \in Nat
        BY <1>1, <1>2, <2>2, <2>3
    <3>2. CASE b <= 0
        BY <3>1, <3>2
    <3>3. CASE batched <= Left /\ b - l <= batched - Left
        BY <3>1, <3>3
    <3> QED
        BY <2>4, <2>5, <2>6, <3>2, <3>3
  <2> QED
      BY <2>2, <2>3, <2>6
<1>4. ASSUME NEW m \in Menders, repairs'[m] # Idle PROVE CoverRight(repairs[m])'
  <2>1. PICK r : r = repairs[m]
      OBVIOUS
  <2>2. PICK y : y = repairs'[m]
      OBVIOUS
  <2>3. /\ r # Idle /\ y.at = r.at /\ y.listed = r.listed /\ y.sum = r.sum /\ y.excess = r.excess
        /\ y.fixed = r.fixed /\ y.stale = r.stale /\ (r.crossed => y.crossed)
        /\ ~y.crossed => /\ r.at = "batches" => batched' <= batched
                         /\ \A s \in RepairShelves :
                                rows[s].quantity = ledger[s] => rows'[s].quantity = ledger'[s]
      BY <1>4, <2>1, <2>2
  <2>4. /\ r.excess \in Nat /\ (r.at \in Summing => r.listed \subseteq DOMAIN r.fixed)
        /\ (~r.crossed => ListedRight(r)) /\ (~r.crossed /\ r.stale = {} => WillCover(r))
      BY <2>1, <2>3 DEF BatchInv, CoverRight
  <2>5. r.sum \in Int
      BY <2>1, <2>3, RepairOf DEF RepairInv, Repair
  <2>6. ~y.crossed => \A s \in RepairShelves \ y.listed : rows'[s].quantity = ledger'[s]
      BY <2>3, <2>4 DEF ListedRight
  <2>7. ~y.crossed /\ y.stale = {} /\ y.at = "batches" => batched' <= y.sum
      BY <1>1, <1>2, <2>3, <2>4, <2>5 DEF WillCover
  <2>8. ~y.crossed /\ y.stale = {} /\ y.at \in {"holds", "end"} => batched' - y.excess <= Left'
    <3> SUFFICES ASSUME ~y.crossed, y.stale = {}, y.at \in {"holds", "end"}
                 PROVE  batched' - y.excess <= Left'
        OBVIOUS
    <3>1. batched - r.excess <= Left /\ r.excess \in Nat
        BY <2>3, <2>4 DEF WillCover
    <3>2. PICK e : e = r.excess
        OBVIOUS
    <3>3. e \in Nat /\ batched - e <= Left /\ y.excess = e
        BY <2>3, <3>1, <3>2
    <3> QED
        BY <1>1, <1>2, <3>3
  <2> QED
      BY <2>2, <2>3, <2>4, <2>6, <2>7, <2>8 DEF CoverRight, ListedRight, WillCover
<1> QED
    BY <1>3, <1>4 DEF BatchInv

\* A step of the shop that no repair notices.
LEMMA NobodyRepairs ==
    ASSUME RepairInv, RepairInv', BatchInv, SalesAreOfGoods', repairs' = repairs,
           batched' = batched, ledger' = ledger,
           \A s \in RepairShelves : rows'[s].quantity = rows[s].quantity,
           batched' - Left' <= batched - Left \/ batched' <= 0,
           Unbatched' # {} => Unbatched # {} \/ batched' <= 0
    PROVE  BatchInv'
<1>1. batched' <= batched
    BY DEF RepairInv, RepairShapes
<1>2. \A s \in RepairShelves : rows[s].quantity = ledger[s] => rows'[s].quantity = ledger'[s]
    OBVIOUS
<1>3. \A m \in Menders : repairs'[m] # Idle =>
          /\ repairs[m] # Idle /\ repairs'[m].at = repairs[m].at
          /\ repairs'[m].listed = repairs[m].listed /\ repairs'[m].sum = repairs[m].sum
          /\ repairs'[m].excess = repairs[m].excess /\ repairs'[m].fixed = repairs[m].fixed
          /\ repairs'[m].stale = repairs[m].stale /\ (repairs[m].crossed => repairs'[m].crossed)
          /\ ~repairs'[m].crossed =>
                /\ repairs[m].at = "batches" => batched' <= batched
                /\ \A s \in RepairShelves :
                       rows[s].quantity = ledger[s] => rows'[s].quantity = ledger'[s]
    BY <1>1, <1>2
<1> QED
    BY <1>3, CoverStays

\* A repair's own step.
LEMMA OwnStepCovers ==
    ASSUME BatchInv, NEW m \in Menders, UNCHANGED <<rows, ledger, batched, sales>>,
           \A n \in Menders \ {m} : repairs'[n] = repairs[n],
           CoverRight(repairs[m])'
    PROVE  BatchInv'
<1>1. Unbatched' = Unbatched
    BY DEF Unbatched
<1>2. Left' = Left
    BY <1>1 DEF Left
<1>3. ASSUME NEW n \in Menders, repairs'[n] # Idle PROVE CoverRight(repairs[n])'
  <2>1. CASE n = m
      BY <2>1
  <2>2. CASE n # m
    <3>1. repairs'[n] = repairs[n] /\ CoverRight(repairs[n])
        BY <1>3, <2>2 DEF BatchInv
    <3> QED
        BY <1>2, <3>1 DEF CoverRight, ListedRight, WillCover
  <2> QED
      BY <2>1, <2>2
<1>5. SalesAreOfGoods'
    BY DEF BatchInv, SalesAreOfGoods
<1> QED
    BY <1>1, <1>2, <1>3, <1>5 DEF BatchInv

-----------------------------------------------------------------------------
LEMMA BatchInvInit == RepairInit => BatchInv
<1> SUFFICES ASSUME RepairInit PROVE BatchInv
    OBVIOUS
<1>1. ledger \in [RepairShelves -> Nat]
    BY ReconciliationAssumption DEF RepairInit
<1>2. (\A p \in Sellers : sales[p] = Idle) /\ (\A m \in Menders : repairs[m] = Idle)
    BY DEF RepairInit
<1> QED
    BY <1>1, <1>2 DEF BatchInv, SalesAreOfGoods, Unbatched

LEMMA SaleWritesCovers ==
    ASSUME RepairInv, RepairInv', BatchInv, NEW p \in Sellers, NEW s \in RepairShelves, SaleWrites(p, s)
    PROVE  BatchInv'
<1>1. PICK x : x = [at |-> "open", shelf |-> s, batch |-> NotNegative(Lesser(1, batched))]
    OBVIOUS
<1>2. /\ sales' = [sales EXCEPT ![p] = x] /\ UNCHANGED <<rows, ledger, batched, repairs>>
      /\ ~Locked(s) /\ ledger[s] >= 1 /\ sales[p] = Idle
    BY <1>1 DEF SaleWrites
<1>3. x.shelf = s /\ x.batch \in {0, 1} /\ (x.batch = 0 => batched <= 0) /\ x # Idle
  <2>1. batched \in Int
      BY DEF RepairInv, RepairShapes
  <2> QED
      BY <1>1, <2>1 DEF NotNegative, Lesser, Idle
<1>4. \A q \in Sellers : sales'[q] = IF q = p THEN x ELSE sales[q]
    BY <1>2 DEF RepairInv, RepairShapes
<1>5. \A q \in Sellers : sales[q] # Idle => sales[q].shelf # s
    BY <1>2 DEF Locked, HeldBySale
<1>6. SalesAreOfGoods'
  <2>1. ledger' \in [RepairShelves -> Nat]
      BY <1>2 DEF BatchInv, SalesAreOfGoods
  <2>2. \A q \in Sellers : sales'[q] # Idle => ledger'[sales'[q].shelf] >= 1 /\ sales'[q].batch \in {0, 1}
      BY <1>2, <1>3, <1>4 DEF BatchInv, SalesAreOfGoods
  <2>3. \A q, z \in Sellers :
            sales'[q] # Idle /\ sales'[z] # Idle /\ sales'[q].shelf = sales'[z].shelf => q = z
      BY <1>3, <1>4, <1>5 DEF BatchInv, SalesAreOfGoods
  <2> QED
      BY <2>1, <2>2, <2>3 DEF SalesAreOfGoods
<1>7. CASE x.batch = 0
  <2>1. batched' <= 0
      BY <1>2, <1>3, <1>7
  <2> QED
      BY <1>2, <1>6, <2>1, NobodyRepairs
<1>8. CASE x.batch = 1
  <2>1. Unbatched' = Unbatched
      BY <1>2, <1>3, <1>4, <1>8 DEF Unbatched
  <2>2. Left' = Left
      BY <1>2, <2>1 DEF Left
  <2>3. batched' - Left' <= batched - Left
    <3>1. batched \in Int /\ Left \in Nat
        BY UnbatchedAreOfGoods
    <3> QED
        BY <1>2, <2>2, <3>1
  <2> QED
      BY <1>2, <1>6, <2>1, <2>3, NobodyRepairs
<1> QED
    BY <1>3, <1>7, <1>8

LEMMA SaleFailsCovers ==
    ASSUME RepairInv, RepairInv', BatchInv, NEW p \in Sellers, SaleFails(p)
    PROVE  BatchInv'
<1>1. /\ sales' = [sales EXCEPT ![p] = Idle] /\ UNCHANGED <<rows, ledger, batched, repairs>>
      /\ sales[p] # Idle /\ sales[p].batch > NotNegative(batched)
    BY DEF SaleFails
<1>2. \A q \in Sellers : sales'[q] = IF q = p THEN Idle ELSE sales[q]
    BY <1>1 DEF RepairInv, RepairShapes
<1>3. batched \in Int /\ Left \in Nat
    BY UnbatchedAreOfGoods
<1>4. sales[p].batch # 0
    BY <1>1, <1>3 DEF NotNegative
<1>5. SalesAreOfGoods'
    BY <1>1, <1>2 DEF BatchInv, SalesAreOfGoods
<1>6. Unbatched' = Unbatched
    BY <1>1, <1>2, <1>4 DEF Unbatched
<1>7. Left' = Left
    BY <1>1, <1>6 DEF Left
<1>8. batched' - Left' <= batched - Left
    BY <1>1, <1>3, <1>7
<1> QED
    BY <1>1, <1>5, <1>6, <1>8, NobodyRepairs

LEMMA SaleEndsCovers ==
    ASSUME RepairInv, RepairInv', BatchInv, NEW p \in Sellers, SaleEnds(p)
    PROVE  BatchInv'
<1>1. PICK s : s = sales[p].shelf
    OBVIOUS
<1>2. /\ s \in RepairShelves /\ sales[p] # Idle /\ sales[p].batch \in {0, 1} /\ ledger[s] >= 1
      /\ ledger \in [RepairShelves -> Nat]
    BY <1>1, SaleOf DEF RepairInv, SaleEnds, BatchInv, SalesAreOfGoods
<1>3. /\ rows' = [rows EXCEPT ![s].quantity = @ - 1]
      /\ ledger' = [ledger EXCEPT ![s] = @ - 1]
      /\ batched' = batched - sales[p].batch
      /\ sales' = [sales EXCEPT ![p] = Idle]
      /\ repairs' = [m \in Menders |->
            IF repairs[m] # Idle THEN [repairs[m] EXCEPT !.sold = @ \cup {s}] ELSE Idle]
    BY <1>1 DEF SaleEnds
<1>4. \A q \in Sellers : sales'[q] = IF q = p THEN Idle ELSE sales[q]
    BY <1>3 DEF RepairInv, RepairShapes
<1>5. \A q \in Sellers \ {p} : sales[q] # Idle => sales[q].shelf # s
    BY <1>1, <1>2 DEF BatchInv, SalesAreOfGoods
<1>6. ledger' \in [RepairShelves -> Nat] /\ \A t \in RepairShelves : ledger'[t] = IF t = s THEN ledger[s] - 1 ELSE ledger[t]
    BY <1>2, <1>3
<1>7. SalesAreOfGoods'
  <2>1. \A q \in Sellers : sales'[q] # Idle =>
            ledger'[sales'[q].shelf] >= 1 /\ sales'[q].batch \in {0, 1}
    <3> SUFFICES ASSUME NEW q \in Sellers, sales'[q] # Idle
                 PROVE  ledger'[sales'[q].shelf] >= 1 /\ sales'[q].batch \in {0, 1}
        OBVIOUS
    <3>1. q # p /\ sales'[q] = sales[q] /\ sales[q] # Idle
        BY <1>4
    <3>2. sales[q].shelf \in RepairShelves /\ sales[q].shelf # s
        BY <1>5, <3>1, SaleOf DEF RepairInv
    <3>3. ledger[sales[q].shelf] >= 1 /\ sales[q].batch \in {0, 1}
        BY <3>1 DEF BatchInv, SalesAreOfGoods
    <3> QED
        BY <1>6, <3>1, <3>2, <3>3
  <2>2. \A q, z \in Sellers :
            sales'[q] # Idle /\ sales'[z] # Idle /\ sales'[q].shelf = sales'[z].shelf => q = z
      BY <1>4 DEF BatchInv, SalesAreOfGoods
  <2> QED
      BY <1>6, <2>1, <2>2 DEF SalesAreOfGoods
<1>8. Unbatched' = Unbatched \ {s}
  <2>1. \A t : t \in Unbatched' <=> t \in Unbatched /\ t # s
      BY <1>1, <1>4, <1>5 DEF Unbatched
  <2> QED
      BY <2>1
<1>9. s \in Unbatched <=> sales[p].batch = 0
    BY <1>1, <1>2, <1>5 DEF Unbatched
<1>10. batched' - Left' <= batched - Left
  <2>1. Unbatched \in SUBSET RepairShelves /\ batched \in Int /\ Left \in Nat
      BY UnbatchedAreOfGoods
  <2>2. PICK n : n = -sales[p].batch
      OBVIOUS
  <2>3. n \in Int /\ LeftOf(ledger', Unbatched')[s] = LeftOf(ledger, Unbatched)[s] + n
    <3>1. LeftOf(ledger', Unbatched')[s] = ledger[s] - 1
        BY <1>2, <1>6, <1>8 DEF LeftOf
    <3>2. LeftOf(ledger, Unbatched)[s] = IF sales[p].batch = 0 THEN ledger[s] - 1 ELSE ledger[s]
        BY <1>2, <1>9 DEF LeftOf
    <3> QED
        BY <1>2, <2>2, <3>1, <3>2
  <2>4. \A t \in RepairShelves \ {s} : ledger'[t] = ledger[t] /\ (t \in Unbatched <=> t \in Unbatched')
      BY <1>6, <1>8
  <2>5. Unbatched' \in SUBSET RepairShelves
      BY <1>8, <2>1
  <2>6. Sum(LeftOf(ledger', Unbatched')) = Sum(LeftOf(ledger, Unbatched)) + n
      BY <1>2, <1>6, <2>1, <2>3, <2>4, <2>5, LeftMoves
  <2>7. Left' = Left + n
      BY <2>6 DEF Left
  <2> QED
      BY <1>2, <1>3, <2>1, <2>2, <2>7
<1>11. ASSUME NEW m \in Menders, repairs'[m] # Idle
       PROVE  /\ repairs[m] # Idle /\ repairs'[m].at = repairs[m].at
              /\ repairs'[m].listed = repairs[m].listed /\ repairs'[m].sum = repairs[m].sum
              /\ repairs'[m].excess = repairs[m].excess /\ repairs'[m].fixed = repairs[m].fixed
              /\ repairs'[m].stale = repairs[m].stale /\ repairs'[m].crossed = repairs[m].crossed
  <2>1. repairs[m] # Idle /\ repairs'[m] = [repairs[m] EXCEPT !.sold = @ \cup {s}]
      BY <1>3, <1>11
  <2>2. repairs[m] \in Repair
      BY <2>1, RepairOf DEF RepairInv
  <2> QED
      BY <2>1, <2>2 DEF Repair
<1>12. \A t \in RepairShelves : rows[t].quantity = ledger[t] => rows'[t].quantity = ledger'[t]
    BY <1>2, <1>3 DEF RepairInv, RepairShapes
<1>13. batched' <= batched
    BY <1>2, <1>3 DEF RepairInv, RepairShapes
<1>14. Unbatched' # {} => Unbatched # {}
    BY <1>8
<1> QED
    BY <1>7, <1>10, <1>11, <1>12, <1>13, <1>14, CoverStays

LEMMA DeliveredCovers ==
    ASSUME RepairInv, RepairInv', BatchInv, NEW s \in RepairShelves, Delivered(s)
    PROVE  BatchInv'
<1>1. /\ rows' = [rows EXCEPT ![s].quantity = @ + 1]
      /\ ledger' = [ledger EXCEPT ![s] = @ + 1]
      /\ batched' = batched + 1
      /\ repairs' = [m \in Menders |->
            IF repairs[m].at = "batches" THEN [repairs[m] EXCEPT !.crossed = TRUE] ELSE repairs[m]]
      /\ sales' = sales /\ ~Locked(s)
    BY DEF Delivered
<1>2. ledger \in [RepairShelves -> Nat]
    BY DEF BatchInv, SalesAreOfGoods
<1>3. ledger' \in [RepairShelves -> Nat] /\ \A t \in RepairShelves : ledger'[t] = IF t = s THEN ledger[s] + 1 ELSE ledger[t]
    BY <1>1, <1>2
<1>4. \A q \in Sellers : sales[q] # Idle => sales[q].shelf \in RepairShelves
    BY SaleOf DEF RepairInv
<1>5. SalesAreOfGoods'
  <2>1. \A t \in RepairShelves : ledger[t] >= 1 => ledger'[t] >= 1
      BY <1>2, <1>3
  <2> QED
      BY <1>1, <1>3, <1>4, <2>1 DEF BatchInv, SalesAreOfGoods
<1>6. Unbatched' = Unbatched
    BY <1>1 DEF Unbatched
<1>7. batched' - Left' <= batched - Left
  <2>1. /\ Unbatched \in SUBSET RepairShelves /\ batched \in Int /\ Left \in Nat
        /\ Unbatched \subseteq HeldBySale
      BY UnbatchedAreOfGoods
  <2>2. s \notin Unbatched
      BY <1>1, <2>1 DEF Locked
  <2>3. LeftOf(ledger', Unbatched)[s] = LeftOf(ledger, Unbatched)[s] + 1
      BY <1>3, <2>2 DEF LeftOf
  <2>4. Sum(LeftOf(ledger', Unbatched)) = Sum(LeftOf(ledger, Unbatched)) + 1
      BY <1>2, <1>3, <2>1, <2>3, LeftMoves
  <2>5. Left' = Left + 1
      BY <1>6, <2>4 DEF Left
  <2> QED
      BY <1>1, <2>1, <2>5
<1>8. ASSUME NEW m \in Menders, repairs'[m] # Idle
      PROVE  /\ repairs[m] # Idle /\ repairs'[m].at = repairs[m].at
             /\ repairs'[m].listed = repairs[m].listed /\ repairs'[m].sum = repairs[m].sum
             /\ repairs'[m].excess = repairs[m].excess /\ repairs'[m].fixed = repairs[m].fixed
             /\ repairs'[m].stale = repairs[m].stale /\ (repairs[m].crossed => repairs'[m].crossed)
             /\ (~repairs'[m].crossed => repairs[m].at # "batches")
  <2>1. CASE repairs[m].at # "batches"
      BY <1>1, <1>8, <2>1
  <2>2. CASE repairs[m].at = "batches"
    <3>1. PICK r : r = repairs[m]
        OBVIOUS
    <3>2. r \in Repair /\ r # Idle
        BY <2>2, <3>1, RepairOf DEF RepairInv, Idle
    <3>3. PICK y : y = [r EXCEPT !.crossed = TRUE]
        OBVIOUS
    <3>4. repairs'[m] = y /\ y.crossed
        BY <1>1, <2>2, <3>1, <3>2, <3>3 DEF Repair
    <3> QED
        BY <3>1, <3>2, <3>3, <3>4, MarkedAsCrossed
  <2> QED
      BY <2>1, <2>2
<1>9. \A t \in RepairShelves : rows[t].quantity = ledger[t] => rows'[t].quantity = ledger'[t]
    BY <1>1, <1>2 DEF RepairInv, RepairShapes
<1> QED
    BY <1>5, <1>6, <1>7, <1>8, <1>9, CoverStays

LEMMA HoldsCovers ==
    ASSUME RepairInv, RepairInv', BatchInv, NEW s \in RepairShelves,
           NEW kind \in {"order", "quarantine"}, Holds(s, kind)
    PROVE  BatchInv'
<1>1. UNCHANGED <<ledger, batched, sales, repairs>>
    BY DEF Holds
<1>2. \A t \in RepairShelves : rows'[t].quantity = rows[t].quantity
    BY DEF Holds, RepairInv, RepairShapes
<1>3. SalesAreOfGoods'
    BY <1>1 DEF BatchInv, SalesAreOfGoods
<1>4. Unbatched' = Unbatched
    BY <1>1 DEF Unbatched
<1>5. Left' = Left
    BY <1>1, <1>4 DEF Left
<1>6. batched' - Left' <= batched - Left
  <2>1. batched \in Int /\ Left \in Nat
      BY UnbatchedAreOfGoods
  <2> QED
      BY <1>1, <1>5, <2>1
<1> QED
    BY <1>1, <1>2, <1>3, <1>4, <1>6, NobodyRepairs

LEMMA RepairEndsCovers ==
    ASSUME RepairInv, RepairInv', BatchInv, NEW m \in Menders, RepairEnds(m)
    PROVE  BatchInv'
<1>1. PICK r : r = repairs[m]
    OBVIOUS
<1>2. repairs[m] # Idle /\ r.excess \in Nat
  <2>1. repairs[m] # Idle
      BY RepairAtItsEnd, RepairOf DEF RepairInv, Idle
  <2>2. CoverRight(repairs[m])
      BY <2>1 DEF BatchInv
  <2> QED
      BY <1>1, <2>1, <2>2 DEF CoverRight
<1>3. batched' = batched - r.excess /\ ledger' = ledger /\ sales' = sales
    BY <1>1, BatchesAfterRepair, BooksAfterRepair
<1>4. SalesAreOfGoods'
    BY <1>3 DEF BatchInv, SalesAreOfGoods
<1>5. Unbatched' = Unbatched
    BY <1>3 DEF Unbatched
<1>6. Left' = Left
    BY <1>3, <1>5 DEF Left
<1>7. batched' - Left' <= batched - Left /\ batched' <= batched
  <2>1. batched \in Int /\ Left \in Nat
      BY UnbatchedAreOfGoods
  <2> QED
      BY <1>2, <1>3, <1>6, <2>1
<1>8. ASSUME NEW n \in Menders, repairs'[n] # Idle
      PROVE  /\ repairs[n] # Idle /\ repairs'[n].at = repairs[n].at
             /\ repairs'[n].listed = repairs[n].listed /\ repairs'[n].sum = repairs[n].sum
             /\ repairs'[n].excess = repairs[n].excess /\ repairs'[n].fixed = repairs[n].fixed
             /\ repairs'[n].stale = repairs[n].stale /\ (repairs[n].crossed => repairs'[n].crossed)
             /\ (~repairs'[n].crossed => r.stale = {})
    BY <1>1, <1>8, OthersAfterRepair DEF RepairInv
<1>9. ASSUME r.stale = {}, NEW s \in RepairShelves, rows[s].quantity = ledger[s]
      PROVE  rows'[s].quantity = ledger'[s]
  <2>1. rows'[s].quantity = QuantityLeft(r, rows[s], s)
      BY <1>1, RowAfterRepair
  <2>2. SetRight(r, s)
      BY <1>1, <1>2 DEF RepairInv, RowsSetRight
  <2> QED
      BY <1>3, <1>9, <2>1, <2>2 DEF SetRight, QuantityLeft
<1> QED
    BY <1>4, <1>5, <1>7, <1>8, <1>9, CoverStays

\* A repair lists what is wrong when it begins.
LEMMA RepairReadsCovers ==
    ASSUME RepairInv, BatchInv, NEW m \in Menders, RepairReads(m)
    PROVE  BatchInv'
<1>1. /\ repairs'[m].at = "rows" /\ repairs'[m].stale = {} /\ ~repairs'[m].crossed
      /\ repairs'[m].listed = {s \in RepairShelves : rows[s].quantity # ledger[s]}
      /\ repairs'[m].excess = NotNegative(batched - Sum([s \in RepairShelves |-> rows[s].quantity]))
    BY DEF RepairReads, RepairInv, RepairShapes
<1>2. UNCHANGED <<rows, ledger, batched, sales>> /\ \A n \in Menders \ {m} : repairs'[n] = repairs[n]
    BY DEF RepairReads, RepairInv, RepairShapes
<1>3. repairs'[m].excess \in Nat
  <2>1. Sum([s \in RepairShelves |-> rows[s].quantity]) \in Int /\ batched \in Int
      BY SumOfRows DEF RepairInv, RepairShapes
  <2> QED
      BY <1>1, <2>1 DEF NotNegative
<1>4. CoverRight(repairs[m])'
    BY <1>1, <1>2, <1>3 DEF CoverRight, ListedRight, WillCover, Summing
<1> QED
    BY <1>2, <1>4, OwnStepCovers

\* While it sets rows nothing is asked of it but its list.
LEMMA SettingCovers ==
    ASSUME RepairInv, BatchInv, NEW m \in Menders, UNCHANGED <<rows, ledger, batched, sales>>,
           \A n \in Menders \ {m} : repairs'[n] = repairs[n],
           repairs[m] # Idle, repairs'[m].at = "rows", repairs'[m].listed = repairs[m].listed,
           repairs'[m].excess = repairs[m].excess, repairs'[m].crossed = repairs[m].crossed
    PROVE  BatchInv'
<1>1. CoverRight(repairs[m])
    BY DEF BatchInv
<1>2. CoverRight(repairs[m])'
    BY <1>1 DEF CoverRight, ListedRight, WillCover, Summing
<1> QED
    BY <1>2, OwnStepCovers

LEMMA RepairSetsCovers ==
    ASSUME RepairInv, BatchInv, NEW m \in Menders, NEW s \in RepairShelves,
           RepairSets(m, s) \/ RepairSetsAfterWait(m, s) \/ RepairCreates(m, s)
    PROVE  BatchInv'
<1>1. PICK r : r = repairs[m]
    OBVIOUS
<1>2. r \in Repair /\ r.at = "rows" /\ repairs[m] # Idle
    BY <1>1, RepairOf DEF RepairInv, RepairSets, RepairSetsAfterWait, RepairCreates, Idle
<1>3. /\ UNCHANGED <<rows, ledger, batched, sales>>
      /\ \A n \in Menders \ {m} : repairs'[n] = repairs[n]
    BY DEF RepairSets, RepairSetsAfterWait, RepairCreates, RepairInv, RepairShapes
<1>4. PICK y : y = repairs'[m]
    OBVIOUS
<1>5. y.at = "rows" /\ y.listed = r.listed /\ y.excess = r.excess /\ y.crossed = r.crossed
  <2>1. CASE RepairSets(m, s) /\ LockedToOthers(m, s)
    <3>1. y = [r EXCEPT !.waiting = {s}, !.sum = SumNow(m, s)]
        BY <1>1, <1>4, <2>1 DEF RepairSets, RepairInv, RepairShapes
    <3> QED
        BY <1>2, <3>1 DEF Repair
  <2>2. CASE RepairSets(m, s) /\ ~LockedToOthers(m, s)
    <3>1. y = [r EXCEPT !.fixed = With(@, s, SumNow(m, s))]
        BY <1>1, <1>4, <2>2 DEF RepairSets, RepairInv, RepairShapes
    <3> QED
        BY <1>2, <3>1 DEF Repair
  <2>3. CASE RepairSetsAfterWait(m, s)
    <3>1. y = [r EXCEPT !.waiting = {}, !.sum = 0, !.fixed = With(r.fixed, s, r.sum), !.stale = r.stale \cup {s}]
        BY <1>1, <1>2, <1>4, <2>3 DEF RepairSetsAfterWait, RepairInv, RepairShapes
    <3>2. PICK x : x = [r EXCEPT !.waiting = {}, !.sum = 0]
        OBVIOUS
    <3>3. x.at = "rows" /\ x.listed = r.listed /\ x.excess = r.excess /\ x.crossed = r.crossed
        BY <1>2, <3>2 DEF Repair
    <3>4. y = [x EXCEPT !.fixed = With(r.fixed, s, r.sum), !.stale = r.stale \cup {s}]
        BY <1>2, <3>1, <3>2 DEF Repair
    <3>5. DOMAIN x = DOMAIN r
        BY <1>2, <3>2 DEF Repair
    <3> QED
        BY <1>2, <3>3, <3>4, <3>5 DEF Repair
  <2>4. CASE RepairCreates(m, s)
    <3>1. y = [r EXCEPT !.fixed = With(@, s, r.ledger[s])]
        BY <1>1, <1>4, <2>4 DEF RepairCreates, RepairInv, RepairShapes
    <3> QED
        BY <1>2, <3>1 DEF Repair
  <2> QED
      BY <2>1, <2>2, <2>3, <2>4
<1> QED
    BY <1>1, <1>2, <1>3, <1>4, <1>5, SettingCovers

LEMMA RepairFailsCovers ==
    ASSUME RepairInv, BatchInv, NEW m \in Menders, RepairFails(m)
    PROVE  BatchInv'
<1>1. /\ UNCHANGED <<rows, ledger, batched, sales>> /\ repairs'[m] = Idle
      /\ \A n \in Menders \ {m} : repairs'[n] = repairs[n]
    BY DEF RepairFails, RepairInv, RepairShapes
<1>2. Unbatched' = Unbatched
    BY <1>1 DEF Unbatched
<1>3. Left' = Left
    BY <1>1, <1>2 DEF Left
<1>4. ASSUME NEW n \in Menders, repairs'[n] # Idle PROVE CoverRight(repairs[n])'
  <2>1. repairs'[n] = repairs[n] /\ CoverRight(repairs[n])
      BY <1>1, <1>4 DEF BatchInv
  <2> QED
      BY <1>1, <1>3, <2>1 DEF CoverRight, ListedRight, WillCover
<1>5. SalesAreOfGoods'
    BY <1>1 DEF BatchInv, SalesAreOfGoods
<1> QED
    BY <1>1, <1>2, <1>3, <1>4, <1>5 DEF BatchInv

LEMMA RepairReadsBatchesCovers ==
    ASSUME RepairInv, BatchInv, NEW m \in Menders, RepairReadsBatches(m)
    PROVE  BatchInv'
<1>1. PICK r : r = repairs[m]
    OBVIOUS
<1>2. r \in Repair /\ r.at = "rows" /\ repairs[m] # Idle /\ CoverRight(r) /\ ToFix(m) = {}
    BY <1>1, RepairOf DEF RepairInv, RepairReadsBatches, Idle, BatchInv
<1>3. /\ UNCHANGED <<rows, ledger, batched, sales>> /\ batched \in Int
      /\ \A n \in Menders \ {m} : repairs'[n] = repairs[n]
    BY DEF RepairReadsBatches, RepairInv, RepairShapes
<1>4. repairs'[m] = [r EXCEPT !.at = "batches", !.sum = batched]
    BY <1>1, <1>2 DEF RepairReadsBatches, RepairInv, RepairShapes
<1>5. PICK y : y = repairs'[m]
    OBVIOUS
<1>6. /\ y.at = "batches" /\ y.sum = batched /\ y.listed = r.listed /\ y.excess = r.excess
      /\ y.crossed = r.crossed /\ y.stale = r.stale /\ y.fixed = r.fixed
    BY <1>2, <1>4, <1>5 DEF Repair
<1>7. r.listed \subseteq DOMAIN r.fixed
    BY <1>1, <1>2, RepairOf DEF ToFix, RepairInv
<1>8. CoverRight(repairs[m])'
    BY <1>2, <1>3, <1>5, <1>6, <1>7 DEF CoverRight, ListedRight, WillCover
<1> QED
    BY <1>3, <1>8, OwnStepCovers

\* What it takes off the batch brings it down to what is there.
LEMMA RepairReadsRowsCovers ==
    ASSUME RepairInv, BatchInv, NEW m \in Menders, RepairReadsRows(m)
    PROVE  BatchInv'
<1>1. PICK r : r = repairs[m]
    OBVIOUS
<1>2. r \in Repair /\ r.at = "batches" /\ repairs[m] # Idle /\ CoverRight(r) /\ r.sum \in Int
    BY <1>1, RepairOf DEF RepairInv, RepairReadsRows, Idle, BatchInv, Repair
<1>3. /\ UNCHANGED <<rows, ledger, batched, sales>> /\ batched \in Int
      /\ \A n \in Menders \ {m} : repairs'[n] = repairs[n]
    BY DEF RepairReadsRows, RepairInv, RepairShapes
<1>4. PICK n : n = ExcessNow(m)
    OBVIOUS
<1>5. PICK q : q = Sum([s \in RepairShelves |-> QuantityTo(m, s)])
    OBVIOUS
<1>6. q \in Int /\ n = NotNegative(Lesser(batched, r.sum - q)) /\ n \in Nat
  <2>1. q \in Int
      BY <1>2, <1>5, SumSeen DEF RepairInv
  <2>2. n = NotNegative(Lesser(batched, r.sum - q))
      BY <1>1, <1>4, <1>5 DEF ExcessNow
  <2> QED
      BY <1>2, <1>3, <2>1, <2>2 DEF NotNegative, Lesser
<1>7. PICK y : y = [r EXCEPT !.at = "holds", !.excess = n, !.sold = {}]
    OBVIOUS
<1>8. repairs'[m] = y
    BY <1>1, <1>2, <1>4, <1>7 DEF RepairReadsRows, RepairInv, RepairShapes
<1>9. /\ y.at = "holds" /\ y.excess = n /\ y.listed = r.listed /\ y.crossed = r.crossed
      /\ y.stale = r.stale /\ y.fixed = r.fixed
    BY <1>2, <1>7 DEF Repair
<1>10. ASSUME ~r.crossed, r.stale = {} PROVE batched - n <= Left
  <2>1. q = Sum(ledger)
    <3>1. \A s \in RepairShelves : QuantityTo(m, s) = ledger[s]
        BY <1>1, <1>2, <1>10, SeesTheLedger, QuantitySeen DEF RepairInv, Summing
    <3>2. [s \in RepairShelves |-> QuantityTo(m, s)] = ledger
        BY <3>1 DEF RepairInv, RepairShapes
    <3> QED
        BY <1>5, <3>2
  <2>2. /\ Left \in Nat /\ Sum(ledger) \in Nat /\ Left <= Sum(ledger)
        /\ (Unbatched = {} => Left = Sum(ledger))
      BY UnbatchedAreOfGoods
  <2>3. CASE Unbatched # {}
    <3>1. batched <= Left
        BY <2>3 DEF BatchInv
    <3> QED
        BY <1>3, <1>6, <2>2, <3>1
  <2>4. CASE Unbatched = {}
    <3>1. batched <= r.sum
        BY <1>2, <1>10 DEF CoverRight, WillCover
    <3>2. Left = q
        BY <2>1, <2>2, <2>4
    <3> QED
        BY <1>2, <1>3, <1>6, <2>2, <3>1, <3>2 DEF NotNegative, Lesser
  <2> QED
      BY <2>3, <2>4
<1>11. Left' = Left
    BY <1>3 DEF Left, Unbatched
<1>12. CoverRight(repairs[m])'
    BY <1>2, <1>3, <1>6, <1>8, <1>9, <1>10, <1>11 DEF CoverRight, ListedRight, WillCover, Summing
<1> QED
    BY <1>3, <1>12, OwnStepCovers

LEMMA RepairTrimsCovers ==
    ASSUME RepairInv, BatchInv, NEW m \in Menders, RepairTrims(m)
    PROVE  BatchInv'
<1>1. PICK r : r = repairs[m]
    OBVIOUS
<1>2. r \in Repair /\ r.at = "holds" /\ repairs[m] # Idle /\ CoverRight(r)
    BY <1>1, RepairOf DEF RepairInv, RepairTrims, Idle, BatchInv
<1>3. /\ UNCHANGED <<rows, ledger, batched, sales>>
      /\ \A n \in Menders \ {m} : repairs'[n] = repairs[n]
    BY DEF RepairTrims, RepairInv, RepairShapes
<1>4. PICK f : f = [s \in {t \in RepairShelves : Overheld(m, t)} |-> Lesser(rows[s].blocked, RoomToBlock(m, s))]
    OBVIOUS
<1>5. PICK y : y = [r EXCEPT !.at = "end", !.sold = {}, !.trimmed = f]
    OBVIOUS
<1>6. repairs'[m] = y
    BY <1>1, <1>2, <1>4, <1>5 DEF RepairTrims, RepairInv, RepairShapes
<1>7. /\ y.at = "end" /\ y.excess = r.excess /\ y.listed = r.listed /\ y.crossed = r.crossed
      /\ y.stale = r.stale /\ y.fixed = r.fixed
    BY <1>2, <1>5 DEF Repair
<1>8. Left' = Left
    BY <1>3 DEF Left, Unbatched
<1>9. CoverRight(repairs[m])'
    BY <1>2, <1>3, <1>6, <1>7, <1>8 DEF CoverRight, ListedRight, WillCover, Summing
<1> QED
    BY <1>3, <1>9, OwnStepCovers

LEMMA BatchInvHolds == RepairInv /\ RepairInv' /\ BatchInv /\ [RepairNext]_repairVars => BatchInv'
<1> SUFFICES ASSUME RepairInv, RepairInv', BatchInv, [RepairNext]_repairVars PROVE BatchInv'
    OBVIOUS
<1>1. ASSUME NEW p \in Sellers, SaleEnds(p) PROVE BatchInv'
    BY <1>1, SaleEndsCovers
<1>2. ASSUME NEW p \in Sellers, SaleFails(p) PROVE BatchInv'
    BY <1>2, SaleFailsCovers
<1>3. ASSUME NEW p \in Sellers, NEW s \in RepairShelves, SaleWrites(p, s) PROVE BatchInv'
    BY <1>3, SaleWritesCovers
<1>4. ASSUME NEW s \in RepairShelves, Delivered(s) PROVE BatchInv'
    BY <1>4, DeliveredCovers
<1>5. ASSUME NEW s \in RepairShelves, NEW kind \in {"order", "quarantine"}, Holds(s, kind)
      PROVE  BatchInv'
    BY <1>5, HoldsCovers
<1>6. ASSUME NEW m \in Menders, RepairReads(m) PROVE BatchInv'
    BY <1>6, RepairReadsCovers
<1>7. ASSUME NEW m \in Menders, NEW s \in RepairShelves,
             RepairSets(m, s) \/ RepairSetsAfterWait(m, s) \/ RepairCreates(m, s)
      PROVE  BatchInv'
    BY <1>7, RepairSetsCovers
<1>8. ASSUME NEW m \in Menders, RepairReadsBatches(m) PROVE BatchInv'
    BY <1>8, RepairReadsBatchesCovers
<1>9. ASSUME NEW m \in Menders, RepairReadsRows(m) PROVE BatchInv'
    BY <1>9, RepairReadsRowsCovers
<1>10. ASSUME NEW m \in Menders, RepairTrims(m) PROVE BatchInv'
    BY <1>10, RepairTrimsCovers
<1>11. ASSUME NEW m \in Menders, RepairEnds(m) PROVE BatchInv'
    BY <1>11, RepairEndsCovers
<1>12. CASE UNCHANGED repairVars
  <2>1. UNCHANGED <<rows, ledger, batched, sales, repairs>>
      BY <1>12 DEF repairVars
  <2>2. Unbatched' = Unbatched
      BY <2>1 DEF Unbatched
  <2>3. Left' = Left
      BY <2>1, <2>2 DEF Left
  <2> QED
      BY <2>1, <2>2, <2>3 DEF BatchInv, SalesAreOfGoods, CoverRight, ListedRight, WillCover
<1>13. ASSUME NEW m \in Menders, RepairFails(m) PROVE BatchInv'
    BY <1>13, RepairFailsCovers
<1> QED
    BY <1>1, <1>2, <1>3, <1>4, <1>5, <1>6, <1>7, <1>8, <1>9, <1>10, <1>11, <1>12, <1>13 DEF RepairNext

LEMMA BatchInvAlways == RepairSpec => []BatchInv
<1>1. RepairInit => BatchInv
    BY BatchInvInit
<1>2. RepairInv /\ RepairInv' /\ BatchInv /\ [RepairNext]_repairVars => BatchInv'
    BY BatchInvHolds
<1> QED
    BY <1>1, <1>2, RepairInvAlways, PTL DEF RepairSpec

\* After a repair there is no more in the batches than on the shelves, whatever was
\* sold meanwhile (BatchesCovered), for any number of repairs at once.
THEOREM BatchesAreAlwaysCovered == RepairSpec => BatchesCovered
<1>1. RepairInv /\ BatchInv /\ [RepairNext]_repairVars =>
          \A m \in Menders :
              (/\ repairs[m].at = "end" /\ repairs'[m] = Idle
               /\ ~repairs[m].crossed /\ repairs[m].stale = {})
              => batched' <= Sum([s \in RepairShelves |-> rows'[s].quantity])
  <2> SUFFICES ASSUME RepairInv, BatchInv, [RepairNext]_repairVars, NEW m \in Menders,
                      repairs[m].at = "end", repairs'[m] = Idle,
                      ~repairs[m].crossed, repairs[m].stale = {}
               PROVE  batched' <= Sum([s \in RepairShelves |-> rows'[s].quantity])
      OBVIOUS
  <2>1. RepairEnds(m) /\ repairs[m] # Idle
      BY OnlyItsEndEndsIt DEF Idle
  <2>2. \A s \in RepairShelves : rows'[s].quantity = ledger[s]
      BY <2>1, RowAfterRepair, SeesTheLedger DEF Summing
  <2>3. [s \in RepairShelves |-> rows'[s].quantity] = ledger
      BY <2>2 DEF RepairInv, RepairShapes
  <2>4. PICK e : e = repairs[m].excess
      OBVIOUS
  <2>5. CoverRight(repairs[m])
      BY <2>1 DEF BatchInv
  <2>6. e \in Nat /\ batched - e <= Left /\ batched' = batched - e
      BY <2>1, <2>4, <2>5, BatchesAfterRepair DEF CoverRight, WillCover
  <2>7. Left \in Nat /\ Sum(ledger) \in Nat /\ Left <= Sum(ledger) /\ batched \in Int
      BY UnbatchedAreOfGoods
  <2> QED
      BY <2>3, <2>6, <2>7
<1> QED
    BY <1>1, RepairInvAlways, BatchInvAlways, PTL DEF RepairSpec, BatchesCovered

-----------------------------------------------------------------------------
(***************************************************************************)
(* For any number of packs, clerks and requests: a pack is sold once,      *)
(* unless a quarantine has brought it back.                                *)
(*                                                                         *)
(* That no pack is sold twice is not inductive by itself, for it says      *)
(* nothing of a pack that has been sold and lies in stock.  The books say  *)
(* more: a pack that no quarantine brought back was sold as often as its   *)
(* code says.  Nothing is needed of what the requests had read: whatever   *)
(* it was, the writes ask for the codes again, and where the quarantine    *)
(* does not ask, it is what brings the packs back.                         *)
(***************************************************************************)

\* A pack was sold once if its code says so and never otherwise.
SoldAsTheCodeSays ==
    \A p \in Packs \ revived : soldTimes[p] = IF code[p] = "sold" THEN 1 ELSE 0

CodesInv ==
    /\ code \in [Packs -> {"unknown", "in_stock", "quarantined", "sold", "written_off"}]
    /\ soldTimes \in [Packs -> Nat]
    /\ SoldAsTheCodeSays

LEMMA PacksInitHolds == PacksInit => CodesInv
BY DEF PacksInit, CodesInv, SoldAsTheCodeSays

-----------------------------------------------------------------------------
(* One step. *)

\* Packs that were not sold and are not sold now take another state.
LEMMA OtherStateKeeps ==
    ASSUME CodesInv, NEW P, \A p \in P : p \in Packs => code[p] # "sold",
           NEW s \in {"in_stock", "quarantined", "written_off"},
           code' = [p \in Packs |-> IF p \in P THEN s ELSE code[p]],
           UNCHANGED <<soldTimes, revived>>
    PROVE  CodesInv'
<1>1. code' \in [Packs -> {"unknown", "in_stock", "quarantined", "sold", "written_off"}]
    BY DEF CodesInv
<1>2. \A p \in Packs : (code'[p] = "sold") <=> (code[p] = "sold")
    OBVIOUS
<1> QED
    BY <1>1, <1>2 DEF CodesInv, SoldAsTheCodeSays

LEMMA UntouchedKeeps ==
    ASSUME CodesInv, UNCHANGED <<code, soldTimes, revived>>
    PROVE  CodesInv'
BY DEF CodesInv, SoldAsTheCodeSays

LEMMA ReceivesBatchKeeps ==
    ASSUME CodesInv, NEW b \in Expiries, NEW P \in SUBSET Packs, ReceivesBatch(b, P)
    PROVE  CodesInv'
<1>1. \A p \in P : code[p] # "sold"
    BY DEF ReceivesBatch, InState
<1> QED
    BY <1>1, OtherStateKeeps DEF ReceivesBatch

LEMMA RegisterCommitsKeeps ==
    ASSUME CodesInv, NEW c \in Clerks, RegisterCommits(c)
    PROVE  CodesInv'
<1> DEFINE P == tickets[c].packs
<1>1. CASE P \subseteq InState("unknown")
  <2>1. \A p \in P : code[p] # "sold"
      BY <1>1 DEF InState
  <2>2. code' = [p \in Packs |-> IF p \in P THEN "in_stock" ELSE code[p]]
        /\ UNCHANGED <<soldTimes, revived>>
      BY <1>1 DEF RegisterCommits
  <2> HIDE DEF P
  <2> QED
      BY <2>1, <2>2, OtherStateKeeps
<1>2. CASE ~(P \subseteq InState("unknown"))
    BY <1>2, UntouchedKeeps DEF RegisterCommits, Refused
<1> QED
    BY <1>1, <1>2

\* The codes are asked again, so what is sold was not sold before.
LEMMA SellCommitsKeeps ==
    ASSUME CodesInv, NEW c \in Clerks, SellCommits(c)
    PROVE  CodesInv'
<1> DEFINE P == tickets[c].packs
<1>1. CASE UNCHANGED <<code, soldTimes, revived>>
    BY <1>1, UntouchedKeeps
<1>2. CASE /\ StillInStock(P)
           /\ code' = [p \in Packs |-> IF p \in P THEN "sold" ELSE code[p]]
           /\ soldTimes' = [p \in Packs |-> soldTimes[p] + (IF p \in P THEN 1 ELSE 0)]
           /\ revived' = revived
  <2>1. \A p \in P : code[p] = "in_stock"
      BY <1>2 DEF StillInStock, InState
  <2> HIDE DEF P
  <2>2. code' \in [Packs -> {"unknown", "in_stock", "quarantined", "sold", "written_off"}]
      BY <1>2 DEF CodesInv
  <2>3. soldTimes' \in [Packs -> Nat]
      BY <1>2 DEF CodesInv
  <2>4. ASSUME NEW p \in Packs \ revived
        PROVE  soldTimes'[p] = IF code'[p] = "sold" THEN 1 ELSE 0
    <3>1. soldTimes[p] = IF code[p] = "sold" THEN 1 ELSE 0
        BY DEF CodesInv, SoldAsTheCodeSays
    <3> QED
        BY <1>2, <2>1, <3>1
  <2> QED
      BY <1>2, <2>2, <2>3, <2>4 DEF CodesInv, SoldAsTheCodeSays
<1> QED
    BY <1>1, <1>2 DEF SellCommits, Refused

LEMMA WriteOffCommitsKeeps ==
    ASSUME CodesInv, NEW c \in Clerks, WriteOffCommits(c)
    PROVE  CodesInv'
<1> DEFINE P == tickets[c].packs
<1>1. CASE UNCHANGED <<code, soldTimes, revived>>
    BY <1>1, UntouchedKeeps
<1>2. CASE /\ StillInStock(P)
           /\ code' = [p \in Packs |-> IF p \in P THEN "written_off" ELSE code[p]]
           /\ UNCHANGED <<soldTimes, revived>>
  <2>1. \A p \in P : code[p] # "sold"
      BY <1>2 DEF StillInStock, InState
  <2> HIDE DEF P
  <2> QED
      BY <1>2, <2>1, OtherStateKeeps
<1> QED
    BY <1>1, <1>2 DEF WriteOffCommits, Refused, Retires

\* The quarantine writes the codes it read, and remembers which were gone.
LEMMA QuarantineCommitsKeeps ==
    ASSUME CodesInv, NEW c \in Clerks, QuarantineCommits(c)
    PROVE  CodesInv'
<1> DEFINE P == tickets[c].packs
           s == Becomes(tickets[c].action)
<1>1. CASE UNCHANGED <<code, soldTimes, revived>>
    BY <1>1, UntouchedKeeps
<1>2. CASE /\ code' = [p \in Packs |-> IF p \in P THEN s ELSE code[p]]
           /\ revived' = revived \cup {p \in P : code[p] \in {"sold", "written_off"}}
           /\ soldTimes' = soldTimes
  <2>1. s \in {"quarantined", "in_stock"}
      BY DEF Becomes
  <2> HIDE DEF P, s
  <2>2. code' \in [Packs -> {"unknown", "in_stock", "quarantined", "sold", "written_off"}]
      BY <1>2, <2>1 DEF CodesInv
  <2>3. ASSUME NEW p \in Packs \ revived'
        PROVE  soldTimes[p] = IF code'[p] = "sold" THEN 1 ELSE 0
    <3>1. p \in Packs \ revived /\ (p \in P => code[p] # "sold")
        BY <1>2
    <3>2. soldTimes[p] = IF code[p] = "sold" THEN 1 ELSE 0
        BY <3>1 DEF CodesInv, SoldAsTheCodeSays
    <3> QED
        BY <1>2, <2>1, <3>1, <3>2
  <2> QED
      BY <1>2, <2>2, <2>3 DEF CodesInv, SoldAsTheCodeSays
<1> QED
    BY <1>1, <1>2 DEF QuarantineCommits, Refused

LEMMA PacksStepHolds == CodesInv /\ [PacksNext]_packVars => CodesInv'
<1> SUFFICES ASSUME CodesInv, [PacksNext]_packVars PROVE CodesInv'
    OBVIOUS
<1>1. CASE UNCHANGED packVars
    BY <1>1, UntouchedKeeps DEF packVars
<1>2. ASSUME NEW b \in Expiries, Expires(b) PROVE CodesInv'
    BY <1>2, UntouchedKeeps DEF Expires
<1>3. ASSUME NEW b \in Expiries, NEW P \in (SUBSET Packs) \ {{}}, ReceivesBatch(b, P) PROVE CodesInv'
    BY <1>3, ReceivesBatchKeeps
<1>4. ASSUME NEW c \in Clerks, NEW ticket, Asks(c, ticket) PROVE CodesInv'
    BY <1>4, UntouchedKeeps DEF Asks
<1>5. ASSUME NEW c \in Clerks,
             RegisterCommits(c) \/ SellCommits(c) \/ WriteOffCommits(c) \/ QuarantineCommits(c)
      PROVE  CodesInv'
    BY <1>5, RegisterCommitsKeeps, SellCommitsKeeps, WriteOffCommitsKeeps, QuarantineCommitsKeeps
<1>6. ASSUME NEW c \in Clerks, WriteOffReadsBatches(c) PROVE CodesInv'
    BY <1>6, UntouchedKeeps DEF WriteOffReadsBatches
<1>7. ASSUME NEW c \in Clerks, NEW P, RegisterReads(c, P) \/ SellReads(c, P) PROVE CodesInv'
    BY <1>4, <1>7 DEF RegisterReads, SellReads
<1>8. ASSUME NEW c \in Clerks, NEW n, WriteOffReads(c, n) PROVE CodesInv'
    BY <1>4, <1>8 DEF WriteOffReads
<1>9. ASSUME NEW c \in Clerks, NEW n, NEW action, QuarantineReads(c, action, n) PROVE CodesInv'
    BY <1>4, <1>9 DEF QuarantineReads
<1> QED
    BY <1>1, <1>2, <1>3, <1>5, <1>6, <1>7, <1>8, <1>9 DEF PacksNext

LEMMA CodesAlwaysHold == PacksSpec => []CodesInv
    BY PacksInitHolds, PacksStepHolds, PTL DEF PacksSpec

-----------------------------------------------------------------------------
\* A pack is sold once, whoever scans it and whenever (pos.ts:1236), unless a
\* quarantine wrote over its code.
THEOREM SoldOnceAlways == PacksSpec => []SoldOnce
<1>1. CodesInv => SoldOnce
    BY DEF CodesInv, SoldAsTheCodeSays, SoldOnce
<1> QED
    BY <1>1, CodesAlwaysHold, PTL

-----------------------------------------------------------------------------
(***************************************************************************)
(* Rows, batches and codes, for any number of packs, batches and clerks.   *)
(*                                                                         *)
(* While nothing went without a code the row counts what is there: the     *)
(* packs that have no code yet, those in stock and those in quarantine.    *)
(* The codes therefore never claim more.                                   *)
(*                                                                         *)
(* Of the batches more has to be said.  A write-off that has read them may *)
(* take more goods than it found in batches, and so may a sale that found  *)
(* none left.  What the row has beyond the batches is enough for all of    *)
(* them that may still be carried out together, that is, of packs that are *)
(* all there and no two of which are the same: for each of them when it    *)
(* read, the packs of all were there, and only what it found in batches is *)
(* not beyond them.                                                        *)
(***************************************************************************)
Codes == {"unknown", "in_stock", "quarantined", "sold", "written_off"}
LivePacks == {p \in Packs \ revived : code[p] \in {"in_stock", "quarantined"}}
UncodedPacks == {p \in OldPacks : code[p] = "unknown"}

ToRegister == [at : {"register"}, packs : SUBSET OldPacks]
ToSell == [at : {"sell"}, packs : SUBSET Packs, from : [Expiries -> Nat]]
ToFindBatches == [at : {"batches"}, packs : SUBSET Packs, size : Nat]
ToWriteOff == [at : {"writeOff"}, packs : SUBSET Packs, size : Nat, from : [Expiries -> Nat]]
ToQuarantine == [at : {"quarantine"}, action : {"block", "release"}, packs : SUBSET Packs, size : Nat]

PackShapes ==
    /\ policy \in {"sellable", "quarantined"} /\ quantity \in Nat /\ blocked \in Nat
    /\ batch \in [Expiries -> Int] /\ expired \subseteq Expiries
    /\ code \in [Packs -> Codes] /\ soldTimes \in [Packs -> Nat]
    /\ blind \in BOOLEAN /\ revived \subseteq Packs
    /\ tickets \in [Clerks -> {NoTicket} \cup ToRegister \cup ToSell \cup ToFindBatches
                              \cup ToWriteOff \cup ToQuarantine]

\* What came back was there before, and so was what a sale, a write-off or a quarantine
\* is about.
TicketsFit ==
    /\ \A p \in revived : code[p] # "unknown"
    /\ \A c \in Clerks : tickets[c].at \in {"sell", "batches", "writeOff", "quarantine"} =>
          \A p \in tickets[c].packs : code[p] # "unknown"

RowCountsPacks == quantity = Cardinality(UncodedPacks) + Cardinality(LivePacks)

\* Sales and write-offs that may all be carried out, and what they take beyond the
\* batches.
Takes(t) == IF t.at = "sell" THEN Cardinality(t.packs) ELSE t.size
TakeTogether(list, W) ==
    /\ \A c \in W : /\ list[c].at \in {"sell", "writeOff"}
                    /\ list[c].packs \subseteq LivePacks
                    /\ Cardinality(list[c].packs) = Takes(list[c])
    /\ \A c, d \in W : c # d => list[c].packs \cap list[d].packs = {}
MayAllCommit(W) == TakeTogether(tickets, W)
BeyondBatches(list) == [c \in Clerks |-> Takes(list[c]) - Sum(list[c].from)]
EnoughBeyondBatches ==
    \A W \in SUBSET Clerks : IsFiniteSet(W) /\ MayAllCommit(W) =>
        SumOver(BeyondBatches(tickets), W) <= quantity - Sum(batch)

PacksInv ==
    /\ PackShapes /\ TicketsFit
    /\ ~blind => RowCountsPacks /\ (policy = "quarantined" => EnoughBeyondBatches)

-----------------------------------------------------------------------------
(* Facts about the state. *)

LEMMA BatchSumType ==
    ASSUME PackShapes
    PROVE  IsFiniteSet(Expiries) /\ Sum(batch) \in Int
BY IntSum, PacksAssumption DEF PackShapes

LEMMA PackSetsAreFinite ==
    /\ \A P \in SUBSET Packs : IsFiniteSet(P) /\ Cardinality(P) \in Nat
    /\ IsFiniteSet(LivePacks) /\ Cardinality(LivePacks) \in Nat
    /\ IsFiniteSet(UncodedPacks) /\ Cardinality(UncodedPacks) \in Nat
<1>1. IsFiniteSet(Packs) /\ OldPacks \subseteq Packs
    BY PacksAssumption
<1>2. \A P \in SUBSET Packs : IsFiniteSet(P) /\ Cardinality(P) \in Nat
    BY <1>1, SubsetsAreFinite
<1>3. LivePacks \in SUBSET Packs /\ UncodedPacks \in SUBSET Packs
    BY <1>1 DEF LivePacks, UncodedPacks
<1> QED
    BY <1>2, <1>3

\* What a sale or a write-off takes beyond the batches.
LEMMA BeyondType ==
    ASSUME PackShapes, NEW c \in Clerks, tickets[c].at \in {"sell", "writeOff"}
    PROVE  /\ tickets[c] \in ToSell \cup ToWriteOff /\ tickets[c].packs \in SUBSET Packs
           /\ tickets[c].from \in [Expiries -> Nat] /\ Sum(tickets[c].from) \in Nat
           /\ Takes(tickets[c]) \in Nat /\ BeyondBatches(tickets)[c] \in Int
           /\ BeyondBatches(tickets)[c] = Takes(tickets[c]) - Sum(tickets[c].from)
<1>1. tickets[c] \in ToSell \cup ToWriteOff
    BY DEF PackShapes, NoTicket, ToRegister, ToFindBatches, ToQuarantine
<1>2. tickets[c].packs \in SUBSET Packs /\ tickets[c].from \in [Expiries -> Nat]
    BY <1>1 DEF ToSell, ToWriteOff
<1>3. Takes(tickets[c]) \in Nat
  <2>1. tickets[c].at = "writeOff" => tickets[c].size \in Nat
      BY <1>1 DEF ToSell, ToWriteOff
  <2>2. Cardinality(tickets[c].packs) \in Nat
      BY <1>2, PackSetsAreFinite
  <2> QED
      BY <2>1, <2>2 DEF Takes
<1>4. Sum(tickets[c].from) \in Nat
    BY <1>2, NatSum, PacksAssumption
<1> QED
    BY <1>1, <1>2, <1>3, <1>4 DEF BeyondBatches

\* The packs of those that may all be carried out are as many as they take.
LEMMA TogetherTheyTake ==
    ASSUME NEW list, NEW W \in SUBSET Clerks, IsFiniteSet(W), TakeTogether(list, W)
    PROVE  /\ \A c \in W : Takes(list[c]) \in Nat
           /\ SumOver([c \in Clerks |-> Takes(list[c])], W) <= Cardinality(LivePacks)
<1>1. PICK size : size = [c \in Clerks |-> Takes(list[c])]
    OBVIOUS
<1>2. PICK Of : Of = [c \in Clerks |-> list[c].packs]
    OBVIOUS
<1>3. \A c \in W : /\ size[c] \in Nat /\ Of[c] \subseteq LivePacks /\ Of[c] \subseteq Packs
                   /\ Cardinality(Of[c]) = size[c] /\ IsFiniteSet(Of[c])
  <2> SUFFICES ASSUME NEW c \in W
               PROVE  /\ size[c] \in Nat /\ Of[c] \subseteq LivePacks /\ Of[c] \subseteq Packs
                      /\ Cardinality(Of[c]) = size[c] /\ IsFiniteSet(Of[c])
      OBVIOUS
  <2>1. /\ c \in Clerks /\ list[c].packs \subseteq LivePacks
        /\ Cardinality(list[c].packs) = Takes(list[c])
      BY DEF TakeTogether
  <2>2. Takes(list[c]) \in Nat
      BY <2>1, PackSetsAreFinite, FS_Subset, FS_CardinalityType
  <2>3. list[c].packs \in SUBSET Packs
      BY <2>1 DEF LivePacks
  <2> QED
      BY <1>1, <1>2, <2>1, <2>2, <2>3, PackSetsAreFinite
<1>4. \A c, d \in W : c # d => Of[c] \cap Of[d] = {}
    BY <1>2 DEF TakeTogether
<1>5. PICK Good : Good = {V \in SUBSET W : LET All == UNION {Of[c] : c \in V} IN
                             /\ IsFiniteSet(All) /\ All \subseteq LivePacks
                             /\ SumOver(size, V) = Cardinality(All)}
    OBVIOUS
<1>6. {} \in Good
  <2>1. UNION {Of[c] : c \in {}} = {}
      OBVIOUS
  <2> QED
      BY <1>5, <2>1, FS_EmptySet, SumOverEmpty
<1>7. ASSUME NEW V \in SUBSET W, NEW x \in W \ V, V \in Good PROVE V \cup {x} \in Good
  <2>1. PICK All : All = UNION {Of[c] : c \in V}
      OBVIOUS
  <2>2. IsFiniteSet(All) /\ All \subseteq LivePacks /\ SumOver(size, V) = Cardinality(All)
      BY <1>5, <1>7, <2>1
  <2>3. UNION {Of[c] : c \in V \cup {x}} = All \cup Of[x]
      BY <2>1
  <2>4. All \cap Of[x] = {}
      BY <1>4, <2>1
  <2>5. Of[x] \subseteq LivePacks /\ IsFiniteSet(Of[x]) /\ Cardinality(Of[x]) = size[x] /\ size[x] \in Nat
      BY <1>3
  <2>6. IsFiniteSet(All \cup Of[x]) /\ Cardinality(All \cup Of[x]) = Cardinality(All) + size[x]
    <3>1. Cardinality(All) \in Nat /\ Cardinality(All \cap Of[x]) = 0
        BY <2>2, <2>4, FS_CardinalityType, FS_EmptySet
    <3>2. Cardinality(All \cup Of[x]) = Cardinality(All) + Cardinality(Of[x]) - Cardinality(All \cap Of[x])
        BY <2>2, <2>5, FS_Union
    <3> QED
        BY <2>2, <2>5, <3>1, <3>2, FS_Union
  <2>7. IsFiniteSet(V)
      BY FS_Subset
  <2>8. SumOver(size, V \cup {x}) = SumOver(size, V) + size[x]
      BY <1>3, <2>5, <2>7, SumOverAdd
  <2> QED
      BY <1>5, <2>2, <2>3, <2>5, <2>6, <2>8
<1>8. W \in Good
    BY <1>6, <1>7, FiniteSetInduction
<1>9. PICK All : IsFiniteSet(All) /\ All \subseteq LivePacks /\ SumOver(size, W) = Cardinality(All)
    BY <1>5, <1>8
<1>10. Cardinality(All) <= Cardinality(LivePacks)
    BY <1>9, FS_Subset, PackSetsAreFinite
<1> QED
    BY <1>1, <1>3, <1>9, <1>10

\* What is taken from batches smallest number first.
LEMMA TakenFromBatches ==
    ASSUME NEW S \in SUBSET Expiries, NEW space \in [S -> Int], NEW n \in Nat
    PROVE  /\ InOrder(n, space) \in [S -> Nat]
           /\ Sum(InOrder(n, space)) \in Nat /\ Sum(InOrder(n, space)) <= n
           /\ Sum(space) \in Int
           /\ Sum(InOrder(n, space)) < n => Sum(space) <= Sum(InOrder(n, space))
<1>1. IsFiniteSet(S)
    BY FS_Subset, PacksAssumption
<1>2. S \subseteq Int
    BY PacksAssumption
<1>3. PICK open : open = [b \in S |-> NotNegative(space[b])]
    OBVIOUS
<1>4. PICK parts : parts = InOrder(n, space)
    OBVIOUS
<1>5. parts \in [S -> Nat] /\ Sum(parts) = Lesser(Sum(open), n)
    BY <1>1, <1>2, <1>3, <1>4, InOrderShares
<1>6. open \in [S -> Int] /\ \A b \in S : space[b] <= open[b]
    BY <1>3 DEF NotNegative
<1>7. Sum(open) \in Int /\ Sum(space) \in Int /\ Sum(parts) \in Nat
    BY <1>1, <1>5, <1>6, IntSum, NatSum
<1>8. Sum(space) <= Sum(open)
  <2>1. Sum(space) = SumOver(space, S) /\ Sum(open) = SumOver(open, S)
      BY <1>6, SumIsOverDomain
  <2>2. \A b \in S : space[b] \in Int /\ open[b] \in Int /\ space[b] <= open[b]
      BY <1>6
  <2>3. SumOver(space, S) <= SumOver(open, S)
      BY <1>1, <2>2, SumOverMonotone
  <2> QED
      BY <2>1, <2>3
<1> QED
    BY <1>4, <1>5, <1>7, <1>8 DEF Lesser

-----------------------------------------------------------------------------
LEMMA PacksInvInit == PacksInit => PacksInv
<1> SUFFICES ASSUME PacksInit PROVE PacksInv
    OBVIOUS
<1>1. PackShapes
  <2>1. Cardinality(OldPacks) \in Nat
      BY PackSetsAreFinite, PacksAssumption
  <2>2. policy \in {"sellable", "quarantined"} /\ quantity \in Nat /\ blocked \in Nat
        /\ expired \subseteq Expiries /\ blind \in BOOLEAN /\ revived \subseteq Packs
      BY <2>1 DEF PacksInit
  <2>3. batch \in [Expiries -> Int]
      BY DEF PacksInit
  <2>4. code \in [Packs -> Codes] /\ soldTimes \in [Packs -> Nat]
      BY DEF PacksInit, Codes
  <2>5. tickets \in [Clerks -> {NoTicket} \cup ToRegister \cup ToSell \cup ToFindBatches
                               \cup ToWriteOff \cup ToQuarantine]
      BY DEF PacksInit
  <2> QED
      BY <2>2, <2>3, <2>4, <2>5 DEF PackShapes
<1>2. TicketsFit
    BY DEF PacksInit, TicketsFit, NoTicket
<1>3. RowCountsPacks
  <2>1. UncodedPacks = OldPacks /\ LivePacks = {}
      BY PacksAssumption DEF PacksInit, UncodedPacks, LivePacks
  <2>2. Cardinality(OldPacks) \in Nat
      BY PackSetsAreFinite, PacksAssumption
  <2> QED
      BY <2>1, <2>2, FS_EmptySet DEF PacksInit, RowCountsPacks
<1>4. EnoughBeyondBatches
  <2> SUFFICES ASSUME NEW W \in SUBSET Clerks, IsFiniteSet(W), MayAllCommit(W)
               PROVE  SumOver(BeyondBatches(tickets), W) <= quantity - Sum(batch)
      BY DEF EnoughBeyondBatches
  <2>1. W = {}
      BY DEF PacksInit, MayAllCommit, TakeTogether, NoTicket
  <2>2. DOMAIN batch = Expiries /\ \A b \in Expiries : batch[b] = 0
      BY DEF PacksInit
  <2>3. Sum(batch) = 0
      BY <2>2, ZeroSum, PacksAssumption
  <2>4. quantity \in Nat
      BY <1>1 DEF PackShapes
  <2> QED
      BY <2>1, <2>3, <2>4, SumOverEmpty
<1> QED
    BY <1>1, <1>2, <1>3, <1>4 DEF PacksInv

\* Nothing that was not carried out together is so after a step that leaves sales and
\* write-offs alone and makes no pack live, and the row stays as far beyond the
\* batches as it was.
LEMMA StillEnough ==
    ASSUME PackShapes, PackShapes', EnoughBeyondBatches,
           quantity' - Sum(batch') >= quantity - Sum(batch),
           \A c \in Clerks : tickets'[c].at \in {"sell", "writeOff"} =>
               /\ tickets'[c] = tickets[c]
               /\ (tickets[c].packs \subseteq LivePacks' => tickets[c].packs \subseteq LivePacks)
    PROVE  EnoughBeyondBatches'
<1> SUFFICES ASSUME NEW W \in SUBSET Clerks, IsFiniteSet(W), MayAllCommit(W)'
             PROVE  SumOver(BeyondBatches(tickets'), W) <= quantity' - Sum(batch')
    BY DEF EnoughBeyondBatches
<1>1. \A c \in W : c \in Clerks /\ tickets'[c] = tickets[c] /\ tickets[c].at \in {"sell", "writeOff"}
    BY DEF MayAllCommit, TakeTogether
<1>2. MayAllCommit(W)
    BY <1>1 DEF MayAllCommit, TakeTogether
<1>3. SumOver(BeyondBatches(tickets), W) <= quantity - Sum(batch)
    BY <1>2 DEF EnoughBeyondBatches
<1>4. \A c \in W : BeyondBatches(tickets')[c] = BeyondBatches(tickets)[c]
    BY <1>1 DEF BeyondBatches
<1>5. SumOver(BeyondBatches(tickets'), W) = SumOver(BeyondBatches(tickets), W)
    BY <1>4, SumOverSame
<1>6. SumOver(BeyondBatches(tickets), W) \in Int
  <2>1. \A c \in W : BeyondBatches(tickets)[c] \in Int
      BY <1>1, BeyondType
  <2> QED
      BY <2>1, SumOverType
<1>7. /\ Sum(batch) \in Int /\ Sum(batch') \in Int /\ quantity \in Nat /\ quantity' \in Nat
    BY BatchSumType, IntSum, PacksAssumption DEF PackShapes
<1> QED
    BY <1>3, <1>5, <1>6, <1>7

\* A request is made or given up, and nothing else changes.
LEMMA TicketChanges ==
    ASSUME PacksInv, NEW c \in Clerks,
           NEW d \in {NoTicket} \cup ToRegister \cup ToFindBatches \cup ToQuarantine,
           tickets' = [tickets EXCEPT ![c] = d],
           d.at \in {"batches", "quarantine"} => \A p \in d.packs : code[p] # "unknown",
           UNCHANGED <<policy, quantity, blocked, batch, expired, code, soldTimes, blind, revived>>
    PROVE  PacksInv'
<1>1. PackShapes'
    BY DEF PacksInv, PackShapes
<1>2. \A e \in Clerks : tickets'[e] = IF e = c THEN d ELSE tickets[e]
    BY DEF PacksInv, PackShapes
<1>3. TicketsFit'
  <2>1. TicketsFit
      BY DEF PacksInv
  <2>2. \A e \in Clerks : tickets'[e].at \in {"sell", "batches", "writeOff", "quarantine"} =>
            \A p \in tickets'[e].packs : code[p] # "unknown"
    <3> SUFFICES ASSUME NEW e \in Clerks, tickets'[e].at \in {"sell", "batches", "writeOff", "quarantine"}
                 PROVE  \A p \in tickets'[e].packs : code[p] # "unknown"
        OBVIOUS
    <3>1. d.at \notin {"sell", "writeOff"}
        BY DEF NoTicket, ToRegister, ToFindBatches, ToQuarantine
    <3>2. CASE e = c
        BY <1>2, <3>1, <3>2
    <3>3. CASE e # c
        BY <1>2, <2>1, <3>3 DEF TicketsFit
    <3> QED
        BY <3>2, <3>3
  <2>3. code' = code /\ revived' = revived
      OBVIOUS
  <2> QED
      BY <2>1, <2>2, <2>3 DEF TicketsFit
<1>4. LivePacks' = LivePacks /\ UncodedPacks' = UncodedPacks
    BY DEF LivePacks, UncodedPacks
<1>5. RowCountsPacks' <=> RowCountsPacks
    BY <1>4 DEF RowCountsPacks
<1>6. d.at \notin {"sell", "writeOff"}
    BY DEF NoTicket, ToRegister, ToFindBatches, ToQuarantine
<1>7. EnoughBeyondBatches => EnoughBeyondBatches'
  <2>1. \A e \in Clerks : tickets'[e].at \in {"sell", "writeOff"} =>
            /\ tickets'[e] = tickets[e]
            /\ (tickets[e].packs \subseteq LivePacks' => tickets[e].packs \subseteq LivePacks)
      BY <1>2, <1>4, <1>6
  <2>2. quantity' - Sum(batch') >= quantity - Sum(batch)
    <3>1. Sum(batch) \in Int /\ quantity \in Nat /\ quantity' = quantity /\ Sum(batch') = Sum(batch)
        BY BatchSumType DEF PacksInv, PackShapes
    <3> QED
        BY <3>1
  <2> QED
      BY <1>1, <2>1, <2>2, StillEnough DEF PacksInv
<1> QED
    BY <1>1, <1>3, <1>5, <1>7 DEF PacksInv

LEMMA RefusedHolds ==
    ASSUME PacksInv, NEW c \in Clerks, Refused(c)
    PROVE  PacksInv'
<1>1. NoTicket.at = "idle"
    BY DEF NoTicket
<1> QED
    BY <1>1, TicketChanges DEF Refused

\* A sale or a write-off that has read the batches joins the others: what it takes
\* beyond them is there, as it has left nothing in the batches it takes from.
LEMMA StillEnoughWithOneMore ==
    ASSUME PackShapes, RowCountsPacks, EnoughBeyondBatches,
           NEW c \in Clerks, NEW e, tickets' = [tickets EXCEPT ![c] = e],
           Takes(e) \in Nat, Sum(e.from) \in Nat,
           Sum(e.from) = Takes(e) \/ Sum(batch) <= Sum(e.from),
           UNCHANGED <<quantity, batch, code, revived>>
    PROVE  EnoughBeyondBatches'
<1> SUFFICES ASSUME NEW W \in SUBSET Clerks, IsFiniteSet(W), MayAllCommit(W)'
             PROVE  SumOver(BeyondBatches(tickets'), W) <= quantity' - Sum(batch')
    BY DEF EnoughBeyondBatches
<1>1. PICK list : list = tickets'
    OBVIOUS
<1>2. PICK beyond : beyond = BeyondBatches(tickets)
    OBVIOUS
<1>3. PICK new : new = BeyondBatches(list)
    OBVIOUS
<1>4. PICK R : R = W \ {c}
    OBVIOUS
<1>5. \A f \in Clerks : list[f] = IF f = c THEN e ELSE tickets[f]
    BY <1>1 DEF PackShapes
<1>6. TakeTogether(list, W)
  <2>1. LivePacks' = LivePacks
      BY DEF LivePacks
  <2> QED
      BY <1>1, <2>1 DEF MayAllCommit, TakeTogether
<1>7. IsFiniteSet(R) /\ R \in SUBSET Clerks
    BY <1>4, FS_Difference
<1>8. \A f \in R : list[f] = tickets[f] /\ new[f] = beyond[f]
    BY <1>2, <1>3, <1>4, <1>5 DEF BeyondBatches
<1>9. MayAllCommit(R)
    BY <1>4, <1>6, <1>8 DEF MayAllCommit, TakeTogether
<1>10. SumOver(beyond, R) <= quantity - Sum(batch)
    BY <1>2, <1>7, <1>9 DEF EnoughBeyondBatches
<1>11. PICK size : size = [f \in Clerks |-> Takes(list[f])]
    OBVIOUS
<1>12. \A f \in R : beyond[f] \in Int /\ size[f] \in Int /\ beyond[f] <= size[f]
  <2> SUFFICES ASSUME NEW f \in R
               PROVE  beyond[f] \in Int /\ size[f] \in Int /\ beyond[f] <= size[f]
      OBVIOUS
  <2>1. tickets[f].at \in {"sell", "writeOff"} /\ f \in Clerks
      BY <1>7, <1>9 DEF MayAllCommit, TakeTogether
  <2>2. /\ Takes(tickets[f]) \in Nat /\ Sum(tickets[f].from) \in Nat
        /\ beyond[f] = Takes(tickets[f]) - Sum(tickets[f].from)
      BY <1>2, <2>1, BeyondType
  <2>3. size[f] = Takes(tickets[f])
      BY <1>8, <1>11, <2>1
  <2> QED
      BY <2>2, <2>3
<1>13. SumOver(beyond, R) \in Int /\ SumOver(size, R) \in Int /\ SumOver(beyond, R) <= SumOver(size, R)
    BY <1>7, <1>12, SumOverType, SumOverMonotone
<1>14. SumOver(new, R) = SumOver(beyond, R)
    BY <1>7, <1>8, SumOverSame
<1>15. quantity \in Nat /\ Sum(batch) \in Int /\ quantity' = quantity /\ Sum(batch') = Sum(batch)
    BY BatchSumType DEF PackShapes
<1>16. CASE c \notin W
  <2>1. R = W
      BY <1>4, <1>16
  <2> QED
      BY <1>1, <1>3, <1>10, <1>14, <1>15, <2>1
<1>17. CASE c \in W
  <2>1. new[c] = Takes(e) - Sum(e.from) /\ size[c] = Takes(e)
      BY <1>3, <1>5, <1>11 DEF BeyondBatches
  <2>2. \A f \in W : new[f] \in Int /\ size[f] \in Int
      BY <1>4, <1>8, <1>12, <2>1
  <2>3. SumOver(new, W) = SumOver(new, R) + new[c] /\ SumOver(size, W) = SumOver(size, R) + size[c]
      BY <1>4, <1>17, <2>2, SumOverRemove
  <2>4. SumOver(size, W) <= Cardinality(LivePacks)
      BY <1>6, <1>11, TogetherTheyTake
  <2>5. Cardinality(LivePacks) <= quantity /\ Cardinality(LivePacks) \in Nat
      BY PackSetsAreFinite DEF RowCountsPacks
  <2>6. SumOver(new, W) <= quantity - Sum(batch)
    <3>1. CASE Sum(e.from) = Takes(e)
        BY <1>10, <1>13, <1>14, <2>1, <2>3, <3>1
    <3>2. CASE Sum(batch) <= Sum(e.from)
        BY <1>13, <1>14, <1>15, <2>1, <2>3, <2>4, <2>5, <3>2
    <3> QED
        BY <3>1, <3>2
  <2> QED
      BY <1>1, <1>3, <1>15, <2>6
<1> QED
    BY <1>16, <1>17

LEMMA TakerJoins ==
    ASSUME PacksInv, NEW c \in Clerks, NEW e \in ToSell \cup ToWriteOff,
           tickets' = [tickets EXCEPT ![c] = e], \A p \in e.packs : code[p] # "unknown",
           Takes(e) \in Nat, Sum(e.from) \in Nat,
           policy = "quarantined" => Sum(e.from) = Takes(e) \/ Sum(batch) <= Sum(e.from),
           UNCHANGED <<policy, quantity, blocked, batch, expired, code, soldTimes, blind, revived>>
    PROVE  PacksInv'
<1>1. PackShapes'
    BY DEF PacksInv, PackShapes
<1>2. \A f \in Clerks : tickets'[f] = IF f = c THEN e ELSE tickets[f]
    BY DEF PacksInv, PackShapes
<1>3. TicketsFit'
  <2>1. TicketsFit /\ code' = code /\ revived' = revived
      BY DEF PacksInv
  <2>2. \A f \in Clerks : tickets'[f].at \in {"sell", "batches", "writeOff", "quarantine"} =>
            \A p \in tickets'[f].packs : code[p] # "unknown"
      BY <1>2, <2>1 DEF TicketsFit
  <2> QED
      BY <2>1, <2>2 DEF TicketsFit
<1>4. RowCountsPacks' <=> RowCountsPacks
    BY DEF RowCountsPacks, LivePacks, UncodedPacks
<1>5. ASSUME RowCountsPacks, EnoughBeyondBatches, policy = "quarantined" PROVE EnoughBeyondBatches'
    BY <1>5, StillEnoughWithOneMore DEF PacksInv
<1> QED
    BY <1>1, <1>3, <1>4, <1>5 DEF PacksInv

\* One of them is carried out: what it took from the row beyond the batches had been
\* set aside for it.
LEMMA StillEnoughWithOneLess ==
    ASSUME PackShapes, EnoughBeyondBatches, NEW c \in Clerks,
           tickets[c].at \in {"sell", "writeOff"},
           tickets[c].packs \subseteq LivePacks, LivePacks' = LivePacks \ tickets[c].packs,
           Cardinality(tickets[c].packs) = Takes(tickets[c]),
           tickets' = [tickets EXCEPT ![c] = NoTicket],
           quantity' = quantity - Takes(tickets[c]),
           Sum(batch') = Sum(batch) - Sum(tickets[c].from)
    PROVE  EnoughBeyondBatches'
<1> SUFFICES ASSUME NEW W \in SUBSET Clerks, IsFiniteSet(W), MayAllCommit(W)'
             PROVE  SumOver(BeyondBatches(tickets'), W) <= quantity' - Sum(batch')
    BY DEF EnoughBeyondBatches
<1>1. PICK beyond : beyond = BeyondBatches(tickets)
    OBVIOUS
<1>2. PICK new : new = BeyondBatches(tickets')
    OBVIOUS
<1>3. \A f \in Clerks : tickets'[f] = IF f = c THEN NoTicket ELSE tickets[f]
    BY DEF PackShapes
<1>4. c \notin W
    BY <1>3 DEF MayAllCommit, TakeTogether, NoTicket
<1>5. \A f \in W : f \in Clerks /\ f # c /\ tickets'[f] = tickets[f]
    BY <1>3, <1>4
<1>6. \A f \in W : new[f] = beyond[f]
    BY <1>1, <1>2, <1>5 DEF BeyondBatches
<1>7. \A f \in W : tickets[f].packs \subseteq LivePacks /\ tickets[f].packs \cap tickets[c].packs = {}
    BY <1>5 DEF MayAllCommit, TakeTogether
<1>8. MayAllCommit(W \cup {c})
    BY <1>5, <1>7 DEF MayAllCommit, TakeTogether
<1>9. W \cup {c} \in SUBSET Clerks /\ IsFiniteSet(W \cup {c})
    BY FS_AddElement
<1>10. SumOver(beyond, W \cup {c}) <= quantity - Sum(batch)
    BY <1>1, <1>8, <1>9 DEF EnoughBeyondBatches
<1>11. \A f \in W \cup {c} : beyond[f] \in Int
  <2> SUFFICES ASSUME NEW f \in W \cup {c} PROVE beyond[f] \in Int
      OBVIOUS
  <2>1. tickets[f].at \in {"sell", "writeOff"} /\ f \in Clerks
      BY <1>8 DEF MayAllCommit, TakeTogether
  <2> QED
      BY <1>1, <2>1, BeyondType
<1>12. SumOver(beyond, W \cup {c}) = SumOver(beyond, W) + beyond[c]
    BY <1>4, <1>11, SumOverAdd
<1>13. /\ beyond[c] = Takes(tickets[c]) - Sum(tickets[c].from)
       /\ Takes(tickets[c]) \in Nat /\ Sum(tickets[c].from) \in Nat
    BY <1>1, BeyondType
<1>14. SumOver(new, W) = SumOver(beyond, W)
    BY <1>6, SumOverSame
<1>15. SumOver(beyond, W) \in Int /\ quantity \in Nat /\ Sum(batch) \in Int
    BY <1>11, SumOverType, BatchSumType DEF PackShapes
<1>16. SumOver(new, W) <= quantity' - Sum(batch')
    BY <1>10, <1>12, <1>13, <1>14, <1>15
<1> QED
    BY <1>2, <1>16

LEMMA ExpiresHolds ==
    ASSUME PacksInv, NEW b \in Expiries, Expires(b)
    PROVE  PacksInv'
<1>1. UNCHANGED <<policy, quantity, blocked, batch, code, soldTimes, blind, revived, tickets>>
    BY DEF Expires
<1>2. PackShapes'
    BY <1>1 DEF Expires, PacksInv, PackShapes
<1>3. LivePacks' = LivePacks /\ UncodedPacks' = UncodedPacks
    BY <1>1 DEF LivePacks, UncodedPacks
<1>4. TicketsFit'
    BY <1>1 DEF PacksInv, TicketsFit
<1>5. RowCountsPacks' <=> RowCountsPacks
    BY <1>1, <1>3 DEF RowCountsPacks
<1>6. EnoughBeyondBatches => EnoughBeyondBatches'
    BY <1>1, <1>3 DEF EnoughBeyondBatches, MayAllCommit, TakeTogether
<1> QED
    BY <1>1, <1>2, <1>4, <1>5, <1>6 DEF PacksInv

LEMMA ReceivesBatchHolds ==
    ASSUME PacksInv, NEW b \in Expiries, NEW P \in SUBSET Packs, ReceivesBatch(b, P)
    PROVE  PacksInv'
<1>1. /\ batch[b] = 0 /\ \A p \in P : code[p] = "unknown" /\ p \notin OldPacks
      /\ batch' = [batch EXCEPT ![b] = Cardinality(P)]
      /\ quantity' = quantity + Cardinality(P)
      /\ code' = [p \in Packs |-> IF p \in P THEN "in_stock" ELSE code[p]]
      /\ UNCHANGED <<policy, blocked, expired, soldTimes, blind, revived, tickets>>
    BY DEF ReceivesBatch, InState
<1>2. Cardinality(P) \in Nat /\ IsFiniteSet(P)
    BY PackSetsAreFinite
<1>3. quantity' \in Nat /\ batch' \in [Expiries -> Int] /\ code' \in [Packs -> Codes]
    BY <1>1, <1>2 DEF PacksInv, PackShapes, Codes
<1>4. PackShapes'
    BY <1>1, <1>3 DEF PacksInv, PackShapes
<1>5. TicketsFit'
  <2>1. \A p \in Packs : code[p] # "unknown" => code'[p] = code[p]
      BY <1>1
  <2>2. \A c \in Clerks : tickets[c].at \in {"sell", "batches", "writeOff", "quarantine"} => tickets[c].packs \subseteq Packs
      BY DEF PacksInv, PackShapes, NoTicket, ToRegister, ToSell, ToFindBatches, ToWriteOff, ToQuarantine
  <2> QED
      BY <1>1, <2>1, <2>2 DEF PacksInv, PackShapes, TicketsFit
<1>6. UncodedPacks' = UncodedPacks
    BY <1>1, PacksAssumption DEF UncodedPacks
<1>7. LivePacks' = LivePacks \cup P /\ LivePacks \cap P = {}
  <2>1. P \cap revived = {}
      BY <1>1 DEF PacksInv, TicketsFit
  <2> QED
      BY <1>1, <2>1 DEF LivePacks
<1>8. Cardinality(LivePacks') = Cardinality(LivePacks) + Cardinality(P)
  <2>1. Cardinality(LivePacks \cap P) = 0
      BY <1>7, FS_EmptySet
  <2>2. IsFiniteSet(LivePacks) /\ Cardinality(LivePacks) \in Nat
      BY PackSetsAreFinite
  <2>3. Cardinality(LivePacks \cup P) = Cardinality(LivePacks) + Cardinality(P) - Cardinality(LivePacks \cap P)
      BY <1>2, <2>2, FS_Union
  <2> QED
      BY <1>2, <1>7, <2>1, <2>2, <2>3
<1>9. RowCountsPacks => RowCountsPacks'
  <2>1. Cardinality(UncodedPacks) \in Nat /\ Cardinality(LivePacks) \in Nat
      BY PackSetsAreFinite
  <2> QED
      BY <1>1, <1>2, <1>6, <1>8, <2>1 DEF RowCountsPacks
<1>10. EnoughBeyondBatches => EnoughBeyondBatches'
  <2>1. PICK now : now = batch'
      OBVIOUS
  <2>2. OneChanged(batch, now, Expiries, b)
      BY <1>1, <1>3, <2>1, PacksAssumption DEF OneChanged, PacksInv, PackShapes
  <2>3. Sum(now) = Sum(batch) + now[b] - batch[b] /\ Sum(batch) \in Int
      BY <2>2, OneChanges
  <2>4. now[b] = Cardinality(P) /\ quantity \in Nat
      BY <1>1, <2>1 DEF PacksInv, PackShapes
  <2>5. quantity' - Sum(batch') >= quantity - Sum(batch)
      BY <1>1, <1>2, <2>1, <2>3, <2>4
  <2>6. \A c \in Clerks : tickets'[c].at \in {"sell", "writeOff"} =>
            /\ tickets'[c] = tickets[c]
            /\ (tickets[c].packs \subseteq LivePacks' => tickets[c].packs \subseteq LivePacks)
      BY <1>1, <1>7 DEF PacksInv, TicketsFit
  <2> QED
      BY <1>4, <2>5, <2>6, StillEnough DEF PacksInv
<1> QED
    BY <1>1, <1>4, <1>5, <1>9, <1>10 DEF PacksInv

-----------------------------------------------------------------------------
(* Registering. *)

LEMMA RegisterReadsHolds ==
    ASSUME PacksInv, NEW c \in Clerks, NEW P \in SUBSET Packs, RegisterReads(c, P)
    PROVE  PacksInv'
<1>1. PICK d : d = [at |-> "register", packs |-> P]
    OBVIOUS
<1>2. d \in ToRegister /\ d.at = "register"
    BY <1>1 DEF RegisterReads, ToRegister
<1>3. /\ tickets' = [tickets EXCEPT ![c] = d]
      /\ UNCHANGED <<policy, quantity, blocked, batch, expired, code, soldTimes, blind, revived>>
    BY <1>1 DEF RegisterReads, Asks
<1> QED
    BY <1>2, <1>3, TicketChanges

LEMMA RegisterCommitsHolds ==
    ASSUME PacksInv, NEW c \in Clerks, RegisterCommits(c)
    PROVE  PacksInv'
<1>1. PICK P : P = tickets[c].packs
    OBVIOUS
<1>2. P \subseteq OldPacks /\ P \in SUBSET Packs
  <2>1. tickets[c] \in ToRegister
      BY DEF RegisterCommits, PacksInv, PackShapes, NoTicket, ToSell, ToFindBatches, ToWriteOff, ToQuarantine
  <2> QED
      BY <1>1, <2>1, PacksAssumption DEF ToRegister
<1>3. CASE ~(P \subseteq InState("unknown"))
    BY <1>1, <1>3, RefusedHolds DEF RegisterCommits
<1>4. CASE P \subseteq InState("unknown")
  <2>1. /\ code' = [p \in Packs |-> IF p \in P THEN "in_stock" ELSE code[p]]
        /\ tickets' = [tickets EXCEPT ![c] = NoTicket]
        /\ UNCHANGED <<policy, quantity, blocked, batch, expired, soldTimes, blind, revived>>
      BY <1>1, <1>4 DEF RegisterCommits
  <2>2. \A p \in P : code[p] = "unknown"
      BY <1>4 DEF InState
  <2>3. PackShapes'
    <3>1. code' \in [Packs -> Codes]
        BY <2>1 DEF PacksInv, PackShapes, Codes
    <3> QED
        BY <2>1, <3>1 DEF PacksInv, PackShapes
  <2>4. \A e \in Clerks : tickets'[e] = IF e = c THEN NoTicket ELSE tickets[e]
      BY <2>1 DEF PacksInv, PackShapes
  <2>5. TicketsFit'
    <3>1. \A p \in Packs : code[p] # "unknown" => code'[p] = code[p]
        BY <2>1, <2>2
    <3>2. \A e \in Clerks : tickets[e].at \in {"sell", "batches", "writeOff", "quarantine"} => tickets[e].packs \subseteq Packs
        BY DEF PacksInv, PackShapes, NoTicket, ToRegister, ToSell, ToFindBatches, ToWriteOff, ToQuarantine
    <3> QED
        BY <2>1, <2>4, <3>1, <3>2 DEF PacksInv, PackShapes, TicketsFit, NoTicket
  <2>6. UncodedPacks' = UncodedPacks \ P /\ P \subseteq UncodedPacks
      BY <1>2, <2>1, <2>2, PacksAssumption DEF UncodedPacks
  <2>7. LivePacks' = LivePacks \cup P /\ LivePacks \cap P = {}
    <3>1. P \cap revived = {}
        BY <2>2 DEF PacksInv, TicketsFit
    <3> QED
        BY <1>2, <2>1, <2>2, <3>1 DEF LivePacks
  <2>8. RowCountsPacks => RowCountsPacks'
    <3>1. /\ IsFiniteSet(LivePacks) /\ Cardinality(LivePacks) \in Nat
          /\ IsFiniteSet(UncodedPacks) /\ Cardinality(UncodedPacks) \in Nat
          /\ IsFiniteSet(P) /\ Cardinality(P) \in Nat
        BY <1>2, PackSetsAreFinite
    <3>2. Cardinality(LivePacks \cap P) = 0 /\ UncodedPacks \cap P = P
        BY <2>6, <2>7, FS_EmptySet
    <3>3. Cardinality(LivePacks \cup P) = Cardinality(LivePacks) + Cardinality(P) - Cardinality(LivePacks \cap P)
        BY <3>1, FS_Union
    <3>4. Cardinality(UncodedPacks \ P) = Cardinality(UncodedPacks) - Cardinality(UncodedPacks \cap P)
        BY <3>1, FS_Difference
    <3>5. Cardinality(UncodedPacks') = Cardinality(UncodedPacks) - Cardinality(P)
        BY <2>6, <3>2, <3>4
    <3>6. Cardinality(LivePacks') = Cardinality(LivePacks) + Cardinality(P)
      <4>1. Cardinality(LivePacks') = Cardinality(LivePacks) + Cardinality(P) - 0
          BY <2>7, <3>2, <3>3
      <4> QED
          BY <3>1, <4>1
    <3>7. Cardinality(UncodedPacks') + Cardinality(LivePacks')
            = Cardinality(UncodedPacks) + Cardinality(LivePacks)
        BY <3>1, <3>5, <3>6
    <3> QED
        BY <2>1, <3>7 DEF RowCountsPacks
  <2>9. EnoughBeyondBatches => EnoughBeyondBatches'
    <3>1. \A e \in Clerks : tickets'[e].at \in {"sell", "writeOff"} =>
              /\ tickets'[e] = tickets[e]
              /\ (tickets[e].packs \subseteq LivePacks' => tickets[e].packs \subseteq LivePacks)
        BY <2>2, <2>4, <2>7 DEF PacksInv, TicketsFit, NoTicket
    <3>2. quantity' - Sum(batch') >= quantity - Sum(batch)
      <4>1. Sum(batch) \in Int /\ quantity \in Nat /\ quantity' = quantity /\ Sum(batch') = Sum(batch)
          BY <2>1, BatchSumType DEF PacksInv, PackShapes
      <4> QED
          BY <4>1
    <3> QED
        BY <2>3, <3>1, <3>2, StillEnough DEF PacksInv
  <2> QED
      BY <2>1, <2>3, <2>5, <2>8, <2>9 DEF PacksInv
<1> QED
    BY <1>3, <1>4

-----------------------------------------------------------------------------
(* Selling. *)

\* What is taken from fresh batches is all, where nothing else is for sale, unless no
\* batch has anything left.
LEMMA FefoTakesAll ==
    ASSUME PackShapes, NEW n \in Nat
    PROVE  /\ AllocateFefo(n) \in [Expiries -> Nat] /\ Sum(AllocateFefo(n)) \in Nat
           /\ policy = "quarantined" /\ n <= SellableQuantity =>
                  Sum(AllocateFefo(n)) = n \/ Sum(batch) <= Sum(AllocateFefo(n))
<1>1. PICK S : S = Expiries \ expired
    OBVIOUS
<1>2. PICK space : space = [b \in S |-> batch[b]]
    OBVIOUS
<1>3. S \in SUBSET Expiries /\ space \in [S -> Int] /\ IsFiniteSet(Expiries) /\ IsFiniteSet(S) /\ S \subseteq Int
    BY <1>1, <1>2, PacksAssumption, FS_Subset DEF PackShapes
<1>4. PICK fresh : fresh = InOrder(n, space)
    OBVIOUS
<1>5. PICK open : open = [b \in S |-> NotNegative(space[b])]
    OBVIOUS
<1>6. open \in [S -> Nat] /\ \A b \in S : open[b] = NotNegative(batch[b])
    BY <1>2, <1>3, <1>5 DEF NotNegative
<1>7. fresh \in [S -> Nat] /\ Sum(fresh) = Lesser(Sum(open), n) /\ Sum(open) \in Nat /\ Sum(fresh) \in Nat
    BY <1>3, <1>4, <1>5, <1>6, InOrderShares, NatSum
<1>8. PICK all : all = AllocateFefo(n)
    OBVIOUS
<1>9. all = [b \in Expiries |-> IF b \in expired THEN 0 ELSE fresh[b]]
    BY <1>1, <1>2, <1>4, <1>8 DEF AllocateFefo
<1>10. all \in [Expiries -> Nat]
    BY <1>1, <1>7, <1>9
<1>11. Sum(all) = Sum(fresh)
  <2>1. Sum(all) = SumOver(all, Expiries) /\ Sum(fresh) = SumOver(fresh, S)
      BY <1>7, <1>10, SumIsOverDomain
  <2>2. SumOver(all, Expiries) = SumOver(all, S)
    <3>1. \A b \in Expiries : all[b] \in Int
        BY <1>10
    <3>2. \A b \in Expiries \ S : all[b] = 0
        BY <1>1, <1>9
    <3> QED
        BY <1>3, <3>1, <3>2, SumOverWhereNotZero
  <2>3. SumOver(all, S) = SumOver(fresh, S)
    <3>1. \A b \in S : all[b] = fresh[b]
        BY <1>1, <1>9
    <3> QED
        BY <1>3, <3>1, SumOverSame
  <2> QED
      BY <2>1, <2>2, <2>3
<1>12. ASSUME policy = "quarantined", n <= SellableQuantity, Remaining # {} PROVE Sum(fresh) = n
  <2>1. SumOver(batch, Remaining \ expired) = Sum(open)
    <3>1. PICK T : T = Remaining \ expired
        OBVIOUS
    <3>2. T \subseteq S /\ IsFiniteSet(T) /\ \A b \in T : batch[b] = open[b]
        BY <1>1, <1>3, <1>6, <3>1, FS_Subset DEF Remaining, NotNegative, PackShapes
    <3>3. \A b \in S \ T : open[b] = 0
        BY <1>1, <1>6, <3>1 DEF Remaining, NotNegative, PackShapes
    <3>4. \A b \in S : open[b] \in Int
        BY <1>6
    <3>5. SumOver(open, S) = SumOver(open, T)
        BY <1>3, <3>2, <3>3, <3>4, SumOverWhereNotZero
    <3>6. SumOver(batch, T) = SumOver(open, T)
        BY <3>2, SumOverSame
    <3>7. DOMAIN open = S
        BY <1>6
    <3> QED
        BY <3>1, <3>5, <3>6, <3>7, SumIsOverDomain
  <2>2. SellableQuantity = NotNegative(Sum(open) + 0 - blocked)
      BY <1>12, <2>1 DEF SellableQuantity
  <2>3. blocked \in Nat
      BY DEF PackShapes
  <2>4. n <= Sum(open)
      BY <1>7, <1>12, <2>2, <2>3 DEF NotNegative
  <2> QED
      BY <1>7, <2>4 DEF Lesser
<1>13. ASSUME Remaining = {} PROVE Sum(batch) <= Sum(fresh)
  <2>1. PICK none : none = [b \in Expiries |-> 0]
      OBVIOUS
  <2>2. \A b \in Expiries : batch[b] \in Int /\ none[b] \in Int /\ batch[b] <= none[b]
      BY <1>13, <2>1 DEF Remaining, PackShapes
  <2>3. SumOver(batch, Expiries) <= SumOver(none, Expiries)
      BY <1>3, <2>2, SumOverMonotone
  <2>4. Sum(none) = 0 /\ Sum(none) = SumOver(none, Expiries)
      BY <1>3, <2>1, ZeroSum, SumIsOverDomain
  <2>5. Sum(batch) = SumOver(batch, Expiries) /\ Sum(batch) \in Int
      BY SumIsOverDomain, BatchSumType DEF PackShapes
  <2> QED
      BY <1>7, <2>3, <2>4, <2>5
<1> QED
    BY <1>7, <1>8, <1>10, <1>11, <1>12, <1>13

LEMMA SellReadsHolds ==
    ASSUME PacksInv, NEW c \in Clerks, NEW P \in SUBSET Packs, SellReads(c, P)
    PROVE  PacksInv'
<1>1. PICK n : n = Cardinality(P)
    OBVIOUS
<1>2. n \in Nat
    BY <1>1, PackSetsAreFinite
<1>3. PICK from : from = AllocateFefo(n)
    OBVIOUS
<1>4. /\ from \in [Expiries -> Nat] /\ Sum(from) \in Nat
      /\ policy = "quarantined" => Sum(from) = n \/ Sum(batch) <= Sum(from)
    BY <1>1, <1>2, <1>3, FefoTakesAll DEF PacksInv, SellReads
<1>5. PICK d : d = [at |-> "sell", packs |-> P, from |-> from]
    OBVIOUS
<1>6. d \in ToSell /\ d.from = from /\ d.packs = P /\ Takes(d) = n
    BY <1>1, <1>4, <1>5 DEF ToSell, Takes
<1>7. \A p \in P : code[p] # "unknown"
    BY DEF SellReads, InState
<1>8. /\ tickets' = [tickets EXCEPT ![c] = d]
      /\ UNCHANGED <<policy, quantity, blocked, batch, expired, code, soldTimes, blind, revived>>
    BY <1>1, <1>3, <1>5 DEF SellReads, Asks
<1> QED
    BY <1>2, <1>4, <1>6, <1>7, <1>8, TakerJoins

\* Packs that were in stock leave, with their codes.
LEMMA PacksLeave ==
    ASSUME PackShapes, NEW P \in SUBSET Packs, P \cap revived = {}, P \subseteq InState("in_stock"),
           NEW s \in {"sold", "written_off"},
           code' = [p \in Packs |-> IF p \in P THEN s ELSE code[p]], revived' = revived,
           quantity' = quantity - Cardinality(P)
    PROVE  /\ P \subseteq LivePacks /\ LivePacks' = LivePacks \ P
           /\ RowCountsPacks => RowCountsPacks'
<1>1. P \subseteq LivePacks /\ LivePacks' = LivePacks \ P
    BY DEF LivePacks, InState
<1>2. UncodedPacks' = UncodedPacks
    BY PacksAssumption DEF UncodedPacks, InState
<1>3. IsFiniteSet(LivePacks) /\ Cardinality(LivePacks) \in Nat /\ Cardinality(UncodedPacks) \in Nat
      /\ Cardinality(P) \in Nat
    BY PackSetsAreFinite
<1>4. LivePacks \cap P = P
    BY <1>1
<1>5. Cardinality(LivePacks \ P) = Cardinality(LivePacks) - Cardinality(LivePacks \cap P)
    BY <1>3, FS_Difference
<1>6. RowCountsPacks => RowCountsPacks'
  <2>1. Cardinality(LivePacks') = Cardinality(LivePacks) - Cardinality(P)
      BY <1>1, <1>4, <1>5
  <2>2. Cardinality(UncodedPacks') = Cardinality(UncodedPacks)
      BY <1>2
  <2> QED
      BY <1>3, <2>1, <2>2 DEF RowCountsPacks
<1> QED
    BY <1>1, <1>6

\* What was taken from the batches.
LEMMA BatchesLessen ==
    ASSUME PackShapes, NEW from \in [Expiries -> Nat],
           batch' = [b \in Expiries |-> batch[b] - from[b]]
    PROVE  /\ batch' \in [Expiries -> Int] /\ Sum(batch') = Sum(batch) - Sum(from)
           /\ Sum(batch) \in Int /\ Sum(from) \in Nat
<1>1. PICK now : now = batch'
    OBVIOUS
<1>2. now \in [Expiries -> Int] /\ \A b \in Expiries : now[b] = batch[b] - from[b]
    BY <1>1 DEF PackShapes
<1>3. LessEach(now, batch, from, Expiries)
    BY <1>2, PacksAssumption DEF LessEach, PackShapes
<1>4. Sum(now) = Sum(batch) - Sum(from) /\ Sum(batch) \in Int
    BY <1>3, LessSum
<1>5. Sum(from) \in Nat
    BY NatSum, PacksAssumption
<1> QED
    BY <1>1, <1>2, <1>4, <1>5

\* Codes that have left are no longer unknown, and were not.
LEMMA FitAfterLeaving ==
    ASSUME PacksInv, NEW P \in SUBSET Packs, P \subseteq InState("in_stock"), NEW c \in Clerks,
           NEW s \in {"sold", "written_off"},
           code' = [p \in Packs |-> IF p \in P THEN s ELSE code[p]],
           tickets' = [tickets EXCEPT ![c] = NoTicket], UNCHANGED <<policy, revived>>
    PROVE  TicketsFit'
<1>1. \A e \in Clerks : tickets'[e] = IF e = c THEN NoTicket ELSE tickets[e]
    BY DEF PacksInv, PackShapes
<1>2. \A p \in Packs : code[p] # "unknown" => code'[p] # "unknown"
    OBVIOUS
<1>3. \A e \in Clerks : tickets[e].at \in {"sell", "batches", "writeOff", "quarantine"} => tickets[e].packs \subseteq Packs
    BY DEF PacksInv, PackShapes, NoTicket, ToRegister, ToSell, ToFindBatches, ToWriteOff, ToQuarantine
<1> QED
    BY <1>1, <1>2, <1>3 DEF PacksInv, PackShapes, TicketsFit, NoTicket

LEMMA SellCommitsHolds ==
    ASSUME PacksInv, NEW c \in Clerks, SellCommits(c)
    PROVE  PacksInv'
<1>1. PICK d : d = tickets[c]
    OBVIOUS
<1>2. d \in ToSell
    BY <1>1 DEF SellCommits, PacksInv, PackShapes, NoTicket, ToRegister, ToFindBatches, ToWriteOff, ToQuarantine
<1>3. PICK P : P = d.packs
    OBVIOUS
<1>4. PICK from : from = d.from
    OBVIOUS
<1>5. P \in SUBSET Packs /\ from \in [Expiries -> Nat]
    BY <1>2, <1>3, <1>4 DEF ToSell
<1>6. CASE Refused(c)
    BY <1>6, RefusedHolds
<1>7. CASE ~Refused(c)
  <2>1. /\ P \subseteq InState("in_stock") /\ quantity >= Cardinality(P)
        /\ quantity' = quantity - Cardinality(P)
        /\ batch' = [b \in Expiries |-> batch[b] - from[b]]
        /\ code' = [p \in Packs |-> IF p \in P THEN "sold" ELSE code[p]]
        /\ soldTimes' = [p \in Packs |-> soldTimes[p] + (IF p \in P THEN 1 ELSE 0)]
        /\ tickets' = [tickets EXCEPT ![c] = NoTicket]
        /\ blind' = (blind \/ P \cap revived # {})
        /\ UNCHANGED <<policy, blocked, expired, revived>>
      BY <1>1, <1>3, <1>4, <1>7 DEF SellCommits, StillInStock, RowCovers
  <2>2. Cardinality(P) \in Nat
      BY <1>5, PackSetsAreFinite
  <2>3. /\ batch' \in [Expiries -> Int] /\ Sum(batch') = Sum(batch) - Sum(from)
        /\ Sum(batch) \in Int /\ Sum(from) \in Nat
      BY <1>5, <2>1, BatchesLessen DEF PacksInv
  <2>4. PackShapes'
    <3>1. code' \in [Packs -> Codes] /\ quantity' \in Nat /\ soldTimes' \in [Packs -> Nat] /\ blind' \in BOOLEAN
        BY <2>1, <2>2 DEF PacksInv, PackShapes, Codes
    <3> QED
        BY <2>1, <2>3, <3>1 DEF PacksInv, PackShapes
  <2>5. TicketsFit'
      BY <1>5, <2>1, FitAfterLeaving
  <2>6. ASSUME ~blind' PROVE RowCountsPacks' /\ (policy' = "quarantined" => EnoughBeyondBatches')
    <3>1. ~blind /\ P \cap revived = {}
        BY <2>1, <2>6
    <3>2. P \subseteq LivePacks /\ LivePacks' = LivePacks \ P /\ RowCountsPacks'
        BY <1>5, <2>1, <3>1, PacksLeave DEF PacksInv
    <3>3. ASSUME policy' = "quarantined" PROVE EnoughBeyondBatches'
      <4>1. policy = "quarantined" /\ EnoughBeyondBatches
          BY <2>1, <3>1, <3>3 DEF PacksInv
      <4>2. tickets[c] = d /\ d.at = "sell" /\ Takes(d) = Cardinality(P)
          BY <1>1, <1>2, <1>3 DEF Takes, ToSell
      <4> QED
          BY <1>3, <1>4, <2>1, <2>3, <2>4, <3>2, <4>1, <4>2, StillEnoughWithOneLess DEF PacksInv
    <3> QED
        BY <3>2, <3>3
  <2> QED
      BY <2>4, <2>5, <2>6 DEF PacksInv
<1> QED
    BY <1>6, <1>7

-----------------------------------------------------------------------------
(* Writing off. *)

LEMMA WriteOffReadsHolds ==
    ASSUME PacksInv, NEW c \in Clerks, NEW n \in 1..Cardinality(Packs), WriteOffReads(c, n)
    PROVE  PacksInv'
<1>1. PICK P \in PickedCodes(n, InState("in_stock")) :
          Asks(c, [at |-> "batches", packs |-> P, size |-> n])
    BY DEF WriteOffReads
<1>2. P \subseteq InState("in_stock")
    BY <1>1 DEF PickedCodes
<1>3. P \in SUBSET Packs /\ \A p \in P : code[p] = "in_stock"
    BY <1>2 DEF InState
<1>4. n \in Nat
    OBVIOUS
<1>5. PICK d : d = [at |-> "batches", packs |-> P, size |-> n]
    OBVIOUS
<1>6. d \in ToFindBatches /\ d.at = "batches" /\ d.packs = P
    BY <1>3, <1>4, <1>5 DEF ToFindBatches
<1>7. /\ tickets' = [tickets EXCEPT ![c] = d]
      /\ UNCHANGED <<policy, quantity, blocked, batch, expired, code, soldTimes, blind, revived>>
    BY <1>1, <1>5 DEF Asks
<1> QED
    BY <1>3, <1>6, <1>7, TicketChanges

LEMMA WriteOffReadsBatchesHolds ==
    ASSUME PacksInv, NEW c \in Clerks, WriteOffReadsBatches(c)
    PROVE  PacksInv'
<1>1. PICK d : d = tickets[c]
    OBVIOUS
<1>2. d \in ToFindBatches
    BY <1>1 DEF WriteOffReadsBatches, PacksInv, PackShapes, NoTicket, ToRegister, ToSell, ToWriteOff, ToQuarantine
<1>3. d.size \in Nat /\ d.packs \in SUBSET Packs /\ d.at = "batches"
    BY <1>2 DEF ToFindBatches
<1>4. PICK from : from = InOrder(d.size, batch)
    OBVIOUS
<1>5. /\ from \in [Expiries -> Nat] /\ Sum(from) \in Nat /\ Sum(from) <= d.size /\ Sum(batch) \in Int
      /\ Sum(from) < d.size => Sum(batch) <= Sum(from)
    BY <1>3, <1>4, TakenFromBatches DEF PacksInv, PackShapes
<1>6. PICK e : e = [at |-> "writeOff", packs |-> d.packs, size |-> d.size, from |-> from]
    OBVIOUS
<1>7. e \in ToWriteOff
    BY <1>3, <1>5, <1>6 DEF ToWriteOff
<1>8. /\ tickets' = [tickets EXCEPT ![c] = e]
      /\ UNCHANGED <<policy, quantity, blocked, batch, expired, code, soldTimes, blind, revived>>
    BY <1>1, <1>4, <1>6 DEF WriteOffReadsBatches
<1>9. /\ e.packs = d.packs /\ e.from = from /\ Takes(e) = d.size
      /\ \A p \in d.packs : code[p] # "unknown"
    BY <1>1, <1>3, <1>6 DEF PacksInv, TicketsFit, Takes
<1>10. /\ Takes(e) \in Nat /\ Sum(e.from) \in Nat
       /\ Sum(e.from) = Takes(e) \/ Sum(batch) <= Sum(e.from)
    BY <1>3, <1>5, <1>9
<1>11. e \in ToSell \cup ToWriteOff /\ \A p \in e.packs : code[p] # "unknown"
    BY <1>7, <1>9
<1> QED
    BY <1>8, <1>10, <1>11, TakerJoins

LEMMA WriteOffCommitsHolds ==
    ASSUME PacksInv, NEW c \in Clerks, WriteOffCommits(c)
    PROVE  PacksInv'
<1>1. PICK d : d = tickets[c]
    OBVIOUS
<1>2. d.at = "writeOff" /\ d \in ToWriteOff /\ d.size \in Nat /\ d.from \in [Expiries -> Nat]
      /\ Sum(d.from) \in Nat
  <2>1. d \in ToSell \cup ToWriteOff /\ d.at = "writeOff" /\ Sum(d.from) \in Nat
      BY <1>1, BeyondType DEF WriteOffCommits, PacksInv
  <2> QED
      BY <2>1 DEF ToSell, ToWriteOff
<1>3. PICK P : P = d.packs
    OBVIOUS
<1>4. P \in SUBSET Packs
    BY <1>2, <1>3 DEF ToWriteOff
<1>5. CASE Refused(c)
    BY <1>5, RefusedHolds
<1>6. CASE ~Refused(c)
  <2>1. /\ P \subseteq InState("in_stock") /\ quantity >= d.size
        /\ quantity' = quantity - d.size
        /\ blocked' = NotNegative(blocked - d.size)
        /\ batch' = [b \in Expiries |-> batch[b] - d.from[b]]
        /\ code' = [p \in Packs |-> IF p \in P THEN "written_off" ELSE code[p]]
        /\ tickets' = [tickets EXCEPT ![c] = NoTicket]
        /\ blind' = (blind \/ Cardinality(P) # d.size \/ P \cap revived # {})
        /\ UNCHANGED <<policy, expired, soldTimes, revived>>
      BY <1>1, <1>3, <1>6 DEF WriteOffCommits, StillInStock, RowCovers, Retires
  <2>2. /\ batch' \in [Expiries -> Int] /\ Sum(batch') = Sum(batch) - Sum(d.from) /\ Sum(batch) \in Int
      BY <1>2, <2>1, BatchesLessen DEF PacksInv
  <2>3. PackShapes'
    <3>1. code' \in [Packs -> Codes] /\ quantity' \in Nat /\ blocked' \in Nat /\ blind' \in BOOLEAN
        BY <1>2, <2>1 DEF PacksInv, PackShapes, Codes, NotNegative
    <3> QED
        BY <2>1, <2>2, <3>1 DEF PacksInv, PackShapes
  <2>4. TicketsFit'
      BY <1>4, <2>1, FitAfterLeaving
  <2>5. ASSUME ~blind' PROVE RowCountsPacks' /\ (policy' = "quarantined" => EnoughBeyondBatches')
    <3>1. ~blind /\ Cardinality(P) = d.size /\ P \cap revived = {}
        BY <2>1, <2>5
    <3>2. P \subseteq LivePacks /\ LivePacks' = LivePacks \ P /\ RowCountsPacks'
        BY <1>4, <2>1, <3>1, PacksLeave DEF PacksInv
    <3>3. ASSUME policy' = "quarantined" PROVE EnoughBeyondBatches'
      <4>1. EnoughBeyondBatches
          BY <2>1, <3>1, <3>3 DEF PacksInv
      <4>2. tickets[c] = d /\ Takes(d) = d.size
          BY <1>1, <1>2 DEF Takes
      <4> QED
          BY <1>2, <1>3, <2>1, <2>2, <2>3, <3>1, <3>2, <4>1, <4>2, StillEnoughWithOneLess DEF PacksInv
    <3> QED
        BY <3>2, <3>3
  <2> QED
      BY <2>3, <2>4, <2>5 DEF PacksInv
<1> QED
    BY <1>5, <1>6

-----------------------------------------------------------------------------
(* Quarantine. *)

LEMMA QuarantineReadsHolds ==
    ASSUME PacksInv, NEW c \in Clerks, NEW action \in {"block", "release"},
           NEW n \in 1..Cardinality(Packs), QuarantineReads(c, action, n)
    PROVE  PacksInv'
<1>1. PICK P \in PickedCodes(n, InState(Held(action))) :
          Asks(c, [at |-> "quarantine", action |-> action, packs |-> P, size |-> n])
    BY DEF QuarantineReads
<1>2. P \subseteq InState(Held(action))
    BY <1>1 DEF PickedCodes
<1>3. P \in SUBSET Packs /\ \A p \in P : code[p] # "unknown"
    BY <1>2 DEF InState, Held
<1>4. n \in Nat
    OBVIOUS
<1>5. PICK d : d = [at |-> "quarantine", action |-> action, packs |-> P, size |-> n]
    OBVIOUS
<1>6. d \in ToQuarantine /\ d.at = "quarantine" /\ d.packs = P
    BY <1>3, <1>4, <1>5 DEF ToQuarantine
<1>7. /\ tickets' = [tickets EXCEPT ![c] = d]
      /\ UNCHANGED <<policy, quantity, blocked, batch, expired, code, soldTimes, blind, revived>>
    BY <1>1, <1>5 DEF Asks
<1> QED
    BY <1>3, <1>6, <1>7, TicketChanges

LEMMA QuarantineCommitsHolds ==
    ASSUME PacksInv, NEW c \in Clerks, QuarantineCommits(c)
    PROVE  PacksInv'
<1>1. PICK d : d = tickets[c]
    OBVIOUS
<1>2. d \in ToQuarantine
    BY <1>1 DEF QuarantineCommits, PacksInv, PackShapes, NoTicket, ToRegister, ToSell, ToFindBatches, ToWriteOff
<1>3. PICK P : P = d.packs
    OBVIOUS
<1>4. P \in SUBSET Packs /\ d.size \in Nat /\ d.at = "quarantine" /\ d.action \in {"block", "release"}
    BY <1>2, <1>3 DEF ToQuarantine
<1>5. \A p \in P : code[p] # "unknown"
    BY <1>1, <1>3, <1>4 DEF PacksInv, TicketsFit
<1>6. CASE Refused(c)
    BY <1>6, RefusedHolds
<1>7. CASE ~Refused(c)
  <2>1. PICK s : s = Becomes(d.action)
      OBVIOUS
  <2>2. s \in {"in_stock", "quarantined"}
      BY <2>1 DEF Becomes
  <2>3. /\ HoldFits(d.action, d.size)
        /\ blocked' = blocked + (IF d.action = "block" THEN d.size ELSE -d.size)
        /\ code' = [p \in Packs |-> IF p \in P THEN s ELSE code[p]]
        /\ revived' = revived \cup {p \in P : code[p] \in {"sold", "written_off"}}
        /\ tickets' = [tickets EXCEPT ![c] = NoTicket]
        /\ UNCHANGED <<policy, quantity, batch, expired, soldTimes, blind>>
      BY <1>1, <1>3, <1>7, <2>1 DEF QuarantineCommits
  <2>4. PackShapes'
    <3>1. code' \in [Packs -> Codes] /\ revived' \subseteq Packs
        BY <1>4, <2>2, <2>3 DEF PacksInv, PackShapes, Codes
    <3>2. blocked' \in Nat
        BY <1>4, <2>3 DEF PacksInv, PackShapes, HoldFits
    <3> QED
        BY <2>3, <3>1, <3>2 DEF PacksInv, PackShapes
  <2>5. \A e \in Clerks : tickets'[e] = IF e = c THEN NoTicket ELSE tickets[e]
      BY <2>3 DEF PacksInv, PackShapes
  <2>6. TicketsFit'
    <3>1. \A p \in Packs : code[p] # "unknown" => code'[p] # "unknown"
        BY <2>2, <2>3
    <3>2. \A e \in Clerks : tickets[e].at \in {"sell", "batches", "writeOff", "quarantine"} => tickets[e].packs \subseteq Packs
        BY DEF PacksInv, PackShapes, NoTicket, ToRegister, ToSell, ToFindBatches, ToWriteOff, ToQuarantine
    <3>3. \A p \in revived' : code'[p] # "unknown"
        BY <1>4, <2>3, <3>1 DEF PacksInv, PackShapes, TicketsFit
    <3> QED
        BY <2>3, <2>5, <3>1, <3>2, <3>3 DEF PacksInv, TicketsFit, NoTicket
  <2>7. LivePacks' = LivePacks
    <3>1. \A p \in Packs : p \in P => code[p] \in {"in_stock", "quarantined", "sold", "written_off"}
        BY <1>4, <1>5 DEF PacksInv, PackShapes, Codes
    <3> QED
        BY <1>4, <2>2, <2>3, <3>1 DEF LivePacks
  <2>8. UncodedPacks' = UncodedPacks
      BY <1>5, <2>2, <2>3, PacksAssumption DEF UncodedPacks
  <2>9. RowCountsPacks' <=> RowCountsPacks
      BY <2>3, <2>7, <2>8 DEF RowCountsPacks
  <2>10. EnoughBeyondBatches => EnoughBeyondBatches'
    <3>1. \A e \in Clerks : tickets'[e].at \in {"sell", "writeOff"} =>
              /\ tickets'[e] = tickets[e]
              /\ (tickets[e].packs \subseteq LivePacks' => tickets[e].packs \subseteq LivePacks)
        BY <2>5, <2>7 DEF NoTicket
    <3>2. quantity' - Sum(batch') >= quantity - Sum(batch)
      <4>1. Sum(batch) \in Int /\ quantity \in Nat /\ quantity' = quantity /\ Sum(batch') = Sum(batch)
          BY <2>3, BatchSumType DEF PacksInv, PackShapes
      <4> QED
          BY <4>1
    <3> QED
        BY <2>4, <3>1, <3>2, StillEnough DEF PacksInv
  <2> QED
      BY <2>3, <2>4, <2>6, <2>9, <2>10 DEF PacksInv
<1> QED
    BY <1>6, <1>7

-----------------------------------------------------------------------------
LEMMA PacksInvHolds == PacksInv /\ [PacksNext]_packVars => PacksInv'
<1> SUFFICES ASSUME PacksInv, [PacksNext]_packVars PROVE PacksInv'
    OBVIOUS
<1>1. ASSUME NEW b \in Expiries, Expires(b) PROVE PacksInv'
    BY <1>1, ExpiresHolds
<1>2. ASSUME NEW b \in Expiries, NEW P \in (SUBSET Packs) \ {{}}, ReceivesBatch(b, P) PROVE PacksInv'
    BY <1>2, ReceivesBatchHolds
<1>3. ASSUME NEW c \in Clerks, NEW P \in (SUBSET Packs) \ {{}}, RegisterReads(c, P) PROVE PacksInv'
    BY <1>3, RegisterReadsHolds
<1>4. ASSUME NEW c \in Clerks, NEW P \in (SUBSET Packs) \ {{}}, SellReads(c, P) PROVE PacksInv'
    BY <1>4, SellReadsHolds
<1>5. ASSUME NEW c \in Clerks, RegisterCommits(c) PROVE PacksInv'
    BY <1>5, RegisterCommitsHolds
<1>6. ASSUME NEW c \in Clerks, SellCommits(c) PROVE PacksInv'
    BY <1>6, SellCommitsHolds
<1>7. ASSUME NEW c \in Clerks, NEW n \in 1..Cardinality(Packs), WriteOffReads(c, n) PROVE PacksInv'
    BY <1>7, WriteOffReadsHolds
<1>8. ASSUME NEW c \in Clerks, NEW n \in 1..Cardinality(Packs), NEW action \in {"block", "release"},
             QuarantineReads(c, action, n)
      PROVE  PacksInv'
    BY <1>8, QuarantineReadsHolds
<1>9. ASSUME NEW c \in Clerks, WriteOffReadsBatches(c) PROVE PacksInv'
    BY <1>9, WriteOffReadsBatchesHolds
<1>10. ASSUME NEW c \in Clerks, WriteOffCommits(c) PROVE PacksInv'
    BY <1>10, WriteOffCommitsHolds
<1>11. ASSUME NEW c \in Clerks, QuarantineCommits(c) PROVE PacksInv'
    BY <1>11, QuarantineCommitsHolds
<1>12. CASE UNCHANGED packVars
  <2>1. PackShapes' /\ TicketsFit' /\ (RowCountsPacks' <=> RowCountsPacks)
      BY <1>12 DEF packVars, PacksInv, PackShapes, TicketsFit, RowCountsPacks, UncodedPacks, LivePacks
  <2>2. EnoughBeyondBatches => EnoughBeyondBatches'
      BY <1>12 DEF packVars, EnoughBeyondBatches, MayAllCommit, TakeTogether, LivePacks
  <2> QED
      BY <1>12, <2>1, <2>2 DEF packVars, PacksInv
<1> QED
    BY <1>1, <1>2, <1>3, <1>4, <1>5, <1>6, <1>7, <1>8, <1>9, <1>10, <1>11, <1>12 DEF PacksNext

LEMMA PacksInvAlways == PacksSpec => []PacksInv
<1>1. PacksInit => PacksInv
    BY PacksInvInit
<1>2. PacksInv /\ [PacksNext]_packVars => PacksInv'
    BY PacksInvHolds
<1> QED
    BY <1>1, <1>2, PTL DEF PacksSpec

\* No request takes goods that are not there (PacksTypeOK).
THEOREM PackTypes == PacksSpec => []PacksTypeOK
<1>1. PacksInv => PacksTypeOK
    BY DEF PacksInv, PackShapes, PacksTypeOK, Codes
<1> QED
    BY <1>1, PacksInvAlways, PTL

\* No more codes lie at the location than packs (CodesWithinGoods), whoever sells,
\* writes off and quarantines at once.
THEOREM CodesAlwaysWithinGoods == PacksSpec => []CodesWithinGoods
<1>1. PacksInv => CodesWithinGoods
  <2> SUFFICES ASSUME PacksInv, ~blind PROVE Cardinality(InState("in_stock") \ revived) <= quantity
      BY DEF CodesWithinGoods, PacksInv, PackShapes
  <2>1. InState("in_stock") \ revived \subseteq LivePacks
      BY DEF InState, LivePacks
  <2>2. Cardinality(InState("in_stock") \ revived) <= Cardinality(LivePacks)
      BY <2>1, PackSetsAreFinite, FS_Subset
  <2>3. Cardinality(InState("in_stock") \ revived) \in Nat
    <3>1. InState("in_stock") \ revived \in SUBSET Packs
        BY DEF InState
    <3> QED
        BY <3>1, PackSetsAreFinite
  <2>4. Cardinality(LivePacks) \in Nat /\ Cardinality(UncodedPacks) \in Nat /\ quantity \in Nat
      BY PackSetsAreFinite DEF PacksInv, PackShapes
  <2>5. quantity = Cardinality(UncodedPacks) + Cardinality(LivePacks)
      BY DEF PacksInv, RowCountsPacks
  <2> QED
      BY <2>2, <2>3, <2>4, <2>5
<1> QED
    BY <1>1, PacksInvAlways, PTL

\* The batches never hold more than the shelf, where goods of no batch are not for
\* sale (BatchesWithinGoods), though write-offs draw them down without a condition.
THEOREM BatchesAlwaysWithinGoods == PacksSpec => []BatchesWithinGoods
<1>1. PacksInv => BatchesWithinGoods
  <2> SUFFICES ASSUME PacksInv, ~blind, policy = "quarantined" PROVE Sum(batch) <= quantity
      BY DEF BatchesWithinGoods, PacksInv, PackShapes
  <2>1. EnoughBeyondBatches
      BY DEF PacksInv
  <2>2. {} \in SUBSET Clerks /\ IsFiniteSet({}) /\ MayAllCommit({})
      BY FS_EmptySet DEF MayAllCommit, TakeTogether
  <2>3. SumOver(BeyondBatches(tickets), {}) <= quantity - Sum(batch)
      BY <2>1, <2>2 DEF EnoughBeyondBatches
  <2>4. SumOver(BeyondBatches(tickets), {}) = 0
      BY SumOverEmpty
  <2>5. quantity \in Nat /\ Sum(batch) \in Int
      BY BatchSumType DEF PacksInv, PackShapes
  <2> QED
      BY <2>3, <2>4, <2>5
<1> QED
    BY <1>1, PacksInvAlways, PTL

-----------------------------------------------------------------------------
(***************************************************************************)
(* The till's list of sales and the closing screen, for any number of      *)
(* sales, shifts and questions and any room.                               *)
(*                                                                         *)
(* Whatever list is written back holds every sale that is not marked as    *)
(* sent.  A mark says "sent" only after the server has said so, and the    *)
(* sale on its way is marked as waiting, so that no write can lose it.     *)
(***************************************************************************)
Marks == {"waiting", "refused", "sent"}
Answer == [shift : Nat, sales : SUBSET Nat, rows : SUBSET Rows]
Question == [shift : Nat, at : {"asked", "answered", "heard"}, answer : Answer]

ClosingShapes ==
    /\ opens \in 0..MaxOpened /\ shiftHere \in 0..opens
    /\ rungUp \in Seq(Nat) /\ \A s \in RungUp : rungUp[s] \in 1..opens
    /\ mark \in Seq(Marks) /\ Len(mark) = Len(rungUp)
    /\ stored \subseteq RungUp /\ old \subseteq RungUp /\ atServer \subseteq RungUp
    /\ room \in 1..MostRoom
    /\ calling \in [sale : Nat, answer : {"none", "sent", "refused"}]
    /\ rowsAt \in [Rows -> 0..opens] /\ noted \subseteq Rows
    /\ questions \in Seq(Question) /\ Len(questions) <= MaxQuestions
    /\ serverCash \in Answer

CallIsKept ==
    calling # NoCall =>
        /\ calling.sale \in stored /\ mark[calling.sale] = "waiting"
        /\ calling.answer = "sent" => calling.sale \in atServer
SentIsThere == \A s \in RungUp : mark[s] = "sent" => s \in atServer

ClosingInv == ClosingShapes /\ CallIsKept /\ SentIsThere /\ UnsentIsKept

-----------------------------------------------------------------------------
LEMMA SalesAreNumbered ==
    ASSUME ClosingShapes
    PROVE  /\ RungUp = 1..Len(rungUp) /\ Len(rungUp) \in Nat /\ RungUp = DOMAIN mark
           /\ RungUp \subseteq Nat /\ IsFiniteSet(RungUp)
<1>1. RungUp = 1..Len(rungUp) /\ Len(rungUp) \in Nat /\ RungUp = DOMAIN mark
    BY DEF ClosingShapes, RungUp
<1>2. IsFiniteSet(1..Len(rungUp))
    BY <1>1, FS_Interval
<1> QED
    BY <1>1, <1>2

\* A list that fits: all of it, or what is not sent and more, for want of room.
LEMMA WhatFits ==
    ASSUME NEW S, NEW m, NEW kept \in Fitting(S, m)
    PROVE  /\ kept \subseteq S /\ NotSent(S, m) \subseteq kept
           /\ kept = S \/ Cardinality(S) > room
<1>1. PICK tries : tries = <<S, KeepOnlyUnsent(S, m, KeepOnOverflow), KeepOnlyUnsent(S, m, 0)>>
    OBVIOUS
<1>2. PICK i \in 1..3 : kept = tries[i] /\ \A k \in 1..(i - 1) : Cardinality(tries[k]) > room
    BY <1>1 DEF Fitting
<1>3. i = 1 \/ i = 2 \/ i = 3
    BY <1>2
<1>4. tries[1] = S /\ tries[2] = KeepOnlyUnsent(S, m, KeepOnOverflow) /\ tries[3] = KeepOnlyUnsent(S, m, 0)
    BY <1>1
<1>5. \A n : KeepOnlyUnsent(S, m, n) \subseteq S /\ NotSent(S, m) \subseteq KeepOnlyUnsent(S, m, n)
    BY DEF KeepOnlyUnsent, LastOf, NotSent
<1>6. i # 1 => Cardinality(S) > room
  <2>1. i # 1 => 1 \in 1..(i - 1)
      BY <1>3
  <2> QED
      BY <1>2, <1>4, <2>1
<1>7. NotSent(S, m) \subseteq S
    BY DEF NotSent
<1> QED
    BY <1>2, <1>3, <1>4, <1>5, <1>6, <1>7

LEMMA WhatPruningKeeps ==
    ASSUME NEW S
    PROVE  /\ PruneSales(S) \subseteq S
           /\ NotSent(S, mark) \cup SalesOf(S, shiftHere) \subseteq PruneSales(S)
<1>1. NotSent(S, mark) \cup SalesOf(S, shiftHere) \subseteq S
    BY DEF NotSent, SalesOf
<1>2. \A n, T : FirstOf(n, T) \subseteq T
    BY DEF FirstOf
<1> QED
    BY <1>1, <1>2 DEF PruneSales

\* A list written back with marks.
LEMMA ListIsWritten ==
    ASSUME ClosingInv, NEW m \in Seq(Marks), Len(m) = Len(rungUp), NEW kept \in Fitting(stored, m),
           \A s \in RungUp : m[s] = "sent" => s \in atServer
    PROVE  kept \subseteq RungUp /\ RungUp \subseteq kept \cup atServer
<1>1. kept \subseteq stored /\ NotSent(stored, m) \subseteq kept
    BY WhatFits
<1> QED
    BY <1>1 DEF ClosingInv, ClosingShapes, UnsentIsKept, NotSent

-----------------------------------------------------------------------------
LEMMA ClosingInvInit == ClosingInit => ClosingInv
<1> SUFFICES ASSUME ClosingInit PROVE ClosingInv
    OBVIOUS
<1>1. rungUp = <<>> /\ RungUp = {}
    BY DEF ClosingInit, RungUp
<1>2. rungUp \in Seq(Nat) /\ mark \in Seq(Marks) /\ Len(mark) = Len(rungUp)
      /\ questions \in Seq(Question) /\ Len(questions) = 0
    BY DEF ClosingInit
<1>3. /\ opens \in 0..MaxOpened /\ shiftHere \in 0..opens /\ room \in 1..MostRoom
      /\ stored = {} /\ old = {} /\ atServer = {} /\ noted = {}
    BY ClosingAssumption DEF ClosingInit
<1>4. calling \in [sale : Nat, answer : {"none", "sent", "refused"}]
    BY DEF ClosingInit, NoCall
<1>5. serverCash \in Answer
    BY DEF ClosingInit, NoAnswer, Answer
<1>6. rowsAt \in [Rows -> 0..opens]
    BY <1>3 DEF ClosingInit
<1>7. MaxQuestions \in Nat
    BY ClosingAssumption
<1>8. ClosingShapes
    BY <1>1, <1>2, <1>3, <1>4, <1>5, <1>6, <1>7 DEF ClosingShapes
<1>9. CallIsKept /\ SentIsThere /\ UnsentIsKept
    BY <1>1 DEF ClosingInit, CallIsKept, SentIsThere, UnsentIsKept
<1> QED
    BY <1>8, <1>9 DEF ClosingInv

LEMMA RoomAndTimeHold ==
    ASSUME ClosingInv, RoomChanges \/ ThreeDaysPass
    PROVE  ClosingInv'
<1>1. UNCHANGED <<shiftHere, opens, rungUp, mark, stored, calling, atServer, rowsAt, noted, questions, serverCash>>
    BY DEF RoomChanges, ThreeDaysPass, tillVarsHere, serverVarsHere, screenVars
<1>2. RungUp' = RungUp
    BY <1>1 DEF RungUp
<1>3. room' \in 1..MostRoom /\ old' \subseteq RungUp
    BY DEF RoomChanges, ThreeDaysPass, tillVarsHere, ClosingInv, ClosingShapes
<1>4. ClosingShapes'
    BY <1>1, <1>2, <1>3 DEF ClosingInv, ClosingShapes
<1> QED
    BY <1>1, <1>2, <1>4 DEF ClosingInv, CallIsKept, SentIsThere, UnsentIsKept

LEMMA OpensShiftHolds ==
    ASSUME ClosingInv, OpensShift
    PROVE  ClosingInv'
<1>1. /\ UNCHANGED <<rungUp, mark, stored, old, room, calling, atServer, rowsAt, noted, questions, serverCash>>
      /\ opens' = opens + 1 /\ shiftHere' = opens' /\ opens < MaxOpened
    BY DEF OpensShift, tillVarsHere, serverVarsHere, screenVars
<1>2. RungUp' = RungUp
    BY <1>1 DEF RungUp
<1>3. opens' \in 0..MaxOpened /\ shiftHere' \in 0..opens' /\ 1..opens \subseteq 1..opens' /\ 0..opens \subseteq 0..opens'
    BY <1>1, ClosingAssumption DEF ClosingInv, ClosingShapes
<1>4. rowsAt' \in [Rows -> 0..opens'] /\ \A s \in RungUp : rungUp[s] \in 1..opens'
    BY <1>1, <1>3 DEF ClosingInv, ClosingShapes
<1>5. ClosingShapes'
    BY <1>1, <1>2, <1>3, <1>4 DEF ClosingInv, ClosingShapes
<1> QED
    BY <1>1, <1>2, <1>5 DEF ClosingInv, CallIsKept, SentIsThere, UnsentIsKept

LEMMA RingsUpHereHolds ==
    ASSUME ClosingInv, RingsUpHere
    PROVE  ClosingInv'
<1>1. PICK s : s = Len(rungUp) + 1
    OBVIOUS
<1>2. PICK m : m = Append(mark, "waiting")
    OBVIOUS
<1>3. PICK kept \in Fitting(PruneSales(stored) \cup {s}, m) :
          stored' = kept /\ mark' = m /\ rungUp' = Append(rungUp, shiftHere)
    BY <1>1, <1>2 DEF RingsUpHere
<1>4. UNCHANGED <<shiftHere, opens, old, room, calling, atServer, rowsAt, noted, questions, serverCash>>
      /\ shiftHere # 0
    BY DEF RingsUpHere, serverVarsHere, screenVars
<1>5. /\ rungUp \in Seq(Nat) /\ mark \in Seq(Marks) /\ Len(mark) = Len(rungUp) /\ shiftHere \in Nat
      /\ shiftHere \in 1..opens /\ opens \in Nat
    BY <1>4, ClosingAssumption DEF ClosingInv, ClosingShapes
<1>6. /\ rungUp' \in Seq(Nat) /\ Len(rungUp') = s /\ rungUp'[s] = shiftHere
      /\ \A i \in 1..Len(rungUp) : rungUp'[i] = rungUp[i]
    BY <1>1, <1>3, <1>5, AppendProperties
<1>7. /\ m \in Seq(Marks) /\ Len(m) = s /\ m[s] = "waiting"
      /\ \A i \in 1..Len(rungUp) : m[i] = mark[i]
    BY <1>1, <1>2, <1>5, AppendProperties DEF Marks
<1>8. RungUp = 1..Len(rungUp) /\ Len(rungUp) \in Nat
    BY SalesAreNumbered DEF ClosingInv
<1>9. RungUp' = RungUp \cup {s} /\ s \notin RungUp /\ RungUp' = 1..s
  <2>1. RungUp' = 1..Len(rungUp')
      BY <1>6 DEF RungUp
  <2> QED
      BY <1>1, <1>6, <1>8, <2>1
<1>10. PruneSales(stored) \subseteq stored /\ NotSent(stored, mark) \subseteq PruneSales(stored)
    BY WhatPruningKeeps
<1>11. kept \subseteq PruneSales(stored) \cup {s} /\ NotSent(PruneSales(stored) \cup {s}, m) \subseteq kept
    BY <1>3, WhatFits
<1>12. stored \subseteq RungUp
    BY DEF ClosingInv, ClosingShapes
<1>13. NotSent(stored, mark) \cup {s} \subseteq kept
    BY <1>7, <1>8, <1>10, <1>11, <1>12 DEF NotSent
<1>14. ClosingShapes'
  <2>1. \A i \in RungUp' : rungUp'[i] \in 1..opens
      BY <1>5, <1>6, <1>8, <1>9 DEF ClosingInv, ClosingShapes
  <2>2. stored' \subseteq RungUp' /\ old' \subseteq RungUp' /\ atServer' \subseteq RungUp'
      BY <1>3, <1>4, <1>9, <1>10, <1>11, <1>12 DEF ClosingInv, ClosingShapes
  <2>3. mark' \in Seq(Marks) /\ Len(mark') = Len(rungUp')
      BY <1>3, <1>6, <1>7
  <2> QED
      BY <1>4, <1>6, <2>1, <2>2, <2>3 DEF ClosingInv, ClosingShapes
<1>15. CallIsKept'
  <2> SUFFICES ASSUME calling # NoCall
               PROVE  /\ calling.sale \in kept /\ m[calling.sale] = "waiting"
                      /\ calling.answer = "sent" => calling.sale \in atServer
      BY <1>3, <1>4 DEF CallIsKept
  <2>1. calling.sale \in stored /\ mark[calling.sale] = "waiting"
        /\ (calling.answer = "sent" => calling.sale \in atServer)
      BY DEF ClosingInv, CallIsKept
  <2>2. calling.sale \in NotSent(stored, mark)
      BY <2>1 DEF NotSent
  <2> QED
      BY <1>7, <1>8, <1>12, <1>13, <2>1, <2>2
<1>16. SentIsThere'
    BY <1>3, <1>4, <1>7, <1>8, <1>9 DEF ClosingInv, SentIsThere
<1>17. UnsentIsKept'
  <2> SUFFICES ASSUME NEW i \in RungUp, i \notin atServer PROVE i \in kept
      BY <1>3, <1>4, <1>9, <1>13 DEF UnsentIsKept
  <2>1. i \in stored /\ mark[i] # "sent"
      BY DEF ClosingInv, UnsentIsKept, SentIsThere
  <2> QED
      BY <1>13, <2>1 DEF NotSent
<1> QED
    BY <1>14, <1>15, <1>16, <1>17 DEF ClosingInv

LEMMA MovesCashHolds ==
    ASSUME ClosingInv, NEW r \in Rows, NEW heard \in BOOLEAN, MovesCash(r, heard)
    PROVE  ClosingInv'
<1>1. /\ UNCHANGED <<shiftHere, opens, rungUp, mark, stored, old, room, calling, atServer, questions, serverCash>>
      /\ rowsAt' = [rowsAt EXCEPT ![r] = shiftHere]
      /\ noted' \subseteq noted \cup {r}
    BY DEF MovesCash, tillVarsHere, screenVars
<1>2. RungUp' = RungUp
    BY <1>1 DEF RungUp
<1>3. rowsAt' \in [Rows -> 0..opens] /\ noted' \subseteq Rows
    BY <1>1 DEF ClosingInv, ClosingShapes
<1>4. ClosingShapes'
    BY <1>1, <1>2, <1>3 DEF ClosingInv, ClosingShapes
<1> QED
    BY <1>1, <1>2, <1>4 DEF ClosingInv, CallIsKept, SentIsThere, UnsentIsKept

LEMMA ClosesShiftHolds ==
    ASSUME ClosingInv, ClosesShift
    PROVE  ClosingInv'
<1>1. UNCHANGED <<opens, rungUp, mark, stored, old, room, calling, atServer, rowsAt, noted, questions, serverCash>>
      /\ shiftHere' = 0
    BY DEF ClosesShift, tillVarsHere, serverVarsHere, screenVars
<1>2. RungUp' = RungUp
    BY <1>1 DEF RungUp
<1>3. shiftHere' \in 0..opens
    BY <1>1, ClosingAssumption DEF ClosingInv, ClosingShapes
<1>4. ClosingShapes'
    BY <1>1, <1>2, <1>3 DEF ClosingInv, ClosingShapes
<1> QED
    BY <1>1, <1>2, <1>4 DEF ClosingInv, CallIsKept, SentIsThere, UnsentIsKept

\* A call begins or ends, and nothing is written.
LEMMA CallHolds ==
    ASSUME ClosingInv, NEW c \in [sale : Nat, answer : {"none", "sent", "refused"}], calling' = c,
           UNCHANGED <<shiftHere, opens, rungUp, mark, stored, old, room, atServer, rowsAt, noted,
                       questions, serverCash>>,
           c = NoCall \/ (/\ c.sale \in stored /\ mark[c.sale] = "waiting"
                          /\ (c.answer = "sent" => c.sale \in atServer))
    PROVE  ClosingInv'
<1>1. RungUp' = RungUp
    BY DEF RungUp
<1>2. ClosingShapes'
    BY <1>1 DEF ClosingInv, ClosingShapes
<1> QED
    BY <1>1, <1>2 DEF ClosingInv, CallIsKept, SentIsThere, UnsentIsKept

LEMMA SendsAndLosesHold ==
    ASSUME ClosingInv, (\E s \in RungUp : SendsSale(s)) \/ LosesSale
    PROVE  ClosingInv'
<1>1. UNCHANGED <<shiftHere, opens, rungUp, mark, stored, old, room, atServer, rowsAt, noted,
                  questions, serverCash>>
    BY DEF SendsSale, LosesSale, tillVarsHere, serverVarsHere, screenVars
<1>2. CASE LosesSale
  <2>1. calling' = NoCall /\ NoCall \in [sale : Nat, answer : {"none", "sent", "refused"}]
      BY <1>2 DEF LosesSale, NoCall
  <2> QED
      BY <1>1, <2>1, CallHolds
<1>3. ASSUME NEW s \in RungUp, SendsSale(s) PROVE ClosingInv'
  <2>1. PICK c : c = [sale |-> s, answer |-> "none"]
      OBVIOUS
  <2>2. s \in Nat
      BY SalesAreNumbered DEF ClosingInv
  <2>3. c \in [sale : Nat, answer : {"none", "sent", "refused"}] /\ c.sale = s /\ c.answer = "none"
      BY <2>1, <2>2
  <2>4. calling' = c /\ s \in stored /\ mark[s] = "waiting"
      BY <1>3, <2>1 DEF SendsSale
  <2> QED
      BY <1>1, <2>3, <2>4, CallHolds
<1> QED
    BY <1>2, <1>3

LEMMA ServerDecidesHolds ==
    ASSUME ClosingInv, NEW answer \in {"sent", "refused"}, ServerDecides(answer)
    PROVE  ClosingInv'
<1>1. /\ UNCHANGED <<shiftHere, opens, rungUp, mark, stored, old, room, rowsAt, noted, questions, serverCash>>
      /\ calling # NoCall
      /\ atServer' = IF answer = "sent" THEN atServer \cup {calling.sale} ELSE atServer
      /\ calling' = [calling EXCEPT !.answer = answer]
    BY DEF ServerDecides, tillVarsHere, screenVars
<1>2. RungUp' = RungUp
    BY <1>1 DEF RungUp
<1>3. calling.sale \in stored /\ mark[calling.sale] = "waiting"
    BY <1>1 DEF ClosingInv, CallIsKept
<1>4. /\ calling' \in [sale : Nat, answer : {"none", "sent", "refused"}]
      /\ calling'.sale = calling.sale /\ calling'.answer = answer
    BY <1>1 DEF ClosingInv, ClosingShapes
<1>5. atServer \subseteq atServer' /\ atServer' \subseteq RungUp
    BY <1>1, <1>3 DEF ClosingInv, ClosingShapes
<1>6. ClosingShapes'
    BY <1>1, <1>2, <1>4, <1>5 DEF ClosingInv, ClosingShapes
<1>7. CallIsKept'
    BY <1>1, <1>3, <1>4 DEF CallIsKept
<1> QED
    BY <1>1, <1>2, <1>5, <1>6, <1>7 DEF ClosingInv, SentIsThere, UnsentIsKept

LEMMA HearsSaleHolds ==
    ASSUME ClosingInv, HearsSale
    PROVE  ClosingInv'
<1>1. /\ UNCHANGED <<shiftHere, opens, rungUp, old, room, atServer, rowsAt, noted, questions, serverCash>>
      /\ calling.answer # "none" /\ calling' = NoCall
    BY DEF HearsSale, serverVarsHere, screenVars
<1>2. RungUp' = RungUp
    BY <1>1 DEF RungUp
<1>3. PICK m : m = [mark EXCEPT ![calling.sale] = calling.answer]
    OBVIOUS
<1>4. calling # NoCall
    BY <1>1 DEF NoCall
<1>5. calling.sale \in RungUp /\ (calling.answer = "sent" => calling.sale \in atServer) /\ calling.answer \in Marks
    BY <1>1, <1>4 DEF ClosingInv, ClosingShapes, CallIsKept, Marks
<1>6. RungUp = 1..Len(rungUp) /\ Len(mark) = Len(rungUp) /\ mark \in Seq(Marks)
    BY SalesAreNumbered DEF ClosingInv, ClosingShapes
<1>7. /\ m \in Seq(Marks) /\ Len(m) = Len(rungUp)
      /\ \A j \in RungUp : m[j] = IF j = calling.sale THEN calling.answer ELSE mark[j]
    BY <1>3, <1>5, <1>6, ExceptSeq
<1>8. \A s \in RungUp : m[s] = "sent" => s \in atServer
    BY <1>5, <1>7 DEF ClosingInv, SentIsThere
<1>9. calling' \in [sale : Nat, answer : {"none", "sent", "refused"}]
    BY <1>1 DEF NoCall
<1>10. /\ mark' \in Seq(Marks) /\ Len(mark') = Len(rungUp)
       /\ stored' \subseteq RungUp /\ RungUp \subseteq stored' \cup atServer
       /\ \A s \in RungUp : mark'[s] = "sent" => s \in atServer
  <2>1. CASE Fitting(stored, m) = {}
    <3>1. mark' = mark /\ stored' = stored
        BY <1>3, <2>1 DEF HearsSale
    <3> QED
        BY <1>6, <3>1 DEF ClosingInv, ClosingShapes, SentIsThere, UnsentIsKept
  <2>2. CASE Fitting(stored, m) # {}
    <3>1. mark' = m /\ stored' \in Fitting(stored, m)
        BY <1>3, <2>2 DEF HearsSale
    <3>2. PICK kept : kept = stored'
        OBVIOUS
    <3>3. kept \subseteq RungUp /\ RungUp \subseteq kept \cup atServer
        BY <1>7, <1>8, <3>1, <3>2, ListIsWritten
    <3> QED
        BY <1>7, <1>8, <3>1, <3>2, <3>3
  <2> QED
      BY <2>1, <2>2
<1>11. ClosingShapes'
    BY <1>1, <1>2, <1>9, <1>10 DEF ClosingInv, ClosingShapes
<1> QED
    BY <1>1, <1>2, <1>10, <1>11 DEF ClosingInv, CallIsKept, SentIsThere, UnsentIsKept

LEMMA RetriesStuckHolds ==
    ASSUME ClosingInv, NEW s \in RungUp, RetriesStuck(s)
    PROVE  ClosingInv'
<1>1. UNCHANGED <<shiftHere, opens, rungUp, old, room, calling, atServer, rowsAt, noted, questions, serverCash>>
      /\ mark[s] = "refused"
    BY DEF RetriesStuck, serverVarsHere, screenVars
<1>2. RungUp' = RungUp
    BY <1>1 DEF RungUp
<1>3. PICK m : m = [mark EXCEPT ![s] = "waiting"]
    OBVIOUS
<1>4. RungUp = 1..Len(rungUp) /\ Len(mark) = Len(rungUp) /\ mark \in Seq(Marks)
    BY SalesAreNumbered DEF ClosingInv, ClosingShapes
<1>5. /\ m \in Seq(Marks) /\ Len(m) = Len(rungUp)
      /\ \A j \in RungUp : m[j] = IF j = s THEN "waiting" ELSE mark[j]
    BY <1>3, <1>4, ExceptSeq DEF Marks
<1>6. \A i \in RungUp : m[i] = "sent" => i \in atServer
    BY <1>5 DEF ClosingInv, SentIsThere
<1>7. mark' = m /\ stored' \in Fitting(stored, m)
    BY <1>3 DEF RetriesStuck
<1>8. PICK kept : kept = stored'
    OBVIOUS
<1>9. kept \subseteq RungUp /\ RungUp \subseteq kept \cup atServer
    BY <1>5, <1>6, <1>7, <1>8, ListIsWritten
<1>10. NotSent(stored, m) \subseteq kept
    BY <1>7, <1>8, WhatFits
<1>11. ClosingShapes'
    BY <1>1, <1>2, <1>5, <1>7, <1>8, <1>9 DEF ClosingInv, ClosingShapes
<1>12. CallIsKept'
  <2> SUFFICES ASSUME calling # NoCall
               PROVE  /\ calling.sale \in kept /\ m[calling.sale] = "waiting"
                      /\ calling.answer = "sent" => calling.sale \in atServer
      BY <1>1, <1>7, <1>8 DEF CallIsKept
  <2>1. calling.sale \in stored /\ mark[calling.sale] = "waiting"
        /\ (calling.answer = "sent" => calling.sale \in atServer)
      BY DEF ClosingInv, CallIsKept
  <2>2. calling.sale \in RungUp
      BY <2>1 DEF ClosingInv, ClosingShapes
  <2>3. m[calling.sale] = "waiting"
      BY <1>5, <2>1, <2>2
  <2> QED
      BY <1>10, <2>1, <2>3 DEF NotSent
<1> QED
    BY <1>1, <1>2, <1>6, <1>7, <1>8, <1>9, <1>11, <1>12 DEF ClosingInv, SentIsThere, UnsentIsKept

\* The screen asks and hears, and nothing else changes.
LEMMA ScreenHolds ==
    ASSUME ClosingInv, NEW Q \in Seq(Question), Len(Q) <= MaxQuestions, NEW a \in Answer,
           questions' = Q, serverCash' = a,
           UNCHANGED <<shiftHere, opens, rungUp, mark, stored, old, room, calling, atServer, rowsAt, noted>>
    PROVE  ClosingInv'
<1>1. RungUp' = RungUp
    BY DEF RungUp
<1>2. ClosingShapes'
    BY <1>1 DEF ClosingInv, ClosingShapes
<1> QED
    BY <1>1, <1>2 DEF ClosingInv, CallIsKept, SentIsThere, UnsentIsKept

LEMMA NoAnswerIsAnswer == NoAnswer \in Answer
BY DEF NoAnswer, Answer

LEMMA OpensClosingHolds ==
    ASSUME ClosingInv, OpensClosing
    PROVE  ClosingInv'
<1>1. PICK x : x = [shift |-> shiftHere, at |-> "asked", answer |-> NoAnswer]
    OBVIOUS
<1>2. x \in Question
  <2>1. shiftHere \in Nat
      BY ClosingAssumption DEF ClosingInv, ClosingShapes
  <2> QED
      BY <1>1, <2>1, NoAnswerIsAnswer DEF Question
<1>3. /\ questions' = Append(questions, x) /\ serverCash' = NoAnswer /\ Len(questions) < MaxQuestions
      /\ UNCHANGED <<shiftHere, opens, rungUp, mark, stored, old, room, calling, atServer, rowsAt, noted>>
    BY <1>1 DEF OpensClosing, tillVarsHere, serverVarsHere
<1>4. PICK Q : Q = Append(questions, x)
    OBVIOUS
<1>5. Q \in Seq(Question) /\ Len(Q) = Len(questions) + 1 /\ Len(questions) \in Nat
    BY <1>2, <1>4, AppendProperties DEF ClosingInv, ClosingShapes
<1>6. Len(Q) <= MaxQuestions
    BY <1>3, <1>5, ClosingAssumption
<1> QED
    BY <1>3, <1>4, <1>5, <1>6, NoAnswerIsAnswer, ScreenHolds

LEMMA ScreenAnswers ==
    ASSUME ClosingInv, NEW q \in DOMAIN questions, ServerCounts(q) \/ HearsCash(q)
    PROVE  ClosingInv'
<1>1. UNCHANGED <<shiftHere, opens, rungUp, mark, stored, old, room, calling, atServer, rowsAt, noted>>
    BY DEF ServerCounts, HearsCash, tillVarsHere, serverVarsHere
<1>2. questions \in Seq(Question) /\ Len(questions) <= MaxQuestions /\ serverCash \in Answer
    BY DEF ClosingInv, ClosingShapes
<1>3. q \in 1..Len(questions) /\ questions[q] \in Question
    BY <1>2, ElementOfSeq
<1>4. PICK x : x = questions[q]
    OBVIOUS
<1>5. CASE ServerCounts(q)
  <2>1. PICK a : a = DrawerAtServer(x.shift)
      OBVIOUS
  <2>2. a \in Answer
    <3>1. x.shift \in Nat
        BY <1>3, <1>4 DEF Question
    <3>2. SalesOf(atServer, x.shift) \in SUBSET Nat
        BY SalesAreNumbered DEF SalesOf, ClosingInv, ClosingShapes
    <3> QED
        BY <2>1, <3>1, <3>2 DEF DrawerAtServer, Answer
  <2>3. PICK y : y = [x EXCEPT !.at = "answered", !.answer = a]
      OBVIOUS
  <2>4. y \in Question
      BY <1>3, <1>4, <2>2, <2>3 DEF Question
  <2>5. PICK Q : Q = [questions EXCEPT ![q] = y]
      OBVIOUS
  <2>6. Q \in Seq(Question) /\ Len(Q) = Len(questions)
      BY <1>2, <1>3, <2>4, <2>5, ExceptSeq
  <2>7. questions' = Q /\ serverCash' = serverCash
      BY <1>3, <1>4, <1>5, <2>1, <2>3, <2>5 DEF ServerCounts
  <2> QED
      BY <1>1, <1>2, <2>6, <2>7, ScreenHolds
<1>6. CASE HearsCash(q)
  <2>1. PICK y : y = [x EXCEPT !.at = "heard", !.answer = NoAnswer]
      OBVIOUS
  <2>2. y \in Question /\ x.answer \in Answer
      BY <1>3, <1>4, <2>1, NoAnswerIsAnswer DEF Question
  <2>3. PICK Q : Q = [questions EXCEPT ![q] = y]
      OBVIOUS
  <2>4. Q \in Seq(Question) /\ Len(Q) = Len(questions)
      BY <1>2, <1>3, <2>2, <2>3, ExceptSeq
  <2>5. questions' = Q
      BY <1>3, <1>4, <1>6, <2>1, <2>3 DEF HearsCash
  <2>6. serverCash' \in Answer
      BY <1>4, <1>6, <2>2, NoAnswerIsAnswer DEF HearsCash
  <2>7. PICK a : a = serverCash'
      OBVIOUS
  <2> QED
      BY <1>1, <1>2, <2>4, <2>5, <2>6, <2>7, ScreenHolds
<1> QED
    BY <1>5, <1>6

LEMMA ClosingInvHolds == ClosingInv /\ [ClosingNext]_closingVars => ClosingInv'
<1> SUFFICES ASSUME ClosingInv, [ClosingNext]_closingVars PROVE ClosingInv'
    OBVIOUS
<1>1. CASE RoomChanges \/ ThreeDaysPass
    BY <1>1, RoomAndTimeHold
<1>2. CASE OpensShift
    BY <1>2, OpensShiftHolds
<1>3. CASE RingsUpHere
    BY <1>3, RingsUpHereHolds
<1>4. CASE ClosesShift
    BY <1>4, ClosesShiftHolds
<1>5. ASSUME NEW r \in Rows, NEW heard \in BOOLEAN, MovesCash(r, heard) PROVE ClosingInv'
    BY <1>5, MovesCashHolds
<1>6. CASE (\E s \in RungUp : SendsSale(s)) \/ LosesSale
    BY <1>6, SendsAndLosesHold
<1>7. ASSUME NEW s \in RungUp, RetriesStuck(s) PROVE ClosingInv'
    BY <1>7, RetriesStuckHolds
<1>8. ASSUME NEW answer \in {"sent", "refused"}, ServerDecides(answer) PROVE ClosingInv'
    BY <1>8, ServerDecidesHolds
<1>9. CASE HearsSale
    BY <1>9, HearsSaleHolds
<1>10. CASE OpensClosing
    BY <1>10, OpensClosingHolds
<1>11. ASSUME NEW q \in DOMAIN questions, ServerCounts(q) \/ HearsCash(q) PROVE ClosingInv'
    BY <1>11, ScreenAnswers
<1>12. CASE UNCHANGED closingVars
  <2>1. UNCHANGED <<shiftHere, opens, rungUp, mark, stored, old, room, calling, atServer, rowsAt, noted>>
        /\ questions' = questions /\ serverCash' = serverCash
      BY <1>12 DEF closingVars, tillVarsHere, serverVarsHere, screenVars
  <2>2. questions \in Seq(Question) /\ Len(questions) <= MaxQuestions /\ serverCash \in Answer
      BY DEF ClosingInv, ClosingShapes
  <2> QED
      BY <2>1, <2>2, ScreenHolds
<1> QED
    BY <1>1, <1>2, <1>3, <1>4, <1>5, <1>6, <1>7, <1>8, <1>9, <1>10, <1>11, <1>12 DEF ClosingNext

LEMMA ClosingInvAlways == ClosingSpec => []ClosingInv
<1>1. ClosingInit => ClosingInv
    BY ClosingInvInit
<1>2. ClosingInv /\ [ClosingNext]_closingVars => ClosingInv'
    BY ClosingInvHolds
<1> QED
    BY <1>1, <1>2, PTL DEF ClosingSpec

\* A sale on its way is one the till still has, and nothing is at the server that was
\* not rung up (ClosingTypeOK).
THEOREM ClosingTypes == ClosingSpec => []ClosingTypeOK
<1>1. ClosingInv => ClosingTypeOK
  <2> SUFFICES ASSUME ClosingInv PROVE ClosingTypeOK
      OBVIOUS
  <2>1. RungUp = 1..Len(rungUp) /\ RungUp = DOMAIN mark
      BY SalesAreNumbered DEF ClosingInv
  <2>2. rungUp \in [RungUp -> 1..opens]
      BY DEF ClosingInv, ClosingShapes, RungUp
  <2>3. mark \in [RungUp -> {"waiting", "refused", "sent"}]
      BY <2>1 DEF ClosingInv, ClosingShapes, Marks
  <2>4. calling # NoCall => calling.sale \in stored
      BY DEF ClosingInv, CallIsKept
  <2> QED
      BY <2>2, <2>3, <2>4 DEF ClosingInv, ClosingShapes, ClosingTypeOK
<1> QED
    BY <1>1, ClosingInvAlways, PTL

\* A sale that was rung up is at the server or in the till (UnsentIsKept), whatever is
\* pruned, refused or squeezed out, and however little room there is.
THEOREM UnsentIsAlwaysKept == ClosingSpec => []UnsentIsKept
<1>1. ClosingInv => UnsentIsKept
    BY DEF ClosingInv
<1> QED
    BY <1>1, ClosingInvAlways, PTL

\* With an answer that nothing has overtaken the screen expects the cash that went
\* through the drawer (FigureIsTheDrawer).
THEOREM FigureIsAlwaysOfTheDrawer == ClosingSpec => []FigureIsTheDrawer
<1>1. ClosingInv => FigureIsTheDrawer
  <2> SUFFICES ASSUME ClosingInv, shiftHere # 0, serverCash = DrawerAtServer(shiftHere), Queued \cap atServer = {}
               PROVE  DrawerFigures = CashIn(shiftHere)
      BY DEF FigureIsTheDrawer
  <2>1. PICK sent : sent = SalesOf(atServer, shiftHere)
      OBVIOUS
  <2>2. PICK queued : queued = Queued
      OBVIOUS
  <2>3. serverCash # NoAnswer /\ serverCash.sales = sent
        /\ serverCash.rows = {r \in Rows : rowsAt[r] = shiftHere}
      BY <2>1 DEF DrawerAtServer, NoAnswer
  <2>4. RungUp \subseteq stored \cup atServer /\ stored \subseteq RungUp /\ atServer \subseteq RungUp
      BY DEF ClosingInv, ClosingShapes, UnsentIsKept
  <2>5. \A s \in RungUp : s \notin atServer => mark[s] # "sent"
      BY DEF ClosingInv, SentIsThere
  <2>6. SalesOf(RungUp, shiftHere) = sent \cup queued /\ sent \cap queued = {}
      BY <2>1, <2>2, <2>4, <2>5 DEF SalesOf, Queued, NotSent
  <2>7. sent \subseteq RungUp /\ queued \subseteq RungUp
      BY <2>1, <2>2, <2>4 DEF SalesOf, Queued, NotSent
  <2>8. IsFiniteSet(sent) /\ IsFiniteSet(queued)
      BY <2>7, SalesAreNumbered, FS_Subset DEF ClosingInv
  <2>9. Cardinality(sent) \in Nat /\ Cardinality(queued) \in Nat /\ Cardinality(sent \cap queued) = 0
      BY <2>6, <2>8, FS_CardinalityType, FS_EmptySet
  <2>10. Cardinality(sent \cup queued) = Cardinality(sent) + Cardinality(queued) - Cardinality(sent \cap queued)
      BY <2>8, FS_Union
  <2>11. Cardinality(SalesOf(RungUp, shiftHere)) = Cardinality(sent) + Cardinality(queued)
      BY <2>6, <2>9, <2>10
  <2>12. DrawerFigures = Cardinality(sent) + Cardinality(queued)
                            + Cardinality({r \in Rows : rowsAt[r] = shiftHere})
      BY <2>2, <2>3 DEF DrawerFigures
  <2> QED
      BY <2>11, <2>12 DEF CashIn
<1> QED
    BY <1>1, ClosingInvAlways, PTL

\* The till forgets only what is at the server, and of the open shift only for want of
\* room (ForgetsOnlySent).
THEOREM OnlySentIsForgotten == ClosingSpec => ForgetsOnlySent
<1>1. ClosingInv /\ [ClosingNext]_closingVars =>
          \A s \in stored \ stored' :
              /\ mark'[s] = "sent" /\ s \in atServer
              /\ rungUp[s] = shiftHere => Cardinality(stored) + 1 > room
  <2> SUFFICES ASSUME ClosingInv, [ClosingNext]_closingVars, NEW s \in stored \ stored'
               PROVE  /\ mark'[s] = "sent" /\ s \in atServer
                      /\ rungUp[s] = shiftHere => Cardinality(stored) + 1 > room
      OBVIOUS
  <2>1. s \in RungUp /\ IsFiniteSet(stored) /\ Cardinality(stored) \in Nat /\ room \in Nat /\ stored' # stored
    <3>1. stored \subseteq RungUp /\ room \in Nat
        BY DEF ClosingInv, ClosingShapes
    <3>2. IsFiniteSet(stored)
        BY <3>1, SalesAreNumbered, FS_Subset DEF ClosingInv
    <3> QED
        BY <3>1, <3>2, FS_CardinalityType
  <2>3. PICK kept : kept = stored'
      OBVIOUS
  <2>4. ASSUME NEW m, kept \in Fitting(stored, m), mark' = m
        PROVE  m[s] = "sent" /\ Cardinality(stored) + 1 > room
    <3>1. kept \subseteq stored /\ NotSent(stored, m) \subseteq kept /\ (kept = stored \/ Cardinality(stored) > room)
        BY <2>4, WhatFits
    <3>2. m[s] = "sent"
        BY <2>3, <3>1 DEF NotSent
    <3> QED
        BY <2>1, <2>3, <3>1, <3>2
  <2>5. SentIsThere'
      BY ClosingInvHolds DEF ClosingInv
  <2>6. CASE HearsSale
    <3>1. atServer' = atServer /\ rungUp' = rungUp
        BY <2>6 DEF HearsSale, serverVarsHere
    <3>2. PICK m : mark' = m /\ kept \in Fitting(stored, m)
        BY <2>1, <2>3, <2>6 DEF HearsSale
    <3>3. mark'[s] = "sent" /\ Cardinality(stored) + 1 > room
        BY <2>4, <3>2
    <3>4. RungUp' = RungUp
        BY <3>1 DEF RungUp
    <3> QED
        BY <2>1, <2>5, <3>1, <3>3, <3>4 DEF SentIsThere
  <2>7. ASSUME NEW i \in RungUp, RetriesStuck(i)
        PROVE  /\ mark'[s] = "sent" /\ s \in atServer
               /\ rungUp[s] = shiftHere => Cardinality(stored) + 1 > room
    <3>1. atServer' = atServer /\ rungUp' = rungUp
        BY <2>7 DEF RetriesStuck, serverVarsHere
    <3>2. PICK m : mark' = m /\ kept \in Fitting(stored, m)
        BY <2>3, <2>7 DEF RetriesStuck
    <3>3. mark'[s] = "sent" /\ Cardinality(stored) + 1 > room
        BY <2>4, <3>2
    <3>4. RungUp' = RungUp
        BY <3>1 DEF RungUp
    <3> QED
        BY <2>1, <2>5, <3>1, <3>3, <3>4 DEF SentIsThere
  <2>8. CASE RingsUpHere
    <3>1. PICK i : i = Len(rungUp) + 1
        OBVIOUS
    <3>2. PICK m : m = Append(mark, "waiting")
        OBVIOUS
    <3>3. PICK S : S = PruneSales(stored) \cup {i}
        OBVIOUS
    <3>4. kept \in Fitting(S, m) /\ mark' = m
        BY <2>3, <2>8, <3>1, <3>2, <3>3 DEF RingsUpHere
    <3>5. kept \subseteq S /\ NotSent(S, m) \subseteq kept /\ (kept = S \/ Cardinality(S) > room)
        BY <3>4, WhatFits
    <3>6. PruneSales(stored) \subseteq stored
          /\ NotSent(stored, mark) \cup SalesOf(stored, shiftHere) \subseteq PruneSales(stored)
        BY WhatPruningKeeps
    <3>7. m[s] = mark[s] /\ s # i
      <4>1. mark \in Seq(Marks) /\ Len(mark) = Len(rungUp) /\ s \in 1..Len(rungUp) /\ Len(rungUp) \in Nat
          BY <2>1, SalesAreNumbered DEF ClosingInv, ClosingShapes
      <4> QED
          BY <3>1, <3>2, <4>1, AppendProperties DEF Marks
    <3>8. mark[s] = "sent"
      <4>1. CASE s \in PruneSales(stored)
          BY <2>3, <3>3, <3>5, <3>7, <4>1 DEF NotSent
      <4>2. CASE s \notin PruneSales(stored)
          BY <3>6, <4>2 DEF NotSent
      <4> QED
          BY <4>1, <4>2
    <3>9. s \in atServer
        BY <2>1, <3>8 DEF ClosingInv, SentIsThere
    <3>10. ASSUME rungUp[s] = shiftHere PROVE Cardinality(stored) + 1 > room
      <4>1. s \in S
          BY <3>3, <3>6, <3>10 DEF SalesOf
      <4>2. Cardinality(S) > room
          BY <2>3, <3>5, <4>1
      <4>3. IsFiniteSet(stored \cup {i}) /\ S \subseteq stored \cup {i}
          BY <2>1, <3>3, <3>6, FS_AddElement
      <4>4. Cardinality(S) <= Cardinality(stored \cup {i}) /\ IsFiniteSet(S)
          BY <4>3, FS_Subset
      <4>5. Cardinality(stored \cup {i}) <= Cardinality(stored) + 1
        <5>1. i \notin stored
            BY <3>1, SalesAreNumbered DEF ClosingInv, ClosingShapes
        <5>2. Cardinality(stored \cup {i}) = Cardinality(stored) + 1
            BY <2>1, <5>1, FS_AddElement
        <5> QED
            BY <2>1, <5>2
      <4>6. Cardinality(S) \in Nat /\ Cardinality(stored \cup {i}) \in Nat
          BY <4>3, <4>4, FS_CardinalityType
      <4> QED
          BY <2>1, <4>2, <4>4, <4>5, <4>6
    <3> QED
        BY <3>4, <3>7, <3>8, <3>9, <3>10
  <2>9. ASSUME \/ RoomChanges \/ ThreeDaysPass \/ OpensShift \/ ClosesShift \/ LosesSale \/ OpensClosing
               \/ \E r \in Rows, heard \in BOOLEAN : MovesCash(r, heard)
               \/ \E i \in RungUp : SendsSale(i)
               \/ \E answer \in {"sent", "refused"} : ServerDecides(answer)
               \/ \E q \in DOMAIN questions : ServerCounts(q) \/ HearsCash(q)
               \/ UNCHANGED closingVars
        PROVE  FALSE
    <3>1. stored' = stored
        BY <2>9 DEF RoomChanges, ThreeDaysPass, OpensShift, ClosesShift, LosesSale, OpensClosing, MovesCash,
                    SendsSale, ServerDecides, ServerCounts, HearsCash, closingVars, tillVarsHere
    <3> QED
        BY <2>1, <3>1
  <2> QED
      BY <2>6, <2>7, <2>8, <2>9 DEF ClosingNext
<1> QED
    BY <1>1, ClosingInvAlways, PTL DEF ClosingSpec, ForgetsOnlySent

-----------------------------------------------------------------------------
(***************************************************************************)
(* Where the till is, for any number of places, sign-ins and calls.        *)
(*                                                                         *)
(* The question for the list that the screen still wants is about the      *)
(* person and the place of now, so there is one of them.  A grid of        *)
(* another place is on its way only while the screen waits for it, and the *)
(* screen lets nobody open a shift meanwhile.                              *)
(***************************************************************************)
Sessions == [by : 1..signIns, places : SUBSET companyPlaces, grid : companyPlaces]
CallsMade == [kind : {"switch", "refresh", "shift"}, place : companyPlaces, session : Sessions]
Switches == {c \in calls : c.kind = "switch"}

PlaceShapes ==
    /\ companyPlaces \subseteq Places /\ companyPlaces # {} /\ signIns \in Nat
    /\ session = Nowhere \/ session \in Sessions
    /\ session # Nowhere => session.grid \in session.places
    /\ chosen \in companyPlaces \cup {0}
    /\ till = NoTill \/ till \in [at : companyPlaces, told : companyPlaces \cup {0}]
    /\ calls \subseteq CallsMade
    /\ \A c \in calls : c.session.grid \in c.session.places /\ c.place \in c.session.places
    /\ switching \in BOOLEAN

OneSwitch ==
    /\ switching <=> Switches # {}
    /\ \A c, d \in Switches : c = d
    /\ till # NoTill => ~switching

Asked == ListKey(session, chosen, till)
WantsWhatIsHere ==
    /\ \A q \in listAsked : \E key, wanted : q = [key |-> key, wanted |-> wanted]
    /\ \A q \in listAsked : q.wanted \in BOOLEAN /\ (q.wanted => q.key = Asked)
    /\ (\A q \in listAsked : ~q.wanted) => listShown = Asked

PlaceInv == PlaceShapes /\ OneSwitch /\ WantsWhatIsHere

LEMMA PlaceInitHolds == PlaceInit => PlaceInv
<1> SUFFICES ASSUME PlaceInit PROVE PlaceInv
    OBVIOUS
<1>1. PICK p \in Places : companyPlaces = {p}
    BY DEF PlaceInit
<1>2. PlaceShapes
    BY <1>1 DEF PlaceInit, PlaceShapes
<1>3. OneSwitch
    BY DEF PlaceInit, OneSwitch, Switches
<1>4. WantsWhatIsHere
    BY DEF PlaceInit, WantsWhatIsHere, Asked, ListKey
<1> QED
    BY <1>2, <1>3, <1>4 DEF PlaceInv

LEMMA NotNowhere ==
    ASSUME PlaceShapes, NEW s \in Sessions
    PROVE  s # Nowhere
BY DEF PlaceShapes, Sessions, Nowhere

\* The till is at a place of the person who is signed in.
LEMMA HereIsKnown ==
    ASSUME PlaceShapes, session # Nowhere
    PROVE  session \in Sessions /\ Here \in session.places /\ Here \in companyPlaces
<1>1. session \in Sessions /\ session.grid \in session.places
    BY DEF PlaceShapes
<1>2. Here \in session.places
    BY <1>1 DEF Here, CurrentPlace
<1> QED
    BY <1>1, <1>2 DEF Sessions

\* A till that is open stays so when it learns where the server has it.
LEMMA StillOpen ==
    ASSUME PlaceShapes, till # NoTill
    PROVE  till \in [at : companyPlaces, told : companyPlaces \cup {0}] /\ till.at # 0
BY PlaceAssumption DEF PlaceShapes

-----------------------------------------------------------------------------
(* The list. *)

LEMMA WantedStays ==
    ASSUME WantsWhatIsHere, Asked' = Asked, UNCHANGED <<listShown, listAsked>>
    PROVE  WantsWhatIsHere'
BY DEF WantsWhatIsHere

LEMMA FollowsKeeps ==
    ASSUME WantsWhatIsHere, Follows
    PROVE  WantsWhatIsHere'
<1>1. CASE Asked' = Asked
  <2>1. UNCHANGED <<listShown, listAsked>>
      BY <1>1 DEF Follows, Asked
  <2> QED
      BY <1>1, <2>1, WantedStays
<1>2. CASE Asked' # Asked /\ Asked' = Unasked
  <2>1. listShown' = Asked' /\ listAsked' = {[q EXCEPT !.wanted = FALSE] : q \in listAsked}
      BY <1>2 DEF Follows, Asked
  <2>2. \A q \in listAsked' : \E key : q = [key |-> key, wanted |-> FALSE]
      BY <2>1 DEF WantsWhatIsHere
  <2>3. \A q \in listAsked' : q.wanted = FALSE
      BY <2>2
  <2> QED
      BY <2>1, <2>2, <2>3 DEF WantsWhatIsHere
<1>3. CASE Asked' # Asked /\ Asked' # Unasked
  <2>1. PICK now : now = Asked'
      OBVIOUS
  <2>2. listAsked' = {[q EXCEPT !.wanted = FALSE] : q \in listAsked} \cup {[key |-> now, wanted |-> TRUE]}
      BY <1>3, <2>1 DEF Follows, Asked
  <2>3. \A q \in listAsked' : q = [key |-> now, wanted |-> TRUE] \/ \E key : q = [key |-> key, wanted |-> FALSE]
      BY <2>2 DEF WantsWhatIsHere
  <2>4. \A q \in listAsked' : \E key, wanted : q = [key |-> key, wanted |-> wanted]
      BY <2>3
  <2>5. \A q \in listAsked' : q.wanted \in BOOLEAN /\ (q.wanted => q.key = now)
    <3> SUFFICES ASSUME NEW q \in listAsked'
                 PROVE  q.wanted \in BOOLEAN /\ (q.wanted => q.key = now)
        OBVIOUS
    <3>1. CASE q = [key |-> now, wanted |-> TRUE]
        BY <3>1
    <3>2. ASSUME NEW key, q = [key |-> key, wanted |-> FALSE]
          PROVE  q.wanted \in BOOLEAN /\ (q.wanted => q.key = now)
        BY <3>2
    <3> QED
        BY <2>3, <3>1, <3>2
  <2>6. \E q \in listAsked' : q.wanted
    <3>1. [key |-> now, wanted |-> TRUE] \in listAsked' /\ [key |-> now, wanted |-> TRUE].wanted
        BY <2>2
    <3> QED
        BY <3>1
  <2> QED
      BY <2>1, <2>4, <2>5, <2>6 DEF WantsWhatIsHere
<1> QED
    BY <1>1, <1>2, <1>3

LEMMA HearsListKeeps ==
    ASSUME WantsWhatIsHere, NEW q \in listAsked, HearsList(q)
    PROVE  WantsWhatIsHere'
<1>1. Asked' = Asked /\ listAsked' = listAsked \ {q}
    BY DEF HearsList, Asked
<1>2. CASE q.wanted
  <2>1. listShown' = Asked
      BY <1>2 DEF HearsList, WantsWhatIsHere
  <2> QED
      BY <1>1, <2>1 DEF WantsWhatIsHere
<1>3. CASE ~q.wanted
  <2>1. listShown' = listShown
      BY <1>3 DEF HearsList
  <2> QED
      BY <1>1, <1>3, <2>1 DEF WantsWhatIsHere
<1> QED
    BY <1>2, <1>3

LEMMA ReloadsKeeps ==
    ASSUME WantsWhatIsHere, Reloads
    PROVE  WantsWhatIsHere'
<1>1. Asked' = Asked /\ listShown' = Unasked
    BY DEF Reloads, Asked
<1>2. listAsked' = IF Asked = Unasked THEN {} ELSE {[key |-> Asked, wanted |-> TRUE]}
    BY DEF Reloads, Asked
<1>3. CASE Asked = Unasked
    BY <1>1, <1>2, <1>3 DEF WantsWhatIsHere
<1>4. CASE Asked # Unasked
  <2>1. PICK q : q = [key |-> Asked, wanted |-> TRUE]
      OBVIOUS
  <2>2. listAsked' = {q} /\ q.wanted = TRUE /\ q.key = Asked
      BY <1>2, <1>4, <2>1
  <2> QED
      BY <1>1, <2>1, <2>2 DEF WantsWhatIsHere
<1> QED
    BY <1>3, <1>4

-----------------------------------------------------------------------------
(* One step. *)

\* A call more.
LEMMA CallsServerKeeps ==
    ASSUME PlaceShapes, session # Nowhere, NEW kind \in {"switch", "refresh", "shift"},
           NEW place \in session.places, CallsServer(kind, place),
           UNCHANGED <<companyPlaces, session, signIns, chosen, till>>, switching' \in BOOLEAN
    PROVE  /\ PlaceShapes'
           /\ Switches' = IF kind = "switch"
                          THEN Switches \cup {[kind |-> kind, place |-> place, session |-> session]}
                          ELSE Switches
<1>1. PICK call : call = [kind |-> kind, place |-> place, session |-> session]
    OBVIOUS
<1>2. session \in Sessions /\ session.grid \in session.places /\ place \in companyPlaces
    BY HereIsKnown DEF PlaceShapes, Sessions
<1>3. call \in CallsMade /\ call.session = session /\ call.place = place /\ call.kind = kind
    BY <1>1, <1>2 DEF CallsMade
<1>4. calls' = calls \cup {call} /\ Sessions' = Sessions /\ CallsMade' = CallsMade
    BY <1>1 DEF CallsServer, Sessions, CallsMade
<1>5. PlaceShapes'
    BY <1>2, <1>3, <1>4 DEF PlaceShapes
<1>6. Switches' = IF kind = "switch" THEN Switches \cup {call} ELSE Switches
    BY <1>3, <1>4 DEF Switches
<1> QED
    BY <1>1, <1>5, <1>6

LEMMA AddsPlaceKeeps ==
    ASSUME PlaceInv, NEW p \in Places, AddsPlace(p)
    PROVE  PlaceInv'
<1>1. companyPlaces' = companyPlaces \cup {p}
    BY DEF AddsPlace
<1>2. UNCHANGED <<session, signIns, chosen, switching, till, calls, listShown, listAsked>>
    BY DEF AddsPlace
<1>3. Sessions \subseteq Sessions'
    BY <1>1, <1>2 DEF Sessions
<1>4. CallsMade \subseteq CallsMade'
    BY <1>1, <1>3 DEF CallsMade
<1>5. PlaceShapes'
    BY <1>1, <1>2, <1>3, <1>4 DEF PlaceInv, PlaceShapes
<1>6. OneSwitch' /\ Asked' = Asked
    BY <1>2 DEF PlaceInv, OneSwitch, Switches, Asked
<1> QED
    BY <1>2, <1>5, <1>6, WantedStays DEF PlaceInv

LEMMA SignsInKeeps ==
    ASSUME PlaceInv, SignsIn
    PROVE  PlaceInv'
<1>1. UNCHANGED <<companyPlaces, chosen, switching, till, calls>> /\ signIns' = signIns + 1
    BY DEF SignsIn
<1>2. companyPlaces # {} /\ companyPlaces \subseteq Nat /\ companyPlaces \subseteq Places
    BY PlaceAssumption DEF PlaceInv, PlaceShapes
<1>3. PICK grid : grid = Min(companyPlaces)
    OBVIOUS
<1>4. grid \in companyPlaces
    BY <1>2, <1>3, LeastNumber
<1>5. session' = [by |-> signIns', places |-> companyPlaces, grid |-> grid]
    BY <1>3 DEF SignsIn
<1>6. signIns \in Nat /\ 1..signIns \subseteq 1..signIns' /\ signIns' \in 1..signIns'
    BY <1>1 DEF PlaceInv, PlaceShapes
<1>7. Sessions \subseteq Sessions' /\ session' \in Sessions'
    BY <1>1, <1>4, <1>5, <1>6 DEF Sessions
<1>8. CallsMade \subseteq CallsMade'
    BY <1>1, <1>7 DEF CallsMade
<1>9. session'.grid \in session'.places
    BY <1>4, <1>5
<1>10. PlaceShapes'
    BY <1>1, <1>6, <1>7, <1>8, <1>9 DEF PlaceInv, PlaceShapes
<1>11. OneSwitch'
    BY <1>1 DEF PlaceInv, OneSwitch, Switches
<1>12. WantsWhatIsHere'
    BY FollowsKeeps DEF PlaceInv, SignsIn
<1> QED
    BY <1>10, <1>11, <1>12 DEF PlaceInv

LEMMA SignsOutKeeps ==
    ASSUME PlaceInv, SignsOut
    PROVE  PlaceInv'
<1>1. UNCHANGED <<companyPlaces, signIns, chosen, switching, till, calls>> /\ session' = Nowhere
    BY DEF SignsOut
<1>2. Sessions' = Sessions /\ CallsMade' = CallsMade
    BY <1>1 DEF Sessions, CallsMade
<1>3. PlaceShapes'
    BY <1>1, <1>2 DEF PlaceInv, PlaceShapes
<1>4. OneSwitch'
    BY <1>1 DEF PlaceInv, OneSwitch, Switches
<1>5. WantsWhatIsHere'
    BY FollowsKeeps DEF PlaceInv, SignsOut
<1> QED
    BY <1>3, <1>4, <1>5 DEF PlaceInv

LEMMA PageReloadsKeeps ==
    ASSUME PlaceInv, Reloads
    PROVE  PlaceInv'
<1>1. UNCHANGED <<companyPlaces, session, signIns, chosen, till>> /\ calls' = {} /\ switching' = FALSE
    BY DEF Reloads
<1>2. PlaceShapes'
  <2>1. Sessions' = Sessions
      BY <1>1 DEF Sessions
  <2> QED
      BY <1>1, <2>1 DEF PlaceInv, PlaceShapes
<1>3. OneSwitch'
    BY <1>1 DEF OneSwitch, Switches
<1> QED
    BY <1>2, <1>3, ReloadsKeeps DEF PlaceInv

LEMMA SwitchesToKeeps ==
    ASSUME PlaceInv, NEW p \in Places, SwitchesTo(p)
    PROVE  PlaceInv'
<1>1. /\ session # Nowhere /\ till = NoTill /\ ~switching /\ p \in session.places
      /\ switching' = TRUE /\ CallsServer("switch", p)
      /\ UNCHANGED <<companyPlaces, session, signIns, chosen, till, listShown, listAsked>>
    BY DEF SwitchesTo
<1>2. PICK call : call = [kind |-> "switch", place |-> p, session |-> session]
    OBVIOUS
<1>3. PlaceShapes' /\ Switches' = Switches \cup {call}
    BY <1>1, <1>2, CallsServerKeeps DEF PlaceInv
<1>4. Switches = {}
    BY <1>1 DEF PlaceInv, OneSwitch
<1>5. OneSwitch'
    BY <1>1, <1>3, <1>4 DEF OneSwitch
<1>6. Asked' = Asked
    BY <1>1 DEF Asked
<1> QED
    BY <1>1, <1>3, <1>5, <1>6, WantedStays DEF PlaceInv

\* A call that is no switch, while nothing else of the till changes.
LEMMA OtherCallKeeps ==
    ASSUME PlaceInv, session # Nowhere, NEW kind \in {"refresh", "shift"}, CallsServer(kind, Here),
           UNCHANGED <<companyPlaces, session, signIns, chosen, switching, till, listShown, listAsked>>
    PROVE  PlaceInv'
<1>1. Here \in session.places /\ switching' \in BOOLEAN
    BY HereIsKnown DEF PlaceInv, PlaceShapes
<1>2. PlaceShapes' /\ Switches' = Switches
    BY <1>1, CallsServerKeeps DEF PlaceInv
<1>3. OneSwitch'
    BY <1>2 DEF PlaceInv, OneSwitch
<1>4. Asked' = Asked
    BY DEF Asked
<1> QED
    BY <1>2, <1>3, <1>4, WantedStays DEF PlaceInv

LEMMA HearsGridKeeps ==
    ASSUME PlaceInv, NEW c \in calls, HearsGrid(c)
    PROVE  PlaceInv'
<1>1. UNCHANGED <<companyPlaces, signIns, till>> /\ calls' = calls \ {c}
    BY DEF HearsGrid
<1>2. PICK s : s = c.session
    OBVIOUS
<1>3. s \in Sessions /\ c.place \in s.places /\ c.place \in companyPlaces
    BY <1>2 DEF PlaceInv, PlaceShapes, CallsMade
<1>4. session' = [by |-> s.by, places |-> s.places, grid |-> c.place]
    BY <1>2, <1>3 DEF HearsGrid, Sessions
<1>5. Sessions' = Sessions /\ CallsMade' = CallsMade
    BY <1>1 DEF Sessions, CallsMade
<1>6. session' \in Sessions' /\ session'.grid \in session'.places
    BY <1>3, <1>4, <1>5 DEF Sessions
<1>7. chosen' \in companyPlaces' \cup {0} /\ switching' \in BOOLEAN
    BY <1>1, <1>3 DEF HearsGrid, PlaceInv, PlaceShapes
<1>8. PlaceShapes'
    BY <1>1, <1>5, <1>6, <1>7 DEF PlaceInv, PlaceShapes
<1>9. OneSwitch'
  <2>1. CASE c.kind = "switch"
    <3>1. Switches' = {} /\ switching' = FALSE
        BY <1>1, <2>1 DEF HearsGrid, PlaceInv, OneSwitch, Switches
    <3> QED
        BY <1>1, <3>1 DEF OneSwitch
  <2>2. CASE c.kind # "switch"
    <3>1. Switches' = Switches /\ switching' = switching
        BY <1>1, <2>2 DEF HearsGrid, Switches
    <3> QED
        BY <1>1, <3>1 DEF PlaceInv, OneSwitch
  <2> QED
      BY <2>1, <2>2
<1>10. WantsWhatIsHere'
    BY FollowsKeeps DEF PlaceInv, HearsGrid
<1> QED
    BY <1>8, <1>9, <1>10 DEF PlaceInv

LEMMA FailsToAnswerKeeps ==
    ASSUME PlaceInv, NEW c \in calls, FailsToAnswer(c)
    PROVE  PlaceInv'
<1>1. UNCHANGED <<companyPlaces, session, signIns, chosen, till, listShown, listAsked>>
    BY DEF FailsToAnswer
<1>2. calls' = calls \ {c} /\ switching' = IF c.kind = "switch" THEN FALSE ELSE switching
    BY DEF FailsToAnswer
<1>3. Sessions' = Sessions /\ CallsMade' = CallsMade
    BY <1>1 DEF Sessions, CallsMade
<1>4. PlaceShapes'
    BY <1>1, <1>2, <1>3 DEF PlaceInv, PlaceShapes
<1>5. OneSwitch'
  <2>1. CASE c.kind = "switch"
    <3>1. Switches' = {}
        BY <1>2, <2>1 DEF PlaceInv, OneSwitch, Switches
    <3> QED
        BY <1>1, <1>2, <2>1, <3>1 DEF OneSwitch
  <2>2. CASE c.kind # "switch"
    <3>1. Switches' = Switches
        BY <1>2, <2>2 DEF Switches
    <3> QED
        BY <1>1, <1>2, <2>2, <3>1 DEF PlaceInv, OneSwitch
  <2> QED
      BY <2>1, <2>2
<1>6. Asked' = Asked
    BY <1>1 DEF Asked
<1> QED
    BY <1>1, <1>4, <1>5, <1>6, WantedStays DEF PlaceInv

LEMMA OpensTillKeeps ==
    ASSUME PlaceInv, OpensTill
    PROVE  PlaceInv'
<1>1. UNCHANGED <<companyPlaces, session, signIns, chosen, switching, calls>> /\ ~switching
    BY DEF OpensTill
<1>2. Here \in companyPlaces /\ till' = [at |-> Here, told |-> 0]
    BY HereIsKnown DEF PlaceInv, OpensTill
<1>3. Sessions' = Sessions /\ CallsMade' = CallsMade
    BY <1>1 DEF Sessions, CallsMade
<1>4. PlaceShapes'
    BY <1>1, <1>2, <1>3 DEF PlaceInv, PlaceShapes
<1>5. OneSwitch'
    BY <1>1 DEF PlaceInv, OneSwitch, Switches
<1>6. WantsWhatIsHere'
    BY FollowsKeeps DEF PlaceInv, OpensTill
<1> QED
    BY <1>4, <1>5, <1>6 DEF PlaceInv

LEMMA ServerOpensKeeps ==
    ASSUME PlaceInv, NEW c \in calls, ServerOpens(c)
    PROVE  PlaceInv'
<1>1. UNCHANGED <<companyPlaces, session, signIns, chosen, switching, listShown, listAsked>>
    BY DEF ServerOpens
<1>2. calls' = calls \ {c} /\ c.kind = "shift" /\ c.place \in companyPlaces
    BY DEF ServerOpens, PlaceInv, PlaceShapes, CallsMade
<1>3. CASE till' = till
  <2>1. Sessions' = Sessions /\ CallsMade' = CallsMade
      BY <1>1 DEF Sessions, CallsMade
  <2>2. PlaceShapes'
      BY <1>1, <1>2, <1>3, <2>1 DEF PlaceInv, PlaceShapes
  <2>3. Switches' = Switches /\ Asked' = Asked
      BY <1>1, <1>2, <1>3 DEF Switches, Asked
  <2>4. OneSwitch'
      BY <1>1, <1>3, <2>3 DEF PlaceInv, OneSwitch
  <2> QED
      BY <1>1, <2>2, <2>3, <2>4, WantedStays DEF PlaceInv
<1>4. CASE till # NoTill /\ till' = [till EXCEPT !.told = c.place]
  <2>1. till \in [at : companyPlaces, told : companyPlaces \cup {0}] /\ till.at # 0
      BY <1>4, StillOpen DEF PlaceInv
  <2>2. till' = [at |-> till.at, told |-> c.place]
      BY <1>4, <2>1
  <2>3. till' \in [at : companyPlaces, told : companyPlaces \cup {0}] /\ till' # NoTill
      BY <1>2, <2>1, <2>2 DEF NoTill
  <2>4. Sessions' = Sessions /\ CallsMade' = CallsMade
      BY <1>1 DEF Sessions, CallsMade
  <2>5. PlaceShapes'
      BY <1>1, <1>2, <2>3, <2>4 DEF PlaceInv, PlaceShapes
  <2>6. Switches' = Switches
      BY <1>2 DEF Switches
  <2>7. Asked' = Asked
      BY <1>1, <1>4, <2>3 DEF Asked, ListKey
  <2>8. OneSwitch'
      BY <1>1, <1>4, <2>6 DEF PlaceInv, OneSwitch
  <2> QED
      BY <1>1, <2>5, <2>7, <2>8, WantedStays DEF PlaceInv
<1> QED
    BY <1>3, <1>4 DEF ServerOpens

LEMMA ClosesTillKeeps ==
    ASSUME PlaceInv, ClosesTill
    PROVE  PlaceInv'
<1>1. UNCHANGED <<companyPlaces, session, signIns, chosen, switching>> /\ till' = NoTill
    BY DEF ClosesTill
<1>2. calls' = {c \in calls : c.kind # "shift"}
    BY DEF ClosesTill
<1>3. Sessions' = Sessions /\ CallsMade' = CallsMade
    BY <1>1 DEF Sessions, CallsMade
<1>4. PlaceShapes'
    BY <1>1, <1>2, <1>3 DEF PlaceInv, PlaceShapes
<1>5. Switches' = Switches
    BY <1>2 DEF Switches
<1>6. OneSwitch'
    BY <1>1, <1>5 DEF PlaceInv, OneSwitch
<1>7. WantsWhatIsHere'
    BY FollowsKeeps DEF PlaceInv, ClosesTill
<1> QED
    BY <1>4, <1>6, <1>7 DEF PlaceInv

\* What does not touch the till, the grid or the list.
LEMMA ElsewhereKeeps ==
    ASSUME PlaceInv,
           UNCHANGED <<companyPlaces, session, signIns, chosen, switching, till, calls>>
    PROVE  PlaceShapes' /\ OneSwitch' /\ Asked' = Asked
<1>1. Sessions' = Sessions /\ CallsMade' = CallsMade /\ Switches' = Switches
    BY DEF Sessions, CallsMade, Switches
<1>2. PlaceShapes'
    BY <1>1 DEF PlaceInv, PlaceShapes
<1>3. OneSwitch'
    BY <1>1 DEF PlaceInv, OneSwitch
<1>4. Asked' = Asked
    BY DEF Asked
<1> QED
    BY <1>2, <1>3, <1>4

LEMMA PlaceStepHolds == PlaceInv /\ [PlaceNext]_placeVars => PlaceInv'
<1> SUFFICES ASSUME PlaceInv, [PlaceNext]_placeVars PROVE PlaceInv'
    OBVIOUS
<1>1. ASSUME NEW p \in Places, AddsPlace(p) PROVE PlaceInv'
    BY <1>1, AddsPlaceKeeps
<1>2. ASSUME NEW p \in Places, SwitchesTo(p) PROVE PlaceInv'
    BY <1>2, SwitchesToKeeps
<1>3. CASE SignsIn
    BY <1>3, SignsInKeeps
<1>4. CASE SignsOut
    BY <1>4, SignsOutKeeps
<1>5. CASE Reloads
    BY <1>5, PageReloadsKeeps
<1>6. CASE RefreshesGrid
    BY <1>6, OtherCallKeeps DEF RefreshesGrid
<1>7. ASSUME NEW c \in calls, HearsGrid(c) PROVE PlaceInv'
    BY <1>7, HearsGridKeeps
<1>8. ASSUME NEW c \in calls, FailsToAnswer(c) PROVE PlaceInv'
    BY <1>8, FailsToAnswerKeeps
<1>9. ASSUME NEW c \in calls, ServerOpens(c) PROVE PlaceInv'
    BY <1>9, ServerOpensKeeps
<1>10. ASSUME NEW q \in listAsked, HearsList(q) PROVE PlaceInv'
  <2>1. PlaceShapes' /\ OneSwitch'
      BY <1>10, ElsewhereKeeps DEF HearsList
  <2> QED
      BY <1>10, <2>1, HearsListKeeps DEF PlaceInv
<1>11. CASE OpensTill
    BY <1>11, OpensTillKeeps
<1>12. CASE SyncsShift
    BY <1>12, OtherCallKeeps DEF SyncsShift
<1>13. CASE SellsAtPlace
    BY <1>13, ElsewhereKeeps, WantedStays DEF SellsAtPlace, PlaceInv
<1>14. CASE ClosesTill
    BY <1>14, ClosesTillKeeps
<1>15. CASE UNCHANGED placeVars
    BY <1>15, ElsewhereKeeps, WantedStays DEF placeVars, PlaceInv
<1> QED
    BY <1>1, <1>2, <1>3, <1>4, <1>5, <1>6, <1>7, <1>8, <1>9, <1>10, <1>11, <1>12, <1>13, <1>14,
       <1>15 DEF PlaceNext

LEMMA PlaceAlwaysHolds == PlaceSpec => []PlaceInv
<1>1. PlaceInit => PlaceInv
    BY PlaceInitHolds
<1>2. PlaceInv /\ [PlaceNext]_placeVars => PlaceInv'
    BY PlaceStepHolds
<1> QED
    BY <1>1, <1>2, PTL DEF PlaceSpec

\* Nobody is signed in at a place they do not have, and one list at most is wanted
\* (PlaceTypeOK).
THEOREM PlaceTypes == PlaceSpec => []PlaceTypeOK
<1>1. PlaceInv => PlaceTypeOK
  <2> SUFFICES ASSUME PlaceInv PROVE PlaceTypeOK
      OBVIOUS
  <2>1. PICK W : W = {q \in listAsked : q.wanted}
      OBVIOUS
  <2>2. \A p, q \in W : p = q
    <3>1. \A q \in W : q = [key |-> Asked, wanted |-> TRUE]
        BY <2>1 DEF PlaceInv, WantsWhatIsHere
    <3> QED
        BY <3>1
  <2>3. W = {} \/ \E q : W = {q}
      BY <2>2
  <2>4. Cardinality(W) \in {0, 1}
      BY <2>3, FS_EmptySet, FS_Singleton
  <2>5. Cardinality({q \in listAsked : q.wanted}) <= 1
      BY <2>1, <2>4
  <2>6. session # Nowhere => session.grid \in session.places /\ session.by \in 1..signIns
      BY DEF PlaceInv, PlaceShapes, Sessions
  <2>7. session.places \subseteq companyPlaces
      BY DEF PlaceInv, PlaceShapes, Sessions, Nowhere
  <2>8. switching => \E c \in calls : c.kind = "switch"
      BY DEF PlaceInv, OneSwitch, Switches
  <2>9. till # NoTill => till.at \in companyPlaces
      BY DEF PlaceInv, PlaceShapes
  <2> QED
      BY <2>5, <2>6, <2>7, <2>8, <2>9 DEF PlaceInv, PlaceShapes, PlaceTypeOK
<1> QED
    BY <1>1, PlaceAlwaysHolds, PTL

\* The list of open shifts, when none is awaited, is of the person and the place of
\* now (ListIsOfHere), however late the answers for earlier ones come.
THEOREM ListIsAlwaysOfHere == PlaceSpec => []ListIsOfHere
<1>1. PlaceInv => ListIsOfHere
    BY DEF PlaceInv, WantsWhatIsHere, ListIsOfHere, Asked
<1> QED
    BY <1>1, PlaceAlwaysHolds, PTL

\* The place is not switched under an open shift (ChoiceOutlivesShift).
THEOREM ChoiceAlwaysOutlivesShift == PlaceSpec => ChoiceOutlivesShift
<1>1. ASSUME PlaceInv, [PlaceNext]_placeVars PROVE till # NoTill => chosen' = chosen
  <2> SUFFICES ASSUME till # NoTill PROVE chosen' = chosen
      OBVIOUS
  <2>1. Switches = {}
      BY <1>1 DEF PlaceInv, OneSwitch
  <2>2. ASSUME NEW c \in calls, HearsGrid(c) PROVE chosen' = chosen
      BY <2>1, <2>2 DEF HearsGrid, Switches
  <2>3. CASE UNCHANGED placeVars
      BY <2>3 DEF placeVars
  <2> QED
      BY <1>1, <2>2, <2>3 DEF PlaceNext, AddsPlace, SwitchesTo, SignsIn, SignsOut, Reloads, RefreshesGrid,
         FailsToAnswer, ServerOpens, HearsList, OpensTill, SyncsShift, SellsAtPlace, ClosesTill
<1>2. PlaceInv /\ [PlaceNext]_placeVars => [till # NoTill => chosen' = chosen]_placeVars
    BY <1>1
<1> QED
    BY <1>2, PlaceAlwaysHolds, PTL DEF PlaceSpec, ChoiceOutlivesShift

-----------------------------------------------------------------------------
(***************************************************************************)
(* The shop.  What it is about is chosen once, and no step about one part  *)
(* touches another, so that each part behaves as its own specification     *)
(* says.                                                                   *)
(***************************************************************************)
LEMMA ShopParts ==
    Spec => /\ DrawerSpec /\ CheckoutSpec /\ CountsSpec /\ RepairSpec /\ PacksSpec
            /\ ClosingSpec /\ PlaceSpec
<1>1. Init => /\ DrawerInit /\ CheckoutInit /\ CountsInit /\ RepairInit /\ PacksInit
              /\ ClosingInit /\ PlaceInit
    BY DEF Init
<1>2. [Next]_vars => [DrawerNext]_drawerVars
    BY DEF Next, vars
<1>3. [Next]_vars => [CheckoutNext]_checkoutVars
    BY DEF Next, vars
<1>4. [Next]_vars => [CountsNext]_countVars
    BY DEF Next, vars
<1>5. [Next]_vars => [RepairNext]_repairVars
    BY DEF Next, vars
<1>6. [Next]_vars => [PacksNext]_packVars
    BY DEF Next, vars
<1>7. [Next]_vars => [ClosingNext]_closingVars
    BY DEF Next, vars
<1>8. [Next]_vars => [PlaceNext]_placeVars
    BY DEF Next, vars
<1> QED
    BY <1>1, <1>2, <1>3, <1>4, <1>5, <1>6, <1>7, <1>8, PTL
       DEF Spec, DrawerSpec, CheckoutSpec, CountsSpec, RepairSpec, PacksSpec, ClosingSpec,
           PlaceSpec

\* Every row and counter of the shop stays what the database can hold (ShopTypeOK),
\* for any number of them.
THEOREM ShopTypes == Spec => []ShopTypeOK
<1>1. (/\ DrawerTypeOK /\ CheckoutTypeOK /\ CountsTypeOK /\ RepairTypeOK /\ PacksTypeOK
       /\ ClosingTypeOK /\ PlaceTypeOK) => ShopTypeOK
    BY DEF ShopTypeOK
<1> QED
    BY <1>1, ShopParts, DrawerTypes, CheckoutTypes, CountTypes, RepairTypes, PackTypes,
       ClosingTypes, PlaceTypes, PTL

\* Each payment is expected in one drawer whoever asks, points, payments and debts add
\* up, and the till keeps what it has not sent (MoneyAddsUp), for any number of shifts,
\* cashiers, sales, settlements, questions and places.
THEOREM MoneyAlwaysAddsUp == Spec => []MoneyAddsUp
<1>1. (/\ ExpectedOnce /\ SameMoneyForBoth /\ PointsAddUp /\ PaidExactly /\ DebtIsMoney
       /\ UnsentIsKept /\ FigureIsTheDrawer /\ ListIsOfHere) => MoneyAddsUp
    BY DEF MoneyAddsUp
<1> QED
    BY <1>1, ShopParts, AlwaysExpectedOnce, AlwaysTheSameMoney, PointsAlwaysAddUp,
       AlwaysPaidExactly, DebtIsAlwaysMoney, UnsentIsAlwaysKept, FigureIsAlwaysOfTheDrawer,
       ListIsAlwaysOfHere, PTL

\* A pack is sold once, codes and batches claim no more than the row has, and a row that
\* was repaired agrees with its ledger (RowsMatchGoods), for any number of packs, batches,
\* shelves, clerks and repairs.
THEOREM RowsAlwaysMatchGoods == Spec => []RowsMatchGoods
<1>1. (SoldOnce /\ CodesWithinGoods /\ BatchesWithinGoods /\ RepairedAgrees) => RowsMatchGoods
    BY DEF RowsMatchGoods
<1> QED
    BY <1>1, ShopParts, SoldOnceAlways, CodesAlwaysWithinGoods, BatchesAlwaysWithinGoods,
       RepairedAlwaysAgrees, PTL

\* Work ends with the books put right (WorkSettles): a count leaves what is on the shelf, a
\* repair leaves batches within the goods and cuts the holds that exceed them, a till forgets
\* only what the server has and does not move under an open shift, for any number of shelves,
\* walks, repairs, sales and places.
THEOREM WorkAlwaysSettles == Spec => WorkSettles
    BY ShopParts, CountsAlwaysSettle, BatchesAreAlwaysCovered, HoldsAreAlwaysCut,
       OnlySentIsForgotten, ChoiceAlwaysOutlivesShift DEF WorkSettles
=============================================================================
