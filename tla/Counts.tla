-------------------------------- MODULE Counts --------------------------------
(***************************************************************************)
(* Counting the shop without closing it.                                   *)
(*                                                                         *)
(* Somebody walks the shelves and writes down what lies there; the count   *)
(* reaches the server later.  The server takes back from its books every   *)
(* movement since the walk, compares, and applies the difference to what   *)
(* the books say by then.  Meanwhile goods are sold, online and by tills   *)
(* whose sales are still on their way, delivered, and lost.                *)
(*                                                                         *)
(* One product.  Time is kept as the walks a movement comes after: that is *)
(* all the comparison of createdAt with countedAt asks.  The holds a count *)
(* cuts are in StockHolds, the batches it draws down in Packs.             *)
(***************************************************************************)
EXTENDS Collections

CONSTANTS
    Shelves,        \* bins, numbered by code; 0 is the pile nobody has placed
    Counters,       \* walks under way at a time
    LateSales,      \* sales a till may make without a network
    MostGoods,      \* bound: what a shelf holds
    MaxMoves        \* bound: sales, deliveries and losses in a behaviour

Pile == 0

ASSUME CountsAssumption ==
    /\ Shelves \subseteq Nat /\ IsFiniteSet(Shelves) /\ Pile \in Shelves
    /\ IsFiniteSet(LateSales) /\ MostGoods \in Nat /\ MaxMoves \in Nat

VARIABLES
    books,          \* rows of "stocks"
    onShelf,        \* what really lies there
    late,           \* sales made without a network and not yet sent
    counts,         \* walks and the requests they become
    moves           \* how many sales, deliveries and losses there were

countVars == <<books, onShelf, late, counts, moves>>

NotCounting == [at |-> "idle"]
NotSold == [at |-> "idle"]
Walked == {c \in Counters : counts[c] # NotCounting}
Unsent(s) == Cardinality({l \in LateSales : late[l] # NotSold /\ late[l].shelf = s})

CountsInit ==
    /\ books \in [Shelves -> 0..MostGoods]
    /\ onShelf \in [Shelves -> 0..MostGoods]
    /\ late = [l \in LateSales |-> NotSold]
    /\ counts = [c \in Counters |-> NotCounting]
    /\ moves = 0

-----------------------------------------------------------------------------
(* What a movement does to the counts under way. *)

\* A movement of n on shelf s, which physically came after the walks in after,
\* enters the books.  It spoils a count that has read only half of it: one
\* between its two reads, one that says no time and has not read yet, and one
\* that saw the goods gone but not the sale.
Spoils(c, s, after) ==
    /\ s \in counts[c].scope
    /\ \/ counts[c].at = "rows"
       \/ counts[c].at = "walked" /\ ~counts[c].dated
       \/ counts[c].at = "write" /\ c \notin after

Seen(c, s, n, after) ==
    [counts[c] EXCEPT !.since[s] = @ + (IF c \in after THEN n ELSE 0),
                      !.spoiled = @ \cup (IF Spoils(c, s, after) THEN {"trade"} ELSE {})]

Booked(s, n, after) ==
    [c \in Counters |-> IF c \in Walked THEN Seen(c, s, n, after) ELSE counts[c]]

Moves ==
    /\ moves < MaxMoves
    /\ moves' = moves + 1

SellsHere(s) ==
    /\ Moves
    /\ onShelf[s] > 0 /\ books[s] > 0
    /\ onShelf' = [onShelf EXCEPT ![s] = @ - 1]
    /\ books' = [books EXCEPT ![s] = @ - 1]
    /\ counts' = Booked(s, -1, Walked)
    /\ UNCHANGED late

Delivers(s) ==
    /\ Moves
    /\ onShelf[s] < MostGoods
    /\ onShelf' = [onShelf EXCEPT ![s] = @ + 1]
    /\ books' = [books EXCEPT ![s] = @ + 1]
    /\ counts' = Booked(s, 1, Walked)
    /\ UNCHANGED late

SellsOffline(l, s) ==
    /\ Moves
    /\ late[l] = NotSold
    /\ onShelf[s] > 0
    /\ onShelf' = [onShelf EXCEPT ![s] = @ - 1]
    /\ late' = [late EXCEPT ![l] = [shelf |-> s, after |-> Walked]]
    /\ UNCHANGED <<books, counts>>

\* The movement carries the time of the sale and not of its arrival.
SendsLate(l) ==
    LET s == late[l].shelf IN
    /\ late[l] # NotSold
    /\ books[s] > 0
    /\ books' = [books EXCEPT ![s] = @ - 1]
    /\ counts' = Booked(s, -1, late[l].after)
    /\ late' = [late EXCEPT ![l] = NotSold]
    /\ UNCHANGED <<onShelf, moves>>

\* Stolen, broken, carried to another shelf by mistake.
Vanishes(s) ==
    /\ Moves
    /\ onShelf[s] > 0
    /\ onShelf' = [onShelf EXCEPT ![s] = @ - 1]
    /\ counts' = [c \in Counters |->
          IF c \in Walked /\ s \in counts[c].scope
          THEN [counts[c] EXCEPT !.spoiled = @ \cup {"lost"}] ELSE counts[c]]
    /\ UNCHANGED <<books, late>>

-----------------------------------------------------------------------------
(* A count: of the shelves of a walk (POST /counts/by-bin) or of the product *)
(* at the location (POST /counts).                                           *)

\* A time from the future is dropped, and the count is taken as of now.
Walks(c, kind, scope, dated) ==
    /\ counts[c] = NotCounting
    /\ kind = "product" => scope = Shelves
    /\ counts' = [counts EXCEPT ![c] =
          [at |-> "walked", kind |-> kind, scope |-> scope, dated |-> dated, found |-> onShelf,
           since |-> [s \in Shelves |-> 0], rows |-> [s \in Shelves |-> 0],
            delta |-> [s \in Shelves |-> 0],
           spoiled |-> {}]]
    /\ late' = [l \in LateSales |->
          IF late[l] = NotSold THEN NotSold ELSE [late[l] EXCEPT !.after = @ \ {c}]]
    /\ UNCHANGED <<books, onShelf, moves>>

ReadsRows(c) ==
    /\ counts[c].at = "walked"
    /\ counts' = [counts EXCEPT ![c].at = "rows", ![c].rows = books]
    /\ UNCHANGED <<books, onShelf, late, moves>>

\* The count taken as the truth of the moment it arrives.
BelievedNow(c, s) == counts[c].rows[s]
\* balancesAtTime: what the books said when the shelf was counted.
Believed(c, s) ==
    counts[c].rows[s] - (IF counts[c].dated THEN counts[c].since[s] ELSE 0)

\* computeBinCountAdjustments: what was not found on a walked shelf is missing.
ShelfDelta(c) ==
    [s \in Shelves |-> IF s \in counts[c].scope THEN counts[c].found[s] - Believed(c, s) ELSE 0]

\* computeCountAdjustments over the whole product: a shortage is taken from the
\* shelves before the pile, a surplus goes to the pile.
ProductDelta(c) ==
    LET rows == counts[c].rows
        delta == Sum(counts[c].found) - Sum([s \in Shelves |-> Believed(c, s)])
        take == Spread(-delta, rows, LAMBDA p, q :
                    IF (p = Pile) # (q = Pile) THEN q = Pile
                    ELSE rows[p] < rows[q] \/ (rows[p] = rows[q] /\ p < q))
    IN IF delta < 0 THEN [s \in Shelves |-> -take[s]]
       ELSE [s \in Shelves |-> IF s = Pile THEN delta ELSE 0]

DeltaOf(c) == IF counts[c].kind = "shelves" THEN ShelfDelta(c) ELSE ProductDelta(c)

\* A shortage of more than there is left is refused.
Affordable(c) == Sum(DeltaOf(c)) = Sum(ShelfDelta(c))

ReadsMovements(c) ==
    /\ counts[c].at = "rows"
    /\ counts' = [counts EXCEPT ![c] =
           IF Affordable(c)
           THEN [counts[c] EXCEPT !.at = "write", !.delta = DeltaOf(c), !.rows = [s \in Shelves |-> 0]]
           ELSE NotCounting]
    /\ UNCHANGED <<books, onShelf, late, moves>>

\* Taking the shortage whatever is left.
RoomAnyway(c) == TRUE
\* The condition of each UPDATE: a 409 to the shelf count, an error to the other.
RoomForDelta(c) == \A s \in Shelves : books[s] + counts[c].delta[s] >= 0

\* Another count writes to the same shelves.  It is a movement like any other
\* to a count that reads it; to one that has read already it is a race.
Overtaken(d, c) ==
    d # c /\ d \in Walked /\ \E s \in Shelves : counts[c].delta[s] # 0 /\ s \in counts[d].scope

SpoiledByCount(d) ==
    CASE counts[d].at # "walked" -> {"trade"}
      [] counts[d].at = "walked" /\ counts[d].dated -> {"count"}
      [] OTHER -> {}

CountLands(c) ==
    /\ counts[c].at = "write"
    /\ IF RoomForDelta(c)
       THEN /\ books' = [s \in Shelves |-> books[s] + counts[c].delta[s]]
            /\ counts' = [d \in Counters |->
                  IF d = c THEN NotCounting
                  ELSE IF Overtaken(d, c)
                  THEN [counts[d] EXCEPT !.since = [s \in Shelves |-> counts[d].since[s] + counts[c].delta[s]],
                                         !.spoiled = @ \cup SpoiledByCount(d)]
                  ELSE counts[d]]
       ELSE /\ counts' = [counts EXCEPT ![c] = NotCounting]
            /\ UNCHANGED books
    /\ UNCHANGED <<onShelf, late, moves>>

CountsNext ==
    \/ \E s \in Shelves : SellsHere(s) \/ Delivers(s) \/ Vanishes(s)
    \/ \E l \in LateSales : SendsLate(l) \/ \E s \in Shelves : SellsOffline(l, s)
    \/ \E c \in Counters, dated \in BOOLEAN :
          Walks(c, "product", Shelves, dated)
          \/ \E scope \in (SUBSET Shelves) \ {{}} : Walks(c, "shelves", scope, dated)
    \/ \E c \in Counters : ReadsRows(c) \/ ReadsMovements(c) \/ CountLands(c)

CountsSpec == CountsInit /\ [][CountsNext]_countVars

-----------------------------------------------------------------------------
\* The shape of the state; no count takes goods that are no longer there.
CountsTypeOK ==
    /\ books \in [Shelves -> Nat] /\ onShelf \in [Shelves -> Nat]
    /\ \A l \in LateSales :
           late[l] = NotSold \/ (late[l].shelf \in Shelves /\ late[l].after \subseteq Counters)
    /\ \A c \in Walked :
          /\ counts[c].at \in {"walked", "rows", "write"}
          /\ counts[c].scope \in (SUBSET Shelves) \ {{}}
          /\ counts[c].found \in [Shelves -> Nat]
          /\ counts[c].spoiled \subseteq {"trade", "lost", "count"}

\* Sold before the walk and not sent yet: the count will miss it, and the sale
\* will come after it.
Hidden(c) ==
    {l \in LateSales : late[l] # NotSold /\ late[l].shelf \in counts[c].scope /\ c \notin late[l].after}

Accounted(S) == SumOver(books', S) = SumOver([s \in Shelves |-> onShelf[s] + Unsent(s)], S)

\* A shelf counted is a shelf corrected, however much was sold and delivered
\* between the walk and the arrival of the count: the books then say what lies
\* there and what tills still have to report ("lands on nine: twelve found,
\* three sold", counts.ts:178).  Not so when goods vanish behind the counter's
\* back, when a movement falls between the two reads, or when somebody else's
\* count of the same shelves comes in after the walk.
CountSettles ==
    [][\A c \in Counters :
          (/\ counts[c].at = "write" /\ counts'[c] = NotCounting
           /\ RoomForDelta(c) /\ counts[c].spoiled = {} /\ Hidden(c) = {})
          => /\ counts[c].kind = "product" => Accounted(Shelves)
             /\ counts[c].kind = "shelves" => \A s \in counts[c].scope : Accounted({s})]_countVars

\* The same when somebody else's count of the same shelves came in between: what
\* was found twice is corrected once.
CountsAgree ==
    [][\A c \in Counters :
          (/\ counts[c].at = "write" /\ counts'[c] = NotCounting
           /\ RoomForDelta(c) /\ counts[c].spoiled \subseteq {"count"} /\ Hidden(c) = {})
          => /\ counts[c].kind = "product" => Accounted(Shelves)
             /\ counts[c].kind = "shelves" => \A s \in counts[c].scope : Accounted({s})]_countVars
=============================================================================
