---------------------------- MODULE MCDocuments ----------------------------
\* The papers goods move by, for TLC: model values and small books.
EXTENDS Documents, TLC

CONSTANTS shop, depot, tea, pill, flour, bread, soup, a, b, t1, k1, k2,
    o1, o2, paper1, paper2, boss, hand, teller, c1, c2

Anybody == Permutations({c1, c2}) \cup Permutations({paper1, paper2})

MCPlaces == {shop, depot}
MCFirstStock == shop :> (1 :> 1 @@ 2 :> 1 @@ 9 :> 1) @@ depot :> (1 :> 0 @@ 2 :> 0 @@ 9 :> 0)

MCGoodsPacks == k1 :> pill @@ k2 :> pill
MCOrdered == o1 :> (tea :> 1 @@ pill :> 1) @@ o2 :> (tea :> 0 @@ pill :> 1)
MCFirstShelf == tea :> 1 @@ pill :> 2

MCWanted == o1 :> 2 @@ o2 :> 1

MCSoldLines == a :> [quantity |-> 2, price |-> 1] @@ b :> [quantity |-> 3, price |-> 1]
MCSoldPacks == k1 :> a @@ k2 :> a

MCPantry == flour :> 2 @@ bread :> 1
MCMenu == soup :> 1 @@ bread :> 2
MCRecipes == soup :> [makes |-> 1, takes |-> flour :> 1 @@ bread :> 0]
          @@ bread :> [makes |-> 2, takes |-> flour :> 1 @@ bread :> 0]
=============================================================================
