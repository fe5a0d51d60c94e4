SPECIFICATION MCSpec
CONSTANTS
    r1 = r1
    r2 = r2
    o1 = o1
    o2 = o2
    Requests <- TwoRequests
    Orders <- TwoOrders
    Bins <- PileAndShelf
    Kinds <- OrdersOnly
    Opening <- OneLooseTwoOnShelf
    Themes <- OrdersThemes
    MaxUnits = 3
    MaxBlocks = 0
SYMMETRY Symmetry
INVARIANTS
    HeldMatchesPromises
CHECK_DEADLOCK FALSE
