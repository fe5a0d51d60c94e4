SPECIFICATION MCSpec
CONSTANTS
    r1 = r1
    r2 = r2
    o1 = o1
    o2 = o2
    Requests <- TwoRequests
    Orders <- OneOrder
    Bins <- PileAndShelf
    Kinds <- FloorKinds
    Opening <- OneOnShelfOneLoose
    Themes <- FloorThemes
    MaxUnits = 1
    MaxBlocks = 2
SYMMETRY MCSymmetry
INVARIANTS
    LedgerAgrees
    BlocksFit
PROPERTIES
    TradeKeepsPromises
CHECK_DEADLOCK FALSE
