SPECIFICATION MCSpec
CONSTANTS
    r1 = r1
    r2 = r2
    o1 = o1
    o2 = o2
    Requests <- TwoRequests
    Orders <- TwoOrders
    Bins <- PileAndShelf
    Kinds <- PromiseKinds
    Opening <- OneLooseTwoOnShelf
    Themes <- PromiseThemes
    MaxUnits = 2
    MaxBlocks = 0
SYMMETRY MCSymmetry
INVARIANTS
    TypeOK
    PromisesCovered
    HoldsCoverPromises
PROPERTIES
    KeepsItsWord
    OneClosingEach
CHECK_DEADLOCK FALSE
