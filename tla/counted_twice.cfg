SPECIFICATION CountsSpec
CONSTANTS
    c1 = c1
    c2 = c2
    l1 = l1
    Shelves = {0, 1}
    Counters = {c1, c2}
    LateSales = {l1}
    MostGoods = 1
    MaxMoves = 1
PROPERTY CountsAgree
CHECK_DEADLOCK FALSE
