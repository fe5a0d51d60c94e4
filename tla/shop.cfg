SPECIFICATION Spec
CONSTANTS
    c1 = c1
    c2 = c2
    e1 = e1
    s1 = s1
    l1 = l1
    k1 = k1
    k2 = k2
    k3 = k3
    Cashiers = {c1, c2}
    Drawers = {1, 2}
    Entries = {e1}
    LastHour = 2
    Receipts = {1, 2}
    Prices = {2}
    EarnRate = 50
    CreditLimit = 3
    FirstPoints = 1
    Tills = {c1, c2}
    MaxSettled = 1
    Shelves = {0, 1}
    Counters = {c1}
    LateSales = {l1}
    MostGoods = 1
    MaxMoves = 3
    RepairShelves = {1, 2}
    Sellers = {s1}
    Menders = {c1}
    MostInBooks = 2
    MaxTrades = 2
    Packs = {k1, k2, k3}
    OldPacks = {k1}
    Expiries = {1, 2}
    Clerks = {c1, c2}
    MaxTickets = 4
    MaxRung = 2
    MaxOpened = 2
    MaxQuestions = 1
    Rows = {1}
    KeepMax = 0
    KeepOnOverflow = 1
    MostRoom = 2
    Places = {1, 2}
    MaxSignIns = 2
    MaxCalls = 2
    MaxPlaceSales = 1
SYMMETRY Anybody
INVARIANTS
    ShopTypeOK
    MoneyAddsUp
    RowsMatchGoods
PROPERTIES
    WorkSettles
CHECK_DEADLOCK FALSE
