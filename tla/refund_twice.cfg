SPECIFICATION Spec
CONSTANTS
    shop = shop
    depot = depot
    k1 = k1
    k2 = k2
    o1 = o1
    o2 = o2
    tea = tea
    pill = pill
    boss = boss
    hand = hand
    a = a
    b = b
    t1 = t1
    flour = flour
    bread = bread
    soup = soup
    c1 = c1
    paper1 = paper1
    paper2 = paper2
    teller = teller
    c2 = c2
    Places <- MCPlaces
    Vans = {paper1, paper2}
    TravelPacks = {k1, k2}
    Lots = {1, 2}
    Loose = 9
    Loaders = {c1, c2}
    FirstStock <- MCFirstStock
    Goods = {tea, pill}
    MarkedGoods = {pill}
    GoodsPacks <- MCGoodsPacks
    Ordered <- MCOrdered
    FirstShelf <- MCFirstShelf
    Pickers = {c1, c2}
    Wanted <- MCWanted
    Deliveries = {paper1, paper2}
    Buyers = {c1, c2}
    Heads = {boss}
    OtherStaff = {hand}
    SoldLines <- MCSoldLines
    SoldPacks <- MCSoldPacks
    Discount = 1
    Redeemed = 1
    Earned = 2
    Tellers = {c1, c2}
    Tables = {t1}
    Bills = {paper1, paper2}
    Pantry <- MCPantry
    Menu <- MCMenu
    Recipes <- MCRecipes
    Waiters = {c1, c2}
    MaxLines = 2
SYMMETRY Anybody
INVARIANT ReturnedOnce
CHECK_DEADLOCK FALSE
