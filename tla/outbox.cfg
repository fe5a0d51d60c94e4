SPECIFICATION FairSpec
CONSTANTS
    receipt = receipt
    putaway = putaway
    writeOff = writeOff
    s1 = s1
    s2 = s2
    Commands <- Day
    Early <- LookFirst
    Places <- DockAndShelf
    From <- Source
    To <- Target
    Opening <- EmptyShop
    MaxGoods = 1
    Slots <- TwoSlots
INVARIANTS
    TypeOK
    AppliedOnce
    NoneLost
    OrderKept
PROPERTIES
    RefusalFreezes
    KeepsTheBook
    Settles
