SPECIFICATION Spec
CONSTANTS
    c1 = c1
    c2 = c2
    e1 = e1
    s1 = s1
    k1 = k1
    k2 = k2
    k3 = k3
    n1 = n1
    n2 = n2
    People = {1, 2, 3}
    FirstOwners = {1, 2}
    Pins = {1, 2}
    UserLimit = 3
    Desks = {c1, c2}
    MaxChanges = 3
    Tablets = {c1, c2, k1}
    Managed = {c1, c2}
    RegisterLimit = 1
    MaxRegisters = 3
    Phones = {c1, c2}
    GrantHours = 2
    MaxRequests = 2
    LastTick = 3
    Visits = {c1, c2}
    MaxKeys = 2
    MaxVersions = 2
    Runners = {c1, c2}
    Keep = 2
    MaxDumps = 3
    Shops = {1, 2}
    Sites = {s1}
    Calls = {c1, c2}
    PerCall = 1
    LastDay = 1
    MaxStarted = 3
    MaxTurns = 2
    MaxSessions = 2
    MaxSold = 1
    MaxWire = 2
    Names = {n1, n2}
    Barcodes = {k2, k3}
    Editors = {e1}
    Importers = {s1}
    SkuLimit = 2
    MaxRows = 2
    Screens = {e1}
    Policies <- MCPolicies
    Covers = {0, 1}
    UnitsPerPack = 2
    Lead = 1
    Grace = 1
    Promised <- MCPromised
    LastDate = 1
    MaxOrders = 2
    MaxStock = 2
    MaxTransit = 1
    Extra = 1
SYMMETRY Anybody
INVARIANTS
    OfficeTypeOK
    AccessIsKept
    SalesOutliveTariff
    RecordsAreKept
    DoneOnce
PROPERTIES
    AccessChangesTell
CHECK_DEADLOCK FALSE
