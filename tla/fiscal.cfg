SPECIFICATION FiscalSpec
CONSTANTS
    Points = {p1}
    Drains = {d1, d2}
    Typists = {h1}
    MaxReceipts = 2
    MaxAttempts = 2
    Limit = 1
    MaxMishaps = 1
INVARIANTS
    FiscalTypeOK FiledOnce RegisteredIsFiled
PROPERTY
    QueueMoves
CHECK_DEADLOCK FALSE
