SPECIFICATION Spec
CONSTANTS
    Shifts = {shift1}
    Sales = {sale1}
    Staff = {cashier, manager}
    Managers = {manager}
    Asides = {aside}
    MaxLate = 1
INVARIANTS
    TypeOK
    TillKnowsTheServer
    CloseFindsItsShift
PROPERTIES
    ClosedIsFinal
