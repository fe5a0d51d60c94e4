SPECIFICATION FairSpec
CONSTANTS
    Shifts = {shift1}
    Sales = {sale1, sale2}
    Staff = {manager}
    Managers = {manager}
    Asides = {aside}
    MaxLate = 0
PROPERTIES
    SalesGoOut
