SPECIFICATION Spec
CONSTANTS
    r1 = r1
    r2 = r2
    None = None
    Rate = {r1, r2}
    Entry = {k1, k2}
    User = {u1}
    Admin = {}
    Price <- MCPrice
    MsPerHour = 4
    DecimalPlaces = 2
    Day = 2
    OneYear = 1
    MaxTime = 3
    Elapsed = {0, 1}
SYMMETRY Symmetry
INVARIANT TypeOK
INVARIANT InvoiceComplete
INVARIANT IntegrityErrorEarned
INVARIANT InvoiceAddsUp
INVARIANT BilledWhenOverlapping
INVARIANT ReportedOnce
PROPERTY RemovalKeepsTime
