CONSTANTS
    User = {u1}
    Role = {admin, pending}
    Pair = {p1, p2}
    Request = {r1, r2}
    None = None
    AccessTTL = 1
    RefreshTTL = 2
    SevenDays = 2
    MaxTime = 3
    MaxVersion = 2
    MaxRestarts = 1

SPECIFICATION Spec
SYMMETRY Symmetry
INVARIANTS
    VersionDeterminesRole
    SpentNeverStored
    RotationRetiresParent
    LoggedOutRefused
    DismissedRefused
