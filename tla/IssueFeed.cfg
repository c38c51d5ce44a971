CONSTANTS
    r1 = r1
    r2 = r2
    l1 = l1
    l2 = l2
    p1 = p1
    t1 = t1
    t2 = t2
    Issue = {i1}
    Label = {l1, l2}
    Project = {p1, un}
    Team = {t1, t2}
    Unassigned = un
    Request = {r1, r2}
    None = None
    Regime <- AllRegimes

SPECIFICATION Spec
INVARIANTS
    TypeOK
    MirrorsLinear
    CachesForget
    RemovalAnnouncedOnce
    DuplicatesBounded
CHECK_DEADLOCK FALSE
