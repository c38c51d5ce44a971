CONSTANTS
    Operation = {o1, o2}
    o1 = o1
    o2 = o2
    u1 = u1
    t1 = t1
    t2 = t2
    p1 = p1
    p2 = p2
    i1 = i1
    i2 = i2
    i3 = i3
    User = {u1}
    Team = {t1, t2}
    Project = {p1, p2}
    Issue = {i1, i2, i3}
    HomeOf <- Homes
    ProjectOf <- Projects
    KeyOf <- Keys
    UpdatedAt <- Updated
    Asked <- Anything
    MaxFields = 2
    MaxOperations = 2
    MaxSync = 1
    Cap = 2

SYMMETRY Alike
SPECIFICATION Spec
INVARIANTS
    ErrorsEarned
    ListsTrue
    MembersSeeTheirs
    PagesComplete
CHECK_DEADLOCK FALSE
