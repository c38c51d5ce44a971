CONSTANTS
    Team = {t1, t2}
    Project = {p1, u}
    Issue = {i1}
    Label = {l1}
    Rate = {r1}
    Time = {k1}
    None = None
    Unassigned = u
    Doubtful = {l1}
    PageSize = 2
    MaxEdits = 2
    MaxLocal = 1
    MaxHooks = 1
    MaxFailures = 1
    MaxChanges = 3

SPECIFICATION Spec
PROPERTIES
    
    LocalDataKept
    OrphansHandled
