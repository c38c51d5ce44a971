CONSTANTS
    Socket = {s1, s2, s3}
    User = {u1}
    None = None
    MaxPerUser = 2
    Timeout = 2
    MaxTime = 7

SPECIFICATION Spec
INVARIANTS
    RegistryMatches
    SilentDropped
