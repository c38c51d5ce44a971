CONSTANTS
    Fields = 2
    Role = {admin, other}
    Asked = {{admin}, {admin, other}}
    None = None
    AccessTTL = 3
    SevenDays = 3
    Ttls = {0, 1}
    MaxVersion = 1
    MaxTime = 3

SPECIFICATION Spec
PROPERTIES
    GrantedWhileAcceptable
    StalenessBounded
    RefusalEarned
