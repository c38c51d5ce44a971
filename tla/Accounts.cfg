CONSTANTS
    Email = {e1, e2}
    Request = {r1, r2}
    None = None

SPECIFICATION AccountsSpec
INVARIANTS
    FirstIsAdministrator
PROPERTIES
    SignUpKeepsAccounts
