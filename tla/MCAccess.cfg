SPECIFICATION Spec
CONSTANTS
    Accounts = {a1, a2}
    Workspaces = {w1, w2}
    Names = {short, long}
    LongNames = {long}
    Tokens = {t1, t2}
    None = None
    Clients = {c1, c2}
    LIFETIME = 2
    TICKS = 2
    Offered = {"viewer", "admin", "owner"}
    MaxTime = 2
    MaxCalls = 2
INVARIANTS OneOwner AccountHasWorkspace LogoutHolds
PROPERTIES MembersComeByAdding MembershipImplemented
CHECK_DEADLOCK FALSE
SYMMETRY Symmetry
