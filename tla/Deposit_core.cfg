SPECIFICATION Spec
CONSTANTS
    o1 = o1
    o2 = o2
    n1 = n1
    n2 = n2
    b1 = b1
    b2 = b2
    None = None
    Orders = {o1}
    Refs = {o1}
    Notices = {n1, n2}
    Callers = {n1, n2}
    Accounts = {b1}
    Offsets = {1}
    Strategies = {"unique_amount", "time_based"}
    Amount <- MCAmount
    Funds = 0
SYMMETRY Symmetry
CHECK_DEADLOCK FALSE
INVARIANTS
    TypeOK
    LateReportIsRefused
    EffectsFollowCompletion
