SPECIFICATION FairSpec
CONSTANTS
    o1 = o1
    o2 = o2
    n1 = n1
    n2 = n2
    b1 = b1
    b2 = b2
    None = None
    Orders = {o1, o2}
    Refs = {o1, o2}
    Notices = {}
    Callers = {}
    Accounts = {b1, b2}
    Offsets = {1}
    Strategies = {"unique_amount"}
    Amount <- MCAmount
    Funds = 0
CHECK_DEADLOCK FALSE
PROPERTY
    AcknowledgedOrderEnds
