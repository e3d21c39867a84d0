SPECIFICATION Spec
CONSTANTS
    i1 = i1
    i2 = i2
    a1 = a1
    a2 = a2
    a3 = a3
    Ids = {i1}
    Refs = {i1}
    Admins = {a1}
    Callers <- MCCallers
    Amount <- MCAmount
    Funds = 3
    DailyLimit = 3
    Stores = {"memory", "postgres"}
CHECK_DEADLOCK FALSE
INVARIANT
    RejectedIsRefunded
