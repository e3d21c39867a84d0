SPECIFICATION Spec
CONSTANTS
    p1 = p1
    p2 = p2
    w1 = w1
    ghost = ghost
    r1 = r1
    r2 = r2
    NoProc = NoProc
    Procs = {p1, p2}
    Wallets = {w1}
    Ids = {w1, ghost}
    Refs = {r1, r2}
    Requests <- RepeatedRequests
    Opening <- MCOpening
    MaxStored = 100
SYMMETRY Symmetry
CHECK_DEADLOCK FALSE
INVARIANT
    AtMostOncePerRef
