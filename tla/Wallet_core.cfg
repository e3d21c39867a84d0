SPECIFICATION FairSpec
CONSTANTS
    p1 = p1
    p2 = p2
    w1 = w1
    ghost = ghost
    r1 = r1
    r2 = r2
    NoProc = NoProc
    Procs = {p1, p2}
    Wallets = {w1}
    Ids = {w1, ghost}
    Refs = {r1, r2}
    Requests <- WholeRequests
    Opening <- MCOpening
    MaxStored = 50
CHECK_DEADLOCK FALSE
INVARIANTS
    NonNegative
    AuditChain
    TruthfulReply
    RetryIsHarmless
    SnapshotCurrent
PROPERTIES
    OnlyOwnLockReleased
    MoneyMovesWithEntry
    KeepsPromise
    WalletComesFree
