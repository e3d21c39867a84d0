SPECIFICATION ServicesSpec
CONSTANTS
  p1 = p1
  p2 = p2
  r1 = r1
  r2 = r2
  r3 = r3
  a1 = a1
  o1 = o1
  o2 = o2
  NoOrder = NoOrder
  Posts = {p1, p2}
  Receipts = {r1, r2, r3}
  Accounts = {a1}
  Orders = {o1, o2}
  SenderOf <- MCSenderOf
  BodyOf <- MCBodyOf
  AccountOf <- MCAccountOf
  AmountOf <- MCAmountOf
  PlacedFor <- MCPlacedFor
  ReceivedAt <- MCReceivedAt
  RateLimit = 1
  HighValue = 2
  MaxSMSAge = 1
  Horizon = 2
  Updates <- MCUpdates
  ImageOf <- MCImageOf
  ErrorPage = "error page"
  RefOf <- MCRefOf
  NoRef = ""
  MaxCrashes = 1
  h1 = h1
  h2 = h2
  k1 = k1
  k2 = k2
  None = None
  Webhooks = {h1, h2}
  Keys = {k1, k2}
  KeyOf <- MCKeyOf
  Workers = {p1, p2}
  MaxAttempts = 5
  b1 = b1
  b2 = b2
  m1 = m1
  m2 = m2
  d1 = p1
  d2 = p2
  v1 = p1
  v2 = p2
  s1 = s1
  u1 = u1
  t1 = t1
  x1 = x1
  Nothing = Nothing
  BankAccounts = {b1, b2}
  Merchants = {m1, m2}
  Mapped <- MCMapped
  Limit <- MCLimit
  Priority <- MCPriority
  Reports = {p1, p2}
  Amount <- MCAmount
  Switches = {s1}
  Rebuilds = {u1}
  Transfers = {t1}
  References = {x1}
CONSTRAINTS
  OneAtWork
  TwoAtATime
  Apart
SYMMETRY PostSymmetry
CHECK_DEADLOCK FALSE
INVARIANTS
  ServicesTypeOK
  OneOwner
  OutcomeIsTrue
  FullAccountIsClosed
  DisabledLeavesPools
  StoredOnce
  MatchIsBacked
  TransferAcceptedOnce
  DuplicateHasOriginal
PROPERTY
  NotSentAgain
