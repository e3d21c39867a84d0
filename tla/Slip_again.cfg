SPECIFICATION Spec
CONSTANTS
  p1 = p1
  p2 = p2
  r1 = r1
  r2 = r2
  r3 = r3
  a1 = a1
  o1 = o1
  o2 = o2
  NoOrder = NoOrder
  Posts = {p1, p2}
  Receipts = {r1, r2, r3}
  Accounts = {a1}
  Orders = {o1, o2}
  SenderOf <- MCSenderOf
  BodyOf <- MCBodyOf
  AccountOf <- MCAccountOf
  AmountOf <- MCAmountOf
  PlacedFor <- MCPlacedFor
  ReceivedAt <- MCReceivedAt
  RateLimit = 1
  HighValue = 2
  MaxSMSAge = 1
  Horizon = 2
  Updates <- MCUpdates
  ImageOf <- MCImageOf
  ErrorPage = "error page"
  RefOf <- MCRefOf
  NoRef = ""
  MaxCrashes = 1
CONSTRAINT TwoAtATime
SYMMETRY PostSymmetry
CHECK_DEADLOCK FALSE
INVARIANT
  TransferVerifiedOnce
