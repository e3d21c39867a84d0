SPECIFICATION Spec
CONSTANTS
  adm = adm
  new = new
  mer = mer
  agt = agt
  par = par
  l1 = l1
  l2 = l2
  l3 = l3
  q1 = q1
  q2 = q2
  Nobody = Nobody
  NoRequest = NoRequest
  Users = {adm, new, mer, agt, par}
  Requests = {q1, q2}
  KindOf <- MCKindOf
  ParentOf <- MCParentOf
  Seeded = {adm, mer, agt, par}
  MaxFields = 2
  Logins = {l1, l2, l3}
  Targets = {agt, par}
  TwoFactor = {agt}
  IPLimit = 2
  MaxFailed = 2
  MaxWindows = 2
  Loads <- MCLoads
SYMMETRY AccessSymmetry
INVARIANTS
  TypeOK
  BudgetIsKept
  NeverLockedEarly
  UpdatesStand
  SuspendedStaysOut
CHECK_DEADLOCK FALSE
