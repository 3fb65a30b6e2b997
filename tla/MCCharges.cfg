CONSTANTS
  c1 = c1
  c2 = c2
  u1 = u1
  u2 = u2
  p1 = p1
  p2 = p2
  pay = pay
  refund = refund
  User = {u1}
  Charge = {pay, refund}
  Refund = refund
  Credits <- Worth
  Free = 1
  Call = {c1}
  Process = {p1}
  ProcOf <- OneCall
  NoBalance = NoBalance
  FillsIds = FALSE
  MaxDay = 0
  MaxRefunds = 1
  MaxFaults = 0
SPECIFICATION FairSpec
PROPERTY ChargesCredited
