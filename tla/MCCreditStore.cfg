CONSTANTS
  c1 = c1
  c2 = c2
  u1 = u1
  u2 = u2
  p1 = p1
  p2 = p2
  pay = pay
  refund = refund
  User = {u1}
  Charge = {pay, refund}
  Refund = refund
  Credits <- Worth
  Free = 1
  Call = {c1, c2}
  Process = {p1, p2}
  ProcOf <- TwoProcesses
  NoBalance = NoBalance
  FillsIds = TRUE
  MaxDay = 1
  MaxRefunds = 1
  MaxFaults = 1
SPECIFICATION Spec
SYMMETRY Symmetry
VIEW View
INVARIANTS
  TypeOK
  CreditedOnce
  Balanced
  RecordedIsCredited
PROPERTY LedgerUntilOverwritten
