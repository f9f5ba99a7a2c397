CONSTANTS
  t1 = t1
  t2 = t2
  m1 = m1
  i1 = i1
  r1 = r1
  r2 = r2
  k1 = k1
  h1 = h1
  Nothing = Nothing
  Trips = {t1, t2}
  Cash = {t1, t2}
  Fare <- Fares
  Commission <- Commissions
  Manual = {m1}
  Payments = {i1}
  Refunds = {r1, r2}
  Adjustments = {k1}
  Deltas <- UpOrDown
  Amounts = {1}
  Handlers = {h1}
SPECIFICATION FinanceSpec
SYMMETRY Symmetry
CONSTRAINT FewMovements
INVARIANTS
  FinanceTypeOK
  AccountsBalance
  ReconciledMeansPaid
  PendingRefundHeld
PROPERTIES
  NeverOverRemitted
