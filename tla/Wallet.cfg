CONSTANTS
  t1 = t1
  o1 = o1
  p1 = p1
  a1 = a1
  k1 = k1
  h1 = h1
  h2 = h2
  Nothing = Nothing
  TopUps = {t1}
  WalletOrders = {o1}
  Purchases = {p1}
  Credits = {k1}
  Debits = {a1}
  Amount <- Amounts
  Handlers = {h1, h2}
SPECIFICATION WalletSpec
SYMMETRY Symmetry
INVARIANTS
  WalletTypeOK
  BalanceIsLedger
  TopUpsPaidFor
  CancelledIsReturned
  FailedIsReturned
