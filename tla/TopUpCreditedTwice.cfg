CONSTANTS
  t1 = t1
  o1 = o1
  p1 = p1
  a1 = a1
  k1 = k1
  h1 = h1
  h2 = h2
  Nothing = Nothing
  TopUps = {t1}
  WalletOrders = {}
  Purchases = {}
  Credits = {}
  Debits = {}
  Amount <- OneTopUp
  Handlers = {h1, h2}
SPECIFICATION WalletSpec
SYMMETRY Symmetry
INVARIANT CreditedOnce
