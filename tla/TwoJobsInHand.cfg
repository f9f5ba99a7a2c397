CONSTANTS
  c1 = c1
  o1 = o1
  t1 = t1
  t2 = t2
  h1 = h1
  h2 = h2
  ada = ada
  Nothing = Nothing
  Captains = {c1}
  RideCaptains = {c1}
  Orders = {o1}
  Trips = {t1}
  Handlers = {h1, h2}
  Customers = {ada}
  Kind <- OneCash
  CustomerOf <- OneRide
  MaxCompletions = 1
SPECIFICATION ContendedSpec
SYMMETRY Symmetry
CHECK_DEADLOCK FALSE
INVARIANTS
  OneJobAtATime
