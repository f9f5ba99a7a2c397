CONSTANTS
  c1 = c1
  c2 = c2
  t1 = t1
  h1 = h1
  h2 = h2
  ada = ada
  Nothing = Nothing
  Captains = {c1}
  RideCaptains = {c1}
  Orders = {}
  Trips = {t1}
  Handlers = {h1, h2}
  Customers = {ada}
  CustomerOf <- OneRide
SPECIFICATION FairOnDutySpec
CHECK_DEADLOCK FALSE
INVARIANTS
  RideTypeOK
  RideOfferHoldsLock
PROPERTIES
  SettledOnce
  WaitingEnds
