CONSTANTS
  c1 = c1
  c2 = c2
  o1 = o1
  o2 = o2
  h1 = h1
  h2 = h2
  Nothing = Nothing
  Captains = {c1, c2}
  RideCaptains = {}
  Orders = {o1, o2}
  Trips = {}
  Handlers = {h1}
  Kind <- Mixed
  MaxCompletions = 2
SPECIFICATION DeliverySpec
SYMMETRY Symmetry
CHECK_DEADLOCK FALSE
INVARIANTS
  TypeOK
  LockIsAssignment
  CompletionPaidOnce
  PaymentsAgree
PROPERTIES
  ClosedStaysClosed
