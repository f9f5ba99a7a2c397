CONSTANTS
  r1 = r1
  r2 = r2
  r3 = r3
  p1 = p1
  p2 = p2
  a1 = a1
  h1 = h1
  plumber = plumber
  Nothing = Nothing
  Requests = {r1, r2, r3}
  Providers = {p1, p2}
  Applications = {a1}
  Trades = {plumber}
  Ratings = {1, 2}
  Handlers = {h1}
SPECIFICATION ServiceSpec
SYMMETRY Symmetry
CONSTRAINT FewRecords
CHECK_DEADLOCK FALSE
INVARIANTS
  ServiceTypeOK
  ApprovedIsBookable
  ReviewsAgree
  CompletionsCounted
