CONSTANTS
  d1 = d1
  d2 = d2
  h1 = h1
  h2 = h2
  Nothing = Nothing
  Documents = {d1, d2}
  MaxApplications = 2
  MaxDeletions = 1
  Handlers = {h1}
SPECIFICATION AccountSpec
SYMMETRY Symmetry
CONSTRAINT FewRecords
CHECK_DEADLOCK FALSE
INVARIANTS
  AccountTypeOK
  DeletedMeansGone
  EvidenceKept
PROPERTIES
  ActivatedOnEvidence
  CompletionIsClean
