CONSTANTS
  s1 = s1
  s2 = s2
  s3 = s3
  Nothing = Nothing
  Calls = {s1, s2, s3}
  MaxTokens = 3
  MaxGeneration = 2
SPECIFICATION SessionSpec
CONSTRAINT OneTrouble
SYMMETRY Symmetry
CHECK_DEADLOCK FALSE
INVARIANTS
  SessionTypeOK
  SingleFlight
  LoginSurvives
PROPERTIES
  LogoutIsFinal
