SPECIFICATION Spec
CONSTANTS
  Canonical <- MCCanonical
  Calls <- MCCalls
  Plain = {"dbo", "name", "hr", "sales", "a", "b", "x"}
  Databases = {"sales", "a b", NoDatabase}
  Severities = {11, 14, 17}
  NoDatabase = NoDatabase
  NoBody = NoBody
  NoKind = NoKind
INVARIANTS TypeOK ArgumentsReachParameters NumericExact AnswersReadBack
CHECK_DEADLOCK FALSE
