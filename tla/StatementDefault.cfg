SPECIFICATION Spec
CONSTANTS
  Canonical <- MCCanonical
  Calls <- MCCalls
  Plain = {"dbo", "name", "hr", "sales", "a", "b", "x"}
  Databases = {"sales", "a b", NoDatabase}
  Severities = {11, 14, 17}
  NoDatabase = NoDatabase
  NoBody = NoBody
  NoKind = NoKind
INVARIANT OmittedStaysOut
CHECK_DEADLOCK FALSE
