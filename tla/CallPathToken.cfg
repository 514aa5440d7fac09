\* One call at a time is enough for the pool to outlive the token it logs in with.
SPECIFICATION Spec
CONSTANTS
  Calls = {c1}
  Lifetime = 1
  MaxTime = 2
  Forever = 3
  NoCred = NoCred
  Configs <- MCConfigs
  Operations <- MCOperations
PROPERTY FreshTokenLogsIn
