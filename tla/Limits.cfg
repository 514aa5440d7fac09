\* Three concurrent callers of a breaker with a threshold of two and a timeout of two ticks;
\* two callers of a limiter with two calls per window of two ticks, in five instants.
SPECIFICATION LimitsSpec
CONSTANTS
  Callers = {c1, c2, c3}
  FailureThreshold = 2
  ResetTimeout = 2
  CountCap = 3
  None = None
  Acquirers = {a1, a2}
  Limit = 2
  Window = 2
  MaxTime = 4
  MaxGrants = 6
INVARIANTS
  TypeOK
  FieldsAgree
  HalfOpenOnTrial
  LimiterTypeOK
  LogBounded
  PromptWithinLimit
  OvershootBounded
PROPERTY ClosesOnceHealthy
CHECK_DEADLOCK FALSE
