\* Two concurrent calls, tokens that live two ticks, a clock of four instants.
SPECIFICATION FairSpec
CONSTANTS
  Calls = {c1, c2}
  Lifetime = 2
  MaxTime = 3
  Forever = 4
  NoCred = NoCred
  Configs <- MCConfigs
  Operations <- MCOperations
INVARIANTS
  TypeOK
  ResolvedIsCached
  ReadOnlySendsSelect
PROPERTIES
  SerialRefinement
  ValidNeverReplaced
  CallsAnswered
