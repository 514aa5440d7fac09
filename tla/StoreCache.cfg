\* Two processes of two builds, two concurrent handlers in each.
SPECIFICATION Spec
CONSTANTS
  Procs = {p1, p2}
  Workers = {w1, w2}
  Builds = {old, new}
  None = None
  Torn = Torn
INVARIANTS
  TypeOK
  OpensWholeStore
  LeaksBounded
  NeverStale
PROPERTY OnceRefinement
SYMMETRY Symmetry
