\* A server of the previous install still runs beside the new one.
SPECIFICATION Spec
CONSTANTS
  Procs = {p1, p2}
  Workers = {w1}
  Builds = {old, new}
  None = None
  Torn = Torn
INVARIANT ServesOwnBuild
