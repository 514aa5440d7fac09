\* Two processes, and a wizard that saves twice.
SPECIFICATION Spec
CONSTANTS
  Procs = {p1, p2}
  MaxGen = 2
  None = None
  Torn = Torn
INVARIANTS
  TypeOK
  LoadsLast
  WizardKept
