\* Two store files of two operations.
SPECIFICATION Spec
CONSTANTS
  s1 = s1
  s2 = s2
  Files = {s1, s2}
  VersionStoreFiles <- BothFiles
  Ops = {o1, o2}
  Absent = Absent
  Torn = Torn
INVARIANTS
  TypeOK
  OkMeansPopulated
  FailsOnlyUnusable
PROPERTIES
  StoreSurvives
