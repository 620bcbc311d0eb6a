SPECIFICATION FairSpec
CONSTANTS
  Task = {t1, t2}
  Finding = {"exposed port", "silent agent"}
  CategoryOf <- MCCategoryOf
  GapSets <- SomeGap
  MaxSeverity = 1
  MaxOccurrences = 1
  MaxDisturbances = 3
INVARIANTS
  TypeOK
PROPERTIES
  ClosedOnlyIfInspected
  Converges
