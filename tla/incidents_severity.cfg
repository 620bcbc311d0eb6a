SPECIFICATION Spec
SYMMETRY Symmetric
CONSTANTS
  Task = {t1, t2}
  Finding = {"exposed port"}
  CategoryOf <- MCCategoryOf
  GapSets <- NoGaps
  MaxSeverity = 2
  MaxOccurrences = 2
  MaxDisturbances = 2
INVARIANTS
  WorstSeverityKept
