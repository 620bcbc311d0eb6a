SPECIFICATION Spec
CONSTANTS
  Task = {t1}
  Finding = {"firewall off", "login burst", "silent agent"}
  CategoryOf <- MCCategoryOf
  GapSets <- AnyGaps
  MaxSeverity = 2
  MaxOccurrences = 2
  MaxDisturbances = 3
INVARIANTS
  ColumnsMatchJson
  WorstSeverityKept
PROPERTIES
  RefinesLedger
