SPECIFICATION Spec
CONSTANT MaxOpen = 3
CONSTANT MaxListeners = 3
CONSTANT MaxPeers = 2
CONSTANT MaxEvents = 4
CONSTANT MaxLines = 4
CONSTANT MaxQueried = 3
CONSTANT Families <- MCFamilies
CONSTANT RoleLabels <- MCRoleLabels
CONSTANT ActivePolicy <- MCActivePolicy
CONSTANT MaxCycles = 2
CONSTANT TrendSetups <- MCTrendSetups
CONSTANT HistoryWindow = 3
CONSTANT MaxAhead = 2
CONSTANT MaxBehind = 4
CONSTANT MaxTicks = 5
CONSTANT MaxPending = 2
CONSTANT MaxReboots = 1
CONSTANT Window = 2
CONSTANT StaleAfter = 1
CONSTANT OfflineAfter = 2
CONSTANT MaxAge = 1
CONSTANT Second = 2
CONSTANT StoreSetups <- MCStoreSetups
CONSTANT PolicyFiles <- MCPolicyFiles
CONSTANT MaxRequests = 1
INVARIANT GapsReported
