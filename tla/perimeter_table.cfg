SPECIFICATION Spec
SYMMETRY Symmetric
CONSTANTS
  Address = {a1, a2}
  Request = {r1, r2}
  Capacity = 2
  Threshold = 2
  Lockout = 2
  Idle = 2
  MaxClients = 1
  MaxTime = 3
INVARIANTS
  TableBounded
