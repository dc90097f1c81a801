\* One client with three requests at a time, two sweeps of the map.
CONSTANTS
  Keys = {k1}
  Requests = {r1, r2, r3}
  Visitors = {v1, v2, v3}
  Limit = 2
  Window = 2
  None = None
  MaxTime = 4
  MaxCalls = 5
SPECIFICATION Spec
SYMMETRY Symmetry
INVARIANTS
  TypeOK
  WithinLimit
PROPERTY
  NeverRefusesEarly
