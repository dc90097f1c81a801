\* Two links hold one code in turn while two lookups race with each other
\* and with the deletions.
CONSTANTS
  Codes = {c1}
  Ids = {i1, i2}
  Users = {u1}
  Requests = {r1, r2}
  Expiries = {1, Never}
  Never = Never
  None = None
  TTL = 2
  ReqTimeout = 1
  MaxTime = 3
SPECIFICATION Spec
SYMMETRY Symmetry
INVARIANTS
  TypeOK
  NeverServesExpired
  BoundedStaleness
  NotFoundWasFree
  NoOrphanLinks
PROPERTY ImplementsLookup
