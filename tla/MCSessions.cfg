\* Two pairs of tokens, two requests at a time, any number of restarts, and
\* time enough for every access token to expire.
CONSTANTS
  Tokens = {t1, t2, t3, t4}
  Requests = {r1, r2}
  AccessTTL = 1
  RefreshTTL = 1
  Never = Never
  None = None
  MaxTime = 2
SPECIFICATION Spec
SYMMETRY Symmetry
INVARIANTS
  TypeOK
  LogoutIsFinal
