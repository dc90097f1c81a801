\* One login, and its refresh token used twice.
CONSTANTS
  Tokens = {t1, t2, t3, t4, t5, t6}
  Requests = {r1}
  AccessTTL = 1
  RefreshTTL = 1
  Never = Never
  None = None
  MaxTime = 1
SPECIFICATION Spec
SYMMETRY Symmetry
INVARIANT RotationInvalidates
