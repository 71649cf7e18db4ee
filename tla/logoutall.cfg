\* A refresh in flight when logout-all is called.
SPECIFICATION Spec
CONSTANTS
  u1 = u1  u2 = u2  t1 = t1  t2 = t2  t3 = t3  h1 = h1  h2 = h2  None = None
  User = {u1}
  Refresh = {t1, t2}
  UserOf <- OneUser
  Handler = {h1, h2}
  Lifetime = 1
  ClockBound = 0
SYMMETRY SessionSymmetry
INVARIANTS LogoutAllClosesAll
