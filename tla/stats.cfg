\* Three usage documents over three days, two keys and a service, a list of one.
SPECIFICATION Spec
CONSTANTS
  l1 = l1  l2 = l2  l3 = l3  k1 = k1  k2 = k2  s1 = s1  None = None
  Log = {l1, l2, l3}
  Key = {k1, k2}
  Service = {s1}
  Result = {"success", "rate_limited"}
  Ranges = {1, 2}
  DefaultRange = 1
  DayLength = 1
  Top = 1
  TimeBound = 2
  ChurnBound = 1
SYMMETRY StatsSymmetry
INVARIANTS TypeOK AnswersAddUp TopKeysAreTop
