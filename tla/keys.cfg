\* Two keys, one reader, two dashboard handlers, every operation on a key.
SPECIFICATION Spec
CONSTANTS
  u1 = u1  u2 = u2  p1 = p1  p2 = p2  n1 = n1  n2 = n2
  k1 = k1  k2 = k2  k3 = k3  s1 = s1  s2 = s2  s3 = s3
  r1 = r1  r2 = r2  a1 = a1  a2 = a2  None = None
  User = {u1}
  Project = {p1}
  Key = {k1, k2}
  Service = {}
  Name = {n1, n2}
  Req = {r1}
  Admin = {a1, a2}
  Ops = {"createKey", "revokeKey", "rotateKey"}
  Owner <- OneOwner
  ProjectOf <- OneProject
  NameOf <- Names
SYMMETRY KeySymmetry
INVARIANTS TypeOK ImmediateUnlessRaced
PROPERTIES SettledIsFinal ImplementsVerdict
