\* Three keys and two services of one name in one project; its owner and another tenant create
\* and rotate with two concurrent handlers, any project and credential ids in the request.
SPECIFICATION Spec
CONSTANTS
  u1 = u1  u2 = u2  p1 = p1  p2 = p2  n1 = n1  n2 = n2
  k1 = k1  k2 = k2  k3 = k3  s1 = s1  s2 = s2  s3 = s3
  r1 = r1  r2 = r2  a1 = a1  a2 = a2  None = None
  User = {u1, u2}
  Project = {p1, p2}
  Key = {k1, k2, k3}
  Service = {s1, s2}
  Name = {n1, n2}
  Req = {}
  Admin = {a1, a2}
  Ops = {"createKey", "rotateKey", "createService", "revokeService", "rotateService"}
  Owner <- TwoOwners
  ProjectOf <- OneProject
  NameOf <- Names
SYMMETRY KeySymmetry
INVARIANTS NamesUnique RotationKeepsAnActiveKey
PROPERTIES TenantIsolation
