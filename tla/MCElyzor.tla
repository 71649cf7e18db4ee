------------------------------ MODULE MCElyzor ------------------------------
(* Instances of Elyzor for TLC. *)
EXTENDS Elyzor, TLC

CONSTANTS u1, u2, p1, p2, k1, k2, k3, s1, s2, s3, n1, n2, r1, r2, a1, a2

\* One tenant, everything in one project; services s1 and s2 share a name.
OneOwner == [p \in Project |-> u1]
OneProject == [c \in Cred |-> p1]
Names == [s \in Service |-> IF s = s3 THEN n2 ELSE n1]

\* A second tenant with a project of its own, from which it asks for the credentials of p1.
TwoOwners == [p \in Project |-> IF p = p1 THEN u1 ELSE u2]

\* Slots are interchangeable; so are keys where they are all issued for one project.
SlotSymmetry == Permutations(Req) \cup Permutations(Admin)
KeySymmetry == SlotSymmetry \cup Permutations(Key)
=============================================================================
