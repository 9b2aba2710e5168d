CONSTANTS
  c1 = c1
  c2 = c2
  c3 = c3
  c4 = c4
  u1 = u1
  u2 = u2
  Conn = {c1, c2, c3, c4}
  User = {u1, u2}
  UserOf <- MCUserOf
SPECIFICATION Spec
INVARIANT MapsAgree SweepIsSafe
PROPERTY ConnsSpec
