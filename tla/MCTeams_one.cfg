CONSTANTS
  u1 = u1 u2 = u2 u3 = u3 t1 = t1 t2 = t2 g1 = g1 k1 = k1
  p1 = p1 p2 = p2
  None = None
  User <- MCUser
  Registered <- MCRegistered
  Team <- MCTeam
  Founder <- MCFounder
  Group = {g1}
  TeamOf <- MCTeamOf
  Token = {k1}
  Proc = {p1}
  Ops <- AllOps
  Faulty = TRUE
  MaxUsersPerTeam = 2
  MaxGroupsPerTeam = 1
  MaxRequests = 4
SPECIFICATION Spec
INVARIANTS TablesAgree MembersAreCounted InvitationsEnd PointsAreEarned
PROPERTIES AdminsRemain
CHECK_DEADLOCK FALSE
