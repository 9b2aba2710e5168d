CONSTANTS
  u1 = u1 u2 = u2 u3 = u3 e1 = e1 e2 = e2 e3 = e3 a1 = a1 a2 = a2
  None = None
  User = {u1, u2, u3}
  Email = {e1, e2, e3}
  App = {a1, a2}
  Situations <- AllSituations
  Faulty = TRUE
  EnableAdminUser = TRUE
  MaximumLoginAttempts = 2
  AuthorizedAppsMapped = TRUE
SPECIFICATION Spec
INVARIANTS TablesAgree VerifiedWasProven GuessesBounded OnceOnly
CHECK_DEADLOCK FALSE
