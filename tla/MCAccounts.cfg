SPECIFICATION Spec
CONSTANTS
  Users = {u1, u2}
  Phones = {"p1", "p2"}
  Passwords = {"old", "new"}
  Requests = {r1, r2}
  Keys = {k1, k2}
  NoOne = NoOne
  MaxAttempts = 1
  MaxCodes = 2
  MaxCalls = 6
  Registered <- MCRegistered
SYMMETRY MCSymmetry
INVARIANTS SessionsAreCurrent OneChangePerCode RemovedAccountsHaveNoOrder
CHECK_DEADLOCK FALSE
