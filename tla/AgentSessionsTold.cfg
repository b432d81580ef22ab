CONSTANTS
  Agents = {a1, a2}
  p1 = p1
  p2 = p2
  u1 = u1
  Players = {p1}
  Accounts = {u1}
  AccountOf <- MCAccountOf
  None = None
  Left = Left
  Callbacks = {c1}
  Relogin = FALSE
  LockExpires = FALSE
  MaxSessions = 2
  MaxPending = 1
SPECIFICATION Spec
CHECK_DEADLOCK FALSE
SYMMETRY Symm
INVARIANTS
  KickedIsTold
