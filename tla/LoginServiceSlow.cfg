SPECIFICATION Spec
CONSTANTS
  Requests = {r1, r2}
  Users = {u1}
  Servers = {s1}
  MaxPerAccount = 1
  MaxPerServer = 1
  Expiry = 2
  Latency = 1
SYMMETRY Symmetry
INVARIANT CharacterLimit
