SPECIFICATION Spec
CONSTANTS
  Clients = {c1, c2, c3}
  None = None
  Interval = 6
  Timeout = 9
  Reply = 1
  Delay = 1
INVARIANT TypeOK
PROPERTIES PunctualStays MuteIsLoggedOut
