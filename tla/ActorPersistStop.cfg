CONSTANTS
  Modules = {"items"}
  Version = "version"
  Consumers = {c1, c2}
  LoadFaults = FALSE
  CastFaults = FALSE
  ExecOrdered = TRUE
  MaxChanges = 2
  MaxInFlight = 2
SPECIFICATION Spec
SYMMETRY Symm
PROPERTIES
  StopPersists
