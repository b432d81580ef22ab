CONSTANTS
  Modules = {"base", "items"}
  Version = "version"
  Consumers = {c1, c2}
  LoadFaults = TRUE
  CastFaults = TRUE
  ExecOrdered = FALSE
  MaxChanges = 2
  MaxInFlight = 3
SPECIFICATION Spec
SYMMETRY Symm
INVARIANTS
  DirtyIsScheduled
