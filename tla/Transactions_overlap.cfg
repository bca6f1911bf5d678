SPECIFICATION Spec
CONSTANTS
  Engines = {"sqlite"}
  N = 2
  W = 2
  MaxFaults = 0
  Overlap = TRUE
  Swallow = FALSE
  SavepointFaults = FALSE
INVARIANT OuterWritesAreKept
