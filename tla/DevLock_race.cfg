SPECIFICATION Spec
CONSTANTS
  Procs = {p1, p2, p3}
  NoFile = NoFile
  MaxCrashes = 0
  Exits = TRUE
  Aging = FALSE
  Signals = FALSE
SYMMETRY Symmetry
INVARIANT MutualExclusion
