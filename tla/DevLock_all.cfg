SPECIFICATION FairSpec
CONSTANTS
  Procs = {p1, p2, p3}
  NoFile = NoFile
  MaxCrashes = 1
  Exits = TRUE
  Aging = TRUE
  Signals = TRUE
INVARIANTS ExclusiveUntilBroken LockHasOwner
PROPERTIES EveryoneEnds
