SPECIFICATION FairSpec
CONSTANTS
  Engines = {"postgresql", "mysql", "sqlite"}
  N = 3
  W = 2
  MaxFaults = 2
  Overlap = FALSE
  Swallow = FALSE
  SavepointFaults = FALSE
INVARIANTS
  RejectedLeavesNothing
  ResolvedKeepsSurvivors
  StackIsTheRunningChain
  ReturnedClean
PROPERTIES
  DurableOnlyAtCommit
  EveryTransactionSettles
  ImplementsNestedTransaction
