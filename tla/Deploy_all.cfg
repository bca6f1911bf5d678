SPECIFICATION FairSpec
CONSTANTS
  Setups <- MCSetups
  Runners = {r1, r2}
  NoRunner = NoRunner
  LastName = 3
  Creates = {1, 3}
  DownSteps = 2
INVARIANTS TypeOK OneDeployWhenAwaited LedgerInOrder RecordedRan UnrecordedLeftNothing ChecksumOfWhatRan
PROPERTIES BatchIsWhole EveryCommandEnds
