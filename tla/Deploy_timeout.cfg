SPECIFICATION Spec
CONSTANTS
  Setups <- TimeoutSetups
  Runners = {r1, r2}
  NoRunner = NoRunner
  LastName = 2
  Creates = {1}
  DownSteps = 1
INVARIANTS OneDeployAtATime
