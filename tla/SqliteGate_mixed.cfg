SPECIFICATION FairSpec
CONSTANTS
  Writers = {w1}
  Transactors = {t1}
  Migrators = {m1, m2}
  MaxFaults = 2
  Reentrant = TRUE
  MaxRewraps = 1
  Nobody = Nobody
INVARIANTS NoForeignWrite AnswersAreTrue GateHoldsTransaction MigrationUnchecked ForeignKeysRestored
PROPERTY EveryCallAnswered
