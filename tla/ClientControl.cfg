CONSTANTS
  Names = {n1}
  Tasks = {t1, t2}
  Gens = {g1}
  MaxOpen = 2
  Threshold = 2
  None = None
SPECIFICATION FairSpec
INVARIANTS ConnectedHasTask HandledNeverGivesUp NoOrphanTask
PROPERTIES ToldTaskEnds ShutdownSettles FailuresForceRebuild
CHECK_DEADLOCK FALSE
