\* The constants of EvidenceStore.cfg.
CONSTANTS
  Evidence = {e1, e2}
  Ttl = 2
  MaxTime = 4
  MaxGeneration = 4
SPECIFICATION Spec
INVARIANTS
  ReleasedMeansDeleted
CHECK_DEADLOCK FALSE
