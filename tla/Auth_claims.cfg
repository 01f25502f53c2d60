\* Three sites, two of one host, with a configured cloud ID or without.
SPECIFICATION Spec
CONSTANTS
  Sites <- MCSites
  CloudIDs = {"given"}
  N = 3
  Limit = 2
  Parents <- MCParents
  Times <- MCTimes
INVARIANT
  AsDocumented
CHECK_DEADLOCK FALSE
