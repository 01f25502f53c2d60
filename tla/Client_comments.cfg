\* Three sites, two of one host; three comments, two in an answer.
SPECIFICATION Spec
CONSTANTS
  Sites <- MCSites
  CloudIDs = {"given"}
  N = 3
  Limit = 2
  Parents <- MCParents
  Times <- MCTimes
INVARIANTS
  ResolutionSound
  LastingFetched
  ShownInThreads
PROPERTIES
  FetchEnds
  FetchAdvances
CHECK_DEADLOCK FALSE
