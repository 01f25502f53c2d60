\* Two workers, two seeds, a queue of one place: drops, failures, deletions and
\* cancellation all happen.
SPECIFICATION FairSpec
CONSTANTS
  s1 = s1
  s2 = s2
  s3 = s3
  a = a
  b = b
  w1 = w1
  w2 = w2
  Pages = {s1, s2, a, b}
  Workers = {w1, w2}
  Seeds <- SharedSeeds
  LinkLists <- SharedLinks
  MaxDepth = 2
  QueueSize = 1
INVARIANTS
  TypeOK
  PendingExact
  QuietAfterClose
  AtMostOnce
  SuccessIsClosed
  DepthWitness
  StuckOnlySeeding
PROPERTIES
  ZeroIsFinal
  Progress
  TraversalSpec
  Terminates
