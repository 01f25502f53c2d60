\* One worker, a queue of one place and three seeds.  The system may stop here: that
\* is what the run is about.
SPECIFICATION FairSpec
CONSTANTS
  s1 = s1
  s2 = s2
  s3 = s3
  a = a
  b = b
  w1 = w1
  w2 = w2
  Pages = {s1, s2, s3}
  Workers = {w1}
  Seeds <- BareSeeds
  LinkLists <- BareLinks
  MaxDepth = 1
  QueueSize = 1
PROPERTIES
  CancelledRunReturns
CHECK_DEADLOCK FALSE
