\* One version of every page; one event, the removal of a seed among them.
SPECIFICATION FairSpec
CONSTANTS
  s = s
  a = a
  b = b
  t1 = t1
  t2 = t2
  Pages = {s, a, b}
  Seeds = {s}
  Titles = {t1, t2}
  Revisions <- StillWiki
  Children <- FixedChildren
  Modes = {"full", "updates"}
  MaxEvents = 1
PROPERTY
  RemovalsLand
