\* A page is edited and cannot be fetched, another one is trashed.
SPECIFICATION Spec
CONSTANTS
  s = s
  a = a
  b = b
  t1 = t1
  t2 = t2
  Pages = {s, a, b}
  Seeds = {s}
  Titles = {t1, t2}
  Revisions <- SmallWiki
  Children <- SmallChildren
  Modes = {"full", "updates"}
  MaxEvents = 2
INVARIANT
  DeletedPruned
