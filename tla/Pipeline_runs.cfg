\* Three pages, of which one is edited and renamed and another may get a child page; any
\* two other changes or faults: a file is lost and its page cannot be fetched, a page is
\* trashed and restored, a run is killed and the next one fails, and so on.  Runs are
\* started again and again.
SPECIFICATION FairSpec
CONSTANTS
  s = s
  a = a
  b = b
  t1 = t1
  t2 = t2
  Pages = {s, a, b}
  Seeds = {s}
  Titles = {t1, t2}
  Revisions <- RenamedWiki
  Children <- SmallChildren
  Modes = {"full", "updates"}
  MaxEvents = 2
INVARIANTS
  EveryRecordHasFile
  NoStrayFiles
  RecordsNeverAhead
  SuccessIsFresh
  ErrorKeepsRecord
  GraphClosed
  LinksLocal
  FullRunExact
PROPERTIES
  MirrorSpec
  Converges
  RunsSucceed
