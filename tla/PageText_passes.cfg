\* Pages of up to two blocks with comments.
SPECIFICATION Spec
CONSTANTS
  PageOf <- MCPageOf
  Path <- MCPath
  Origin <- MCOrigin
  Title <- MCTitle
  SavedAs <- MCSaved
  Fragments = {"#f"}
  Self = "me"
  Bodies <- MCBodies
  Threads <- MCThreads
  PageTitle <- MCPageTitle
  Listings <- MCListings
INVARIANTS
  Exact
  CodeKept
CHECK_DEADLOCK FALSE
