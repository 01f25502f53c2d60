\* A list item that starts with code, and a link behind the list.
SPECIFICATION Spec
CONSTANTS
  PageOf <- MCPageOf
  Path <- MCPath
  Origin <- MCOrigin
  Title <- MCTitle
  SavedAs <- MCSaved
  Fragments = {"#f"}
  Self = "me"
  Bodies <- MCNested
  Threads <- MCThreads
  PageTitle <- MCPageTitle
  Listings <- MCListings
INVARIANTS
  LinksLocalised
CHECK_DEADLOCK FALSE
