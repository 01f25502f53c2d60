\* An attachment of its own name and two that share one; one edit, two faults.
SPECIFICATION Spec
CONSTANTS
  grows = grows
  spaced = spaced
  scored = scored
  Attachments = {grows, spaced, scored}
  Name <- Names
  Sizes <- Lengths
  Configs <- AllConfigs
  MaxEdits = 1
  MaxFaults = 2
INVARIANTS
  RecordedExist
  NoOrphans
  LinksResolve
  CleanIsCurrent
