\* Backup and restore of a data directory that holds projects, its wiki elsewhere.
CONSTANTS
  ExternalWiki = TRUE
  Keeps <- Retentions
  MaxEdits = 2
  MaxRestores = 1
  Faults = FALSE
SPECIFICATION Spec
INVARIANTS NothingIsLost
