\* Backups, retention and restores that stop half-way.
CONSTANTS
  ExternalWiki = FALSE
  Keeps <- Retentions
  MaxEdits = 2
  MaxRestores = 2
  Faults = TRUE
SPECIFICATION FairSpec
PROPERTIES RestoreCanBeUndone RetentionIsMet ChangesAreBackedUp
