\* Crashes between two commits of one operation, checkers, replans and choices included.
CONSTANTS
  w1 = w1  w2 = w2
  Workers = {w1, w2}
  NoWorker = NoWorker
  MaxReplans = 1
  MaxPhases = 4
  FirstPlans <- BothPlans
  Checked = TRUE
  Choices = TRUE
  Wiki = TRUE
  Torn = TRUE
SPECIFICATION Spec
INVARIANTS TypeOK OneRunningPhase InOrder
PROPERTIES ReplansCounted OutcomeIsFinal StopNeverKills
SYMMETRY Symmetry
