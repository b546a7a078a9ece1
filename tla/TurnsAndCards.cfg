\* Turns, cards, one level of hand-offs, Stop and a death of the process.
CONSTANTS
  Batches <- SomeBatches
  MaxCalls = 3
  MaxSteps = 2
  MaxSends = 2
  MaxDeaths = 1
SPECIFICATION FairSpec
INVARIANTS RunsOnce RowsTellTheTruth
PROPERTIES BatchIsAnswered DecisionIsHeard
CHECK_DEADLOCK FALSE
