\* A parked card, the button, and a late decision.
CONSTANTS
  Batches <- OneCard
  RequestKeep = 2
  ButtonKeep = 2
  MaxRows = 6
  MaxPresses = 1
  MaxNotices = 0
SPECIFICATION Spec
PROPERTY DecisionIsShown
\* An idle chat has nothing left to do when the bounds are used up.
CHECK_DEADLOCK FALSE
