\* Checkers, replans, choices, questions, approvals, Stop and crashes between
\* operations; an operator who resumes.
CONSTANTS
  w1 = w1  w2 = w2
  Workers = {w1, w2}
  NoWorker = NoWorker
  MaxReplans = 1
  MaxPhases = 5
  FirstPlans <- BothPlans
  Checked = TRUE
  Choices = TRUE
  Wiki = TRUE
  Torn = FALSE
SPECIFICATION FairSpec
INVARIANTS RunOwnsPhase NoJobStranded AnswerReachesAsker DoneIsDone
PROPERTIES DoneWorkStays JobEnds
