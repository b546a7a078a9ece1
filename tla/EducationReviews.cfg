\* A course of three steps, an item of one of them and one of dual coding, which the
\* course has not, one request at a time, and one death.
CONSTANTS
  Steps <- SomeSteps
  Quizzed = {"dual_coding", "construction"}
  Labs = {"construction"}
  Rungs <- TwoRungs
  Never = 4
  Window = 1
  Batch = 1
  r1 = r1
  Requests = {r1}
  MaxOverdue = 1
  MaxDeaths = 1
SPECIFICATION FairSpec
INVARIANTS OneJobPerReview StageIsEarned
PROPERTY DueIsAsked
CHECK_DEADLOCK FALSE
