\* Expected to fail: a routine that is deleted while it runs.
CONSTANTS
  MaxRoutines = 2
  Schedules <- SomeSchedules
  Grace = 1
  Horizon = 6
  MaxEdits = 1
  MaxPresses = 0
  MaxDeaths = 0
SPECIFICATION Spec
INVARIANT StaysDeleted
