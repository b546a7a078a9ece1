\* Two routines on a calendar and an interval, one edit, one run by hand, one death.
CONSTANTS
  MaxRoutines = 2
  Schedules <- SomeSchedules
  Grace = 1
  Horizon = 5
  MaxEdits = 1
  MaxPresses = 1
  MaxDeaths = 1
SPECIFICATION Spec
PROPERTIES FiresOnTime SlotFiresOnce SlotIsServed
