\* The cap is set on the loop and in worker threads: three generations, caps 1 and 2.
CONSTANTS
  g1 = g1  g2 = g2  g3 = g3
  Gens = {g1, g2, g3}
  NoGen = NoGen
  MaxCap = 2
  Callers = {"loop", "thread"}
  MaxPosts = 2
SPECIFICATION FairSpec
INVARIANTS TypeOK SlotAccounting
PROPERTIES NoStartAboveCap NoOvertaking QueuedStarts ImplementsSlotQueue
