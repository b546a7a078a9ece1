\* Two uses of the button, a notice, requests and the button keep two rows.
CONSTANTS
  Batches <- SomeBatches
  RequestKeep = 2
  ButtonKeep = 2
  MaxRows = 5
  MaxPresses = 2
  MaxNotices = 1
SPECIFICATION Spec
INVARIANTS TypeOK RequestIsWellFormed NothingSaidIsLost LinksEndInChat
PROPERTIES RowsAreKept CompactSettles
\* An idle chat has nothing left to do when the bounds are used up.
CHECK_DEADLOCK FALSE
