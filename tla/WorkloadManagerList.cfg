SPECIFICATION Spec
CONSTANTS
  Rows <- UnsortedRows
  BlockingAgeThreshold = 2
  MaxAge = 3
  LastTime = 3
INVARIANTS HandedInWorkloadOrder BlockingEndsTheWalk
PROPERTY ImplementsQueue
