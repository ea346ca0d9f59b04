SPECIFICATION Spec

CONSTANTS
  Jobs <- MCJobs
  Scores <- MCScores

INVARIANTS
  TypeOK
  EveryTokenScored
  RowsFit
  Advances
  BestWindow
  ConsistentStride
