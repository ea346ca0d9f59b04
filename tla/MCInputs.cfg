SPECIFICATION InputsSpec

CONSTANTS
  Images <- MCImages
  MaxSide = 20000
  Checkpoints <- MCCheckpoints
  Maps <- MCMaps
  Calls <- MCCalls
  HeadTokens <- MCHeadTokens
  Peaks <- MCPeaks

INVARIANTS
  TypeOK
  SizeSettled
  PatchesPlaced
  MarkersAreMasks
  WindowUsed
  QuestionWhole
  OwnLogit
  AloneAsInBatch
  ConfidenceInRange
  TemperatureAccounted
  FailsForRoom
