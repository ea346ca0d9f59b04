SPECIFICATION InputsSpec

CONSTANTS
  Images <- MCImages
  MaxSide = 20000
  Checkpoints = {}
  Maps = {}
  Calls <- MCCalls
  HeadTokens <- MCHeadTokens
  Peaks = {}

INVARIANT
  TargetIsTaken
