SPECIFICATION Spec
CONSTANTS
  Keyframes <- MCKeyframes
  NoKeyframe = NoKeyframe
  Inputs <- MCInputs
  MaxLandmarks = 2
  MinLandmarks = 2
  MaxFailures = 2
  MaxFrames = 4
  MinGap = 2
  MaxLoopEdges = 1
  HistoryCapacity = 2
INVARIANTS
  TypeOK
  GraphSound
  PosesEarned
  PublishedTruly
