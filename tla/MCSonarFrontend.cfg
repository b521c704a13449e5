SPECIFICATION Spec
CONSTANTS
  Frames <- MCFrames
  Configs <- MCConfigs
  Durations <- MCDurations
  Window = 1
  MaxFrames = 2
  NaN = NaN
INVARIANTS
  TypeOK
  ClustersAreDbscan
  HealthTellsAnswers
PROPERTY
  FrameAnswered
CHECK_DEADLOCK FALSE
