SPECIFICATION Spec
CONSTANTS
  Keyframes = {k1, k2, k3, k4, k5}
  NoReference = NoReference
  MaxLandmarks = 3
  MinLandmarks = 2
  MaxFailures = 2
  MaxFrames = 5
INVARIANTS
  HealthTellsFailedRun
  ChainSurvivesFailure
CHECK_DEADLOCK FALSE
