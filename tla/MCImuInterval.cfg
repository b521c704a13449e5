SPECIFICATION Spec
CONSTANTS
  Inputs <- MCInputs
  ImuSensorId = "imu0"
  MaxGap = 2
  MinDelta = 1
  MaxDelta = 4
  MinSamples = 1
  StationaryWindow = 2
  MinStationary = 1
  MinStationarySamples = 2
  MaxRate = 1
  MaxDeviation = 1
  Gravity = 9
INVARIANTS
  TypeOK
  SliceIsEnough
  NoStaleReading
  SamplesCountedOnce
  NothingBridged
CHECK_DEADLOCK FALSE
