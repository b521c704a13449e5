SPECIFICATION RecordingSpec
CONSTANTS
  t1 = t1
  t2 = t2
  NoId = NoId
  Sensors = {"camera_left", "camera_right", "camera_main", "sonar0", "imu0", "dvl0", "keyframe_scheduler"}
  ObsIds <- MCObsIds
  KeyframeIds <- MCKeyframeIds
  NanosPerSecond = 8
  Messages = {}
  LogTimes = {}
  MaxMessages = 40
  PortMayStop = FALSE
  TickSets <- MCTickSets
  TickPeriod = 2
  MaxTicks = 3
  MaxClockSteps = 1
  Targets = {t1, t2}
  NumKeyframes = 2
  PreRoll = 15
  KeyframePeriod = 4
  ImuPeriod = 5
  Boundaries = 3
  MaxSlips = 1
  BoundaryTimes = {1, 2, 9}
  Required = {"depth"}
  FrameTree <- MCFrameTree
INVARIANTS
  KeyframesArePairs
  GateRefusesOrphansOnly
  AuditJudgesSession
  AuditAgreesOnBoundaries
  NoiseIsPositional
