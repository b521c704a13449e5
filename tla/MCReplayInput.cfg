SPECIFICATION Spec
CONSTANTS
  s1 = s1
  s2 = s2
  o1 = o1
  o2 = o2
  k1 = k1
  k2 = k2
  NoId = NoId
  Sensors = {s1, s2}
  ObsIds = {o1, o2}
  KeyframeIds = {k1, k2}
  NanosPerSecond <- MCNanosPerSecond
  Messages <- MCMessages
  LogTimes = {0}
  MaxMessages = 4
  PortMayStop = TRUE
INVARIANTS
  GateExact
  BoundaryOrder
  DiagnosticsExact
