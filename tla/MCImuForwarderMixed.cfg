SPECIFICATION Spec
CONSTANTS
  NominalPeriod = 20
  Window = 4
  ResyncThreshold = 120
  LockCount = 3
  Expected <- MCExpected
  Types <- MCTypes
  Setups <- MixedSetups
  HealthInterval = 60
  MaxCycle = 8
  None = None
INVARIANTS
  ReadingIsOneCycle
