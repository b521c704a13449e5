SPECIFICATION Spec
CONSTANTS
  Inputs <- MCInputs
  Pixels = {0, 1}
  Depths = {0, 1, 4}
  VarianceOf <- MCVariance
  Stamps = {0, 2}
  ImagePairs <- MCImagePairs
  Arcs <- MCArcs
  SyncMaxDelta = 1
  AssocMaxDelta = 1
  ResidualGate = 2
  AmbiguityMargin = 3
  AgreementSigma = 1
  SearchRadius = 3
  MinImprovement = 5
  InnovationGate = 1
  LandmarkGate = 1
  AteMaxDelta = 1
  MaxOffset = 1
  NaN = NaN
  Infinity = Infinity
  Missing = Missing
  Malformed = Malformed
INVARIANTS
  TypeOK
  LandmarksApart
  DesyncedStaysOptical
  SonarOnlyImproves
  TallyMatchesMap
  OnlySensorsOfTheRig
  GreenRunEarned
CHECK_DEADLOCK FALSE
