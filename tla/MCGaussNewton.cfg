SPECIFICATION FairSpec
CONSTANTS
  Points = {p1, p2, p3}
  Residuals = {r1}
  FiniteCosts <- MCFiniteCosts
  CostOne = 4
  NaN = NaN
  Inf = Inf
  TolNum = 3
  TolDen = 4
  MaxIterations = 3
  MaxInnerRetries = 2
  InitialLambda = 2
  LambdaUp = 5
  LambdaDown = 3
  LambdaFloor = 1
INVARIANTS
  SummaryHonest
PROPERTY
  SolveReturns
