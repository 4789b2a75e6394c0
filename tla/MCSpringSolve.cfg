SPECIFICATION SolveSpec
CONSTANTS
  FloatMax = 6
  LeafLength = 1
  Solvers = {s1}
  Rigs <- SolveRigs
  Poses <- SolvePoses
  Durations = {1}
INVARIANTS
  TypeOK
  HighestDeclaredRootOwns
  TailsFollowRotations
  HistoryIsReportedTail
  AnimatedFramesAreSimulated
  CentreHidesPlacement
PROPERTIES
  ResetIsAtRest
CHECK_DEADLOCK FALSE
