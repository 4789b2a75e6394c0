SPECIFICATION Spec
CONSTANTS
  FloatMax = 4
  LeafLength = 1
  Solvers = {s1, s2}
  Rigs <- CopyRigs
  Poses <- CopyPoses
  Durations = {0, 1}
INVARIANTS
  HistoryFinite
  JointsMatchRig
PROPERTIES
  ImplementsContract
SYMMETRY CopySymmetry
CHECK_DEADLOCK FALSE
