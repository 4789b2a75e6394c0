SPECIFICATION ImportSpec
CHECK_DEADLOCK FALSE
CONSTANTS
    Nodes <- MCNodes
    Files <- TwiceFiles
    Spelled <- MCSpelled
    None = None
INVARIANTS
    MorphWeightsAreParallel
