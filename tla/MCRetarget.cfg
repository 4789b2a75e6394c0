SPECIFICATION Spec
CONSTANTS
    Unit = 8
    NaN = NaN
    None = None
    CommandLines <- MCCommandLines
    Files <- MCFiles
    Rewritten <- MCRewritten
    MaxRuns = 2
INVARIANTS
    EyesHoldTheLastGaze
    FaceIsArbitratedOnce
    OutputIsThisBake
PROPERTIES
    OnlyNamedFilesAreWritten
