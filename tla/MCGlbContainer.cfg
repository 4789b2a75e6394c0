SPECIFICATION GlbSpec
CONSTANTS
    Files <- MCFiles
    SizeMod <- MCSizeMod
CHECK_DEADLOCK FALSE
INVARIANTS AcceptsExactly ViewsInside
PROPERTIES Terminates
