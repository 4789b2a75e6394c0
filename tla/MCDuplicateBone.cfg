SPECIFICATION Spec
CONSTANTS
    Nodes <- MCNodes
    Files <- ExtensionFiles
CHECK_DEADLOCK FALSE
INVARIANTS DuplicateHasMapping
