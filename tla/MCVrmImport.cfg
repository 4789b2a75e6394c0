SPECIFICATION ImportSpec
CHECK_DEADLOCK FALSE
CONSTANTS
    Nodes <- MCNodes
    Files <- ImportFiles
    Spelled <- MCSpelled
    None = None
INVARIANTS
    TypeOK
    ParentsPrecedeChildren
    JointsKeepTheirNode
    CornersKeepTheirVertex
    CornersFollowTheirNode
    BindsNameTheirMesh
    LossesAreReported
    StageNamesWhatTheFileNames
    FrontIsTurnedOnce
