SPECIFICATION Spec
CONSTANTS
    None = None
    Files <- MCFiles
    Bones <- MCBones
    Identifier <- MCIdentifier
INVARIANTS
    ClipSaysWhatTheFileSays
PROPERTIES
    LayerIsOneVersion
