SPECIFICATION Spec
CONSTANTS
    None = None
    Default = Default
    NotFinite = NotFinite
    Stages <- MCStages
    Times = {Default, 1, 2}
    Drivers <- MCDrivers
    Bones <- MCBones
    RequiredBones = {"hips", "spine"}
INVARIANTS
    RefusalsAreExplained
    OnlyADriverSeparatesThem
