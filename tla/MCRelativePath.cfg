CONSTANTS
    Files <- RFiles
    SourceChoices <- RSourceChoices
    NameOrder <- RNameOrder
    HostMagics = {"3413"}
    InitialDisks <- NoArtifacts
    MaxRuns = 1

SPECIFICATION Spec

INVARIANT ModuleNameFromLocation

CHECK_DEADLOCK FALSE
