CONSTANTS
    Files <- UFiles
    SourceChoices <- USourceChoices
    NameOrder <- UNameOrder
    HostMagics = {"3413"}
    InitialDisks <- NoArtifacts
    MaxRuns = 1

SPECIFICATION Spec

INVARIANT UniqueBuiltinIds

CHECK_DEADLOCK FALSE
