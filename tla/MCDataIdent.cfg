CONSTANTS
    Files <- IFiles
    SourceChoices <- ISourceChoices
    NameOrder <- INameOrder
    HostMagics = {"3413"}
    InitialDisks <- NoArtifacts
    MaxRuns = 1

SPECIFICATION Spec

INVARIANT DataArraysDistinct

CHECK_DEADLOCK FALSE
