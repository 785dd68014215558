CONSTANTS
    Files <- MCFiles
    SourceChoices <- MCSourceChoices
    NameOrder <- MCNameOrder
    HostMagics = {"3413", "3439"}
    InitialDisks <- NoArtifacts
    MaxRuns = 2

SPECIFICATION Spec

PROPERTY FreezeSpecRefined

\* The build step is run at most MaxRuns times and then stops.
CHECK_DEADLOCK FALSE
