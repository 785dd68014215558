CONSTANTS
    Files <- MCFiles
    SourceChoices <- MCSourceChoices
    NameOrder <- MCNameOrder
    HostMagics = {"3413", "3439"}
    InitialDisks <- NoArtifacts
    MaxRuns = 3

SPECIFICATION Spec

INVARIANT TypeOK
INVARIANT CompletedRunLeavesCurrentArtifacts
INVARIANT DispatchIndicesAgree
INVARIANT RerunWritesNothing

\* The build step is run at most MaxRuns times and then stops.
CHECK_DEADLOCK FALSE
