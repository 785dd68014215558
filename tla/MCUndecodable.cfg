CONSTANTS
    Files <- MCFiles
    SourceChoices <- MCSourceChoices
    NameOrder <- MCNameOrder
    InitialDisks <- UndecodableLeftOver
    HostMagics = {"3413"}
    MaxRuns = 2

SPECIFICATION Spec

INVARIANT FatalExactlyOnBadInput

\* The build step is run at most MaxRuns times and then stops.
CHECK_DEADLOCK FALSE
