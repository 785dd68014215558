CONSTANTS
    ModuleName = "_signal"

SPECIFICATION Spec

INVARIANT TypeOK
INVARIANT FailsExactlyOnMalformed
INVARIANT AllocationFollowsPreorder
INVARIANT IndicesAgreeWithTables
INVARIANT IdentityFastPath

\* The rewrite is one call; the program goes on to the next module.
CHECK_DEADLOCK FALSE
