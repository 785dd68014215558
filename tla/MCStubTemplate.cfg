CONSTANTS
    ModuleName = "_signal"

SPECIFICATION Spec

INVARIANT StubsArePlaceholderBodies

\* The rewrite is one call; the program goes on to the next module.
CHECK_DEADLOCK FALSE
