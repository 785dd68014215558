CONSTANTS
    Counts = {0, 1, 2, 3, 255, 256, 65536}
    Uncalled = Uncalled

SPECIFICATION Spec

INVARIANT TypeOK
INVARIANT StackEffectMatchesSemantics

\* One lookup per instruction; the compiler goes on to the next one.
CHECK_DEADLOCK FALSE
