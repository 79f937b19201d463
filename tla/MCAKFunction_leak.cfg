\* Every constructed CallableWrapper is destroyed exactly once.
CONSTANTS
    f1 = f1
    f2 = f2
    ptr = ptr
    small = small
    large = large
    Fns <- MCFns
    Callables <- MCCallables
    Pointers <- MCPointers
    Inline <- MCInline
    MaxWrappers = 4
    MaxDepth = 2
SPECIFICATION Spec
CHECK_DEADLOCK FALSE
INVARIANT
    NoOrphanWrapper
