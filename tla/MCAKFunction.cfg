\* Re-entrant calls, assignments, moves and destruction of two Functions.
\* A failed VERIFY halts the kernel, so a halted state has no successor.
CONSTANTS
    f1 = f1
    f2 = f2
    ptr = ptr
    small = small
    large = large
    Fns <- MCFns
    Callables <- MCCallables
    Pointers <- MCPointers
    Inline <- MCInline
    MaxWrappers = 4
    MaxDepth = 2
SPECIFICATION Spec
CHECK_DEADLOCK FALSE
INVARIANTS
    TypeOK
    CalledWrappersLive
    SingleOwner
    DeferredClearPending
    CaptureRangeExact
