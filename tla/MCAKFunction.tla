---------------------------- MODULE MCAKFunction ----------------------------
(* Two Function objects and three callables: a function pointer, a small   *)
(* lambda stored inline and a large lambda stored on the heap.             *)
EXTENDS AKFunction

CONSTANTS f1, f2, ptr, small, large

MCFns == {f1, f2}
MCCallables == {ptr, small, large}
MCPointers == {ptr}
MCInline == {ptr, small}
=============================================================================
