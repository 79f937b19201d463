--------------------------- MODULE AddressSpaceMap ---------------------------
(***************************************************************************)
(* What the page-table primitives promise their callers (spec.md 4.3 and  *)
(* 5): each page directory is a set of translated virtual pages; only the  *)
(* processor that holds a directory's lock changes it, and one step of     *)
(* that processor adds or removes the translation of a single page.        *)
(***************************************************************************)
CONSTANTS Dirs, VAs, CPUs, NoCPU

VARIABLES mapped, holder

Init ==
    /\ mapped = [d \in Dirs |-> {}]
    /\ holder = [d \in Dirs |-> NoCPU]

Acquire(c, d) ==
    /\ holder[d] = NoCPU
    /\ holder' = [holder EXCEPT ![d] = c]
    /\ UNCHANGED mapped

Release(c, d) ==
    /\ holder[d] = c
    /\ holder' = [holder EXCEPT ![d] = NoCPU]
    /\ UNCHANGED mapped

Map(c, d, v) ==
    /\ holder[d] = c
    /\ mapped' = [mapped EXCEPT ![d] = @ \cup {v}]
    /\ UNCHANGED holder

Unmap(c, d, v) ==
    /\ holder[d] = c
    /\ mapped' = [mapped EXCEPT ![d] = @ \ {v}]
    /\ UNCHANGED holder

Next ==
    \E c \in CPUs, d \in Dirs :
        \/ Acquire(c, d)
        \/ Release(c, d)
        \/ \E v \in VAs : Map(c, d, v) \/ Unmap(c, d, v)

Spec == Init /\ [][Next]_<<mapped, holder>>
=============================================================================
