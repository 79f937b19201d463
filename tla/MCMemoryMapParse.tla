-------------------------- MODULE MCMemoryMapParse --------------------------
(***************************************************************************)
(* A 32-unit physical address space of 8 pages of 4 units.  Low memory is *)
(* the first page and the kernel image the fifth, as on x86_64 where       *)
(* [0, 1 MiB) and the image are registered before the map is walked.       *)
(* Entry starts are even so that both aligned and unaligned entries occur. *)
(***************************************************************************)
EXTENDS MemoryMapParse

MCEntryAddrs == {a \in 0 .. 31 : a % 2 = 0}
MCUsedRanges == << [start |-> 0, end |-> 4], [start |-> 16, end |-> 20] >>

\* A 64-unit (16-page) space for the frame-array bootstrap.
MCBootAddrs == {a \in 0 .. 63 : a % 2 = 0}

\* Kernel images (in virtual pages, a directory entry spanning 2) that
\* start and end on and off directory boundaries, with room for the
\* array below the image, above it, or neither.
MCKernelImages ==
    {[start |-> 3, end |-> 5], [start |-> 4, end |-> 6], [start |-> 6, end |-> 9]}

\* Ten kernel virtual pages of 4 units: the prekernel's in pages 0-2, the
\* image from page 3.  Every section starts on a page, as the linker script
\* aligns them; the ends fall on and off page boundaries.
MCKernelPages == 0 .. 9
MCKernelLayouts ==
    {[pk |-> <<0, 6>>, text |-> 12, data |-> 24, end |-> 36,
      ro |-> <<28, 30>>, ua |-> <<20, 22>>, ks |-> <<36, 39>>],
     [pk |-> <<0, 8>>, text |-> 12, data |-> 24, end |-> 36,
      ro |-> <<28, 32>>, ua |-> <<16, 20>>, ks |-> <<36, 40>>]}
=============================================================================
