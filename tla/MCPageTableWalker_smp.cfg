\* Two CPUs mapping and unmapping in two directories at once, one page
\* table per directory: a table one CPU empties can be the next table the
\* other CPU allocates.
CONSTANTS
    CPUs = {c1, c2}
    Dirs = {d1, d2}
    PDSize = 1
    PTSize = 2
    MaxRange = 2
    Frames = {1, 2}
    ReclaimWalks = {}
    NoFrame = NoFrame
    NoCPU = NoCPU
SPECIFICATION Spec
PROPERTIES
    WalkedTablesRefineAddressSpace
