\* One CPU; the purge tier remaps regions (so it walks page tables and moves
\* the pd window), the clean-page tier does not.
CONSTANTS
    CPUs = {c1}
    Dirs = {d1, d2}
    PDSize = 2
    PTSize = 2
    MaxRange = 2
    Frames = {1, 2, 3}
    ReclaimWalks = {"purge"}
    NoFrame = NoFrame
    NoCPU = NoCPU
SPECIFICATION Spec
INVARIANTS
    TypeOK
    EmptyTablesReleased
    TableFramesOwned
PROPERTIES
    RefinesAddressSpace
    OperationsComplete
