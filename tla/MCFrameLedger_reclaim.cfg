\* A page may have two holders at once; is the allocator still free of
\* VERIFY failures when a reclaim drops a reference that is not the last?
CONSTANTS
    Frames <- MCFrames
    RegionFrames <- MCRegionFrames
    Threads = {t1, t2}
    PurgeObjs = {p1}
    InodeObjs = {i1}
    MaxCommit = 2
    MaxContig = 2
    MaxRefs = 2
    NoFrame = NoFrame
    KernelPages = 2
    MaxKRegion = 1
SYMMETRY MCSymmetry
SPECIFICATION Spec
INVARIANTS
    NoPanic
