\* A page may have two holders at once (a COW clone, a RefPtr held across a
\* fault).  Behaviours with one holder per page are among them.  A VERIFY failure halts the kernel, so a halted state has no
\* successor: deadlock is not an error here.
CONSTANTS
    Frames <- MCFramesKR
    RegionFrames <- MCRegionFramesKR
    Threads = {t1, t2}
    PurgeObjs = {p1}
    InodeObjs = {i1}
    MaxCommit = 2
    MaxContig = 2
    MaxRefs = 2
    NoFrame = NoFrame
    KernelPages = 2
    MaxKRegion = 2
SYMMETRY MCSymmetry
SPECIFICATION Spec
CHECK_DEADLOCK FALSE
INVARIANTS
    TypeOK
    LedgerBalanced
    CountersMatchFrames
    CommitmentsBacked
    PanicOnlyOnSharedReclaim
