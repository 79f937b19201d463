\* Two CPUs; the purge tier remaps regions of another address space, taking
\* that page directory's lock inside the global lock.
CONSTANTS
    CPUs = {c1, c2}
    Dirs = {d1, d2}
    PDSize = 1
    PTSize = 2
    MaxRange = 2
    Frames = {1, 2}
    ReclaimWalks = {"purge"}
    NoFrame = NoFrame
    NoCPU = NoCPU
SPECIFICATION Spec
INVARIANTS
    NoLockCycle
