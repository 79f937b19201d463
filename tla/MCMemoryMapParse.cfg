\* Every ordered map of up to two entries in a 16-page space: regions avoid
\* used ranges and do not overlap, and the frame array is sized, placed and
\* accounted for.
CONSTANTS
    PageSize = 4
    AddrBits = 6
    EntryAddrs <- MCBootAddrs
    EntryLens = {1, 4, 8, 16, 32}
    MaxEntries = 2
    UsedRanges <- MCUsedRanges
    EntrySize = 1
    PteSize = 2
    KernelRangeBase = 2
    KernelRangeEnd = 11
    KernelImages <- MCKernelImages
    KernelLayouts <- MCKernelLayouts
    KernelPages <- MCKernelPages
SPECIFICATION Spec
\* Boot stops after initialize_physical_pages, or at its VERIFY.
CHECK_DEADLOCK FALSE
INVARIANTS
    UsedRangesExcluded
    RegionsDisjoint
    EntriesCoverRegions
    PhysicalPagesMatchRegions
    PageArrayFits
    PageArrayDisjoint
    ArrayMapped
    ArrayPdesFree
    ImageProtectionExact
