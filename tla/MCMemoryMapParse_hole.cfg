\* One-page holes between available entries must not become region pages.
CONSTANTS
    PageSize = 4
    AddrBits = 5
    EntryAddrs <- MCEntryAddrs
    EntryLens = {1, 4, 8}
    MaxEntries = 3
    UsedRanges <- MCUsedRanges
    EntrySize = 1
    PteSize = 2
    KernelRangeBase = 2
    KernelRangeEnd = 11
    KernelImages <- MCKernelImages
    KernelLayouts <- MCKernelLayouts
    KernelPages <- MCKernelPages
SPECIFICATION Spec
\* Parsing ends once the regions are created.
CHECK_DEADLOCK FALSE
INVARIANTS
    RegionsWithinUsable
