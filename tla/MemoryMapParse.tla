--------------------------- MODULE MemoryMapParse ---------------------------
(***************************************************************************)
(* MemoryManager::parse_memory_map and register_reserved_ranges: the boot  *)
(* path that turns the bootloader's memory map into typed                  *)
(* physical_memory_ranges, the contiguous usable page ranges that become   *)
(* PhysicalRegions, the physical_pages total, and the coalesced reserved   *)
(* ranges that is_allowed_to_read_physical_memory_for_userspace consults.  *)
(*                                                                         *)
(* Addresses are integers of AddrBits bits in units where a page is        *)
(* PageSize units, so alignment fix-ups and unsigned wrap-around happen as *)
(* in the code.  Entry types other than available and reserved (ACPI,      *)
(* NVS, bad, unknown) are handled identically by the code and are one type *)
(* "Other" here.  The bootloader map is an input, chosen in Init.          *)
(***************************************************************************)
EXTENDS Integers, Sequences, SequencesExt, FiniteSets

CONSTANTS
    PageSize,     \* PAGE_SIZE in address units
    AddrBits,     \* width of PhysicalAddress / FlatPtr / PhysicalSize
    EntryAddrs,   \* start addresses a map entry may have
    EntryLens,    \* lengths a map entry may have
    MaxEntries,   \* most entries in one map
    UsedRanges,   \* used_memory_ranges: sequence of [start, end], end exclusive
    EntrySize,    \* sizeof(PhysicalPageEntry) in address units
    PteSize,      \* sizeof(PageTableEntry) in address units
    KernelRangeBase, \* first page of kernel_virtual_range() (2 MiB aligned)
    KernelRangeEnd,  \* page after it (KERNEL_PD_END)
    KernelImages,    \* [start, end) pages the kernel image may occupy
    KernelLayouts,   \* the linker's section symbols, in kernel virtual address
                     \* units: [pk, text, data, end, ro, ua, ks], each of pk, ro,
                     \* ua, ks a [s, e) range
    KernelPages      \* the virtual pages the prekernel's tables map at boot

ASSUME PageSize \in Nat \ {0} /\ MaxEntries \in Nat \ {0}

\* Virtual pages one page table maps, i.e. one page-directory entry's span
\* (2 MiB on x86_64: 512 entries of 4 KiB pages).
PdPages == PageSize \div PteSize

ASSUME KernelRangeBase % PdPages = 0

Types == {"Usable", "Reserved", "Other"}

Wrap(x) == x % (2 ^ AddrBits)

Entry == [addr : EntryAddrs, len : EntryLens, type : Types]

\* Maps as firmware reports them: entries in address order, not overlapping.
\* Physical addresses stay well below 2^64 (MAXPHYADDR is at most 52 bits),
\* so every entry ends at least a page below the top of the address space.
OrderedMaps ==
    UNION {{s \in [1 .. n -> Entry] :
              /\ s[n].addr + s[n].len <= 2 ^ AddrBits - PageSize
              /\ \A i \in 1 .. n - 1 : s[i].addr + s[i].len <= s[i + 1].addr}
           : n \in 1 .. MaxEntries}

VARIABLES
    mmap,        \* the multiboot memory map
    next,        \* index of the entry the loop is at
    memRanges,   \* physical_memory_ranges
    contiguous,  \* contiguous_physical_ranges: sequence of [lower, upper]
    regions,     \* physical_regions: sequence of [lower, upper), upper exclusive
    physPages,   \* system_memory_info.physical_pages
    reserved,    \* reserved_memory_ranges: sequence of [start, length]
    done,
    phase,       \* initialize_physical_pages: "pending", "ready" (array
                 \* allocated), "mapped" (tables built), "halted" (a VERIFY or
                 \* MUST failed) or "pdeInUse" (VERIFY(!pde.is_present()) failed)
    entriesCount,  \* m_physical_page_entries_count
    pageTables,  \* needed_page_table_count
    pagesRegion, \* physical_pages_region: [lower, upper)
    arrayVA,     \* first virtual page of the PhysicalPageEntry array's region
    kmap,        \* virtual page -> physical page of the hand-built tables
    layout,      \* the KernelLayouts record the protection steps saw
    kpte,        \* kpte[pg]: present, writable and executable bits of the
                 \* kernel page directory's entry for virtual page pg
    kdone,       \* the protection steps that have run
    hasNx        \* Processor::current().has_nx()

vars == <<mmap, next, memRanges, contiguous, regions, physPages, reserved, done,
         phase, entriesCount, pageTables, pagesRegion, arrayVA, kmap,
         layout, kpte, kdone, hasNx>>

protVars == <<layout, kpte, kdone, hasNx>>

initVars == <<phase, entriesCount, pageTables, pagesRegion, arrayVA, kmap>>

-----------------------------------------------------------------------------
\* "Fix up unaligned memory regions": the start is rounded up (the length
\* shrinks by the same amount, as an unsigned subtraction) and the length
\* rounded down to whole pages.
FixUp(e) ==
    LET diff == e.addr % PageSize
        adj  == IF diff # 0 THEN PageSize - diff ELSE 0
        len1 == Wrap(e.len - adj)
    IN  [address |-> Wrap(e.addr + adj), length |-> len1 - (len1 % PageSize)]

\* Variant: the loop counts an offset from 0 to length instead of comparing
\* page_base with address + length, so it does not stop when the end wraps.
PageBasesByOffset(a, l) ==
    [k \in 1 .. (l \div PageSize + 1) |-> Wrap(a + (k - 1) * PageSize)]

\* The page bases the inner loop visits: page_base from address up to and
\* including address + length, in steps of PAGE_SIZE.
PageBases(a, l) ==
    LET last == Wrap(a + l)
        n    == IF last >= a THEN (last - a) \div PageSize + 1 ELSE 0
    IN  [k \in 1 .. n |-> a + (k - 1) * PageSize]

\* Skip used memory ranges: the test is addr <= used_range.end, inclusive.
IsUsed(addr) ==
    \E i \in DOMAIN UsedRanges :
        UsedRanges[i].start <= addr /\ addr <= UsedRanges[i].end

\* Variant: a page anywhere above the last range extends it.
AddPageMergingGaps(ranges, addr) ==
    IF IsUsed(addr) THEN ranges
    ELSE IF ranges = <<>> \/ ~(Last(ranges).upper < addr)
         THEN Append(ranges, [lower |-> addr, upper |-> addr])
         ELSE [ranges EXCEPT ![Len(ranges)].upper = addr]

\* One page of the inner loop: skipped, appended as a new range, or
\* extending the last range when last.upper + PAGE_SIZE = addr.
AddPage(ranges, addr) ==
    IF IsUsed(addr) THEN ranges
    ELSE IF ranges = <<>> \/ Wrap(Last(ranges).upper + PageSize) # addr
         THEN Append(ranges, [lower |-> addr, upper |-> addr])
         ELSE [ranges EXCEPT ![Len(ranges)].upper = addr]

\* register_reserved_ranges: range.start = 0 means "no open range"; a
\* non-reserved entry closes the open range at its own start.
ReservedStep(acc, r) ==
    IF r.type # "Reserved"
    THEN IF acc.start = 0 THEN acc
         ELSE [start |-> 0,
               out |-> Append(acc.out, [start |-> acc.start,
                                        length |-> Wrap(r.start - acc.start)])]
    ELSE IF acc.start # 0 THEN acc ELSE [acc EXCEPT !.start = r.start]

RegisterReservedRanges(ranges) ==
    LET acc  == FoldLeft(ReservedStep, [start |-> 0, out |-> <<>>], ranges)
        last == Last(ranges)
    IN  IF last.type # "Reserved" \/ acc.start = 0 THEN acc.out
        ELSE Append(acc.out, [start |-> acc.start,
                              length |-> Wrap(last.start + last.length - acc.start)])

\* is_allowed_to_read_physical_memory_for_userspace(start, length).
IsAllowedToRead(start, length) ==
    /\ start + length < 2 ^ AddrBits
    /\ \E i \in DOMAIN reserved :
         /\ reserved[i].start <= start
         /\ start + length <= reserved[i].start + reserved[i].length

\* PhysicalRegion::size(): pages in [lower, upper).
RegionSize(r) == (r.upper - r.lower) \div PageSize

NoRegion == [lower |-> 0, upper |-> 0]
NoVA == -1

\* Variant: the highest address taken from the used ranges only.
HighestUsedOnly ==
    Max({0} \cup {UsedRanges[i].end : i \in DOMAIN UsedRanges})

\* highest_physical_address: the largest end of a used range or of an entry
\* of physical_memory_ranges (start 0 when there are none).
HighestPhysicalAddress ==
    Max({0} \cup {UsedRanges[i].end : i \in DOMAIN UsedRanges}
             \cup {memRanges[i].start + memRanges[i].length : i \in DOMAIN memRanges})

\* page_round_up: EINVAL above the last page of the address space.
PageRoundUp(x) ==
    IF x > 2 ^ AddrBits - PageSize THEN [ok |-> FALSE, v |-> 0]
    ELSE [ok |-> TRUE, v |-> ((x + PageSize - 1) \div PageSize) * PageSize]

\* Variant: the page-table count rounded down.
PageTableCountFloor(arrayPages) == arrayPages \div (PageSize \div PteSize)

\* needed_page_table_count: one table maps PAGE_SIZE / sizeof(PTE) pages.
PageTableCount(arrayPages) ==
    LET perTable == PageSize \div PteSize
    IN  (arrayPages + perTable - 1) \div perTable

\* Variant: stealing an exactly fitting region but leaving it in the list.
TakeKeepingRegion(rs, i, need) ==
    [rest |-> rs,
     taken |-> [lower |-> rs[i].lower, upper |-> rs[i].lower + need * PageSize]]

\* Variant: the remaining region starting one page too low.
TakeLeavingLastPage(rs, i, need) ==
    IF RegionSize(rs[i]) = need
    THEN [rest |-> RemoveAt(rs, i), taken |-> rs[i]]
    ELSE [rest |-> [rs EXCEPT ![i].lower = @ + (need - 1) * PageSize],
          taken |-> [lower |-> rs[i].lower, upper |-> rs[i].lower + need * PageSize]]

\* Steal the whole region when it fits exactly (physical_regions.take),
\* otherwise try_take_pages_from_beginning.
TakeFromRegion(rs, i, need) ==
    IF RegionSize(rs[i]) = need
    THEN [rest |-> RemoveAt(rs, i), taken |-> rs[i]]
    ELSE [rest |-> [rs EXCEPT ![i].lower = @ + need * PageSize],
          taken |-> [lower |-> rs[i].lower, upper |-> rs[i].lower + need * PageSize]]

-----------------------------------------------------------------------------
NoLayout == [pk |-> <<0, 0>>, text |-> 0, data |-> 0, end |-> 0,
             ro |-> <<0, 0>>, ua |-> <<0, 0>>, ks |-> <<0, 0>>]

Init ==
    /\ mmap \in OrderedMaps
    /\ next = 1
    /\ memRanges = <<>>
    /\ contiguous = <<>>
    /\ regions = <<>>
    /\ physPages = 0
    /\ reserved = <<>>
    /\ done = FALSE
    /\ phase = "pending"
    /\ entriesCount = 0
    /\ pageTables = 0
    /\ pagesRegion = NoRegion
    /\ arrayVA = NoVA
    /\ kmap = <<>>
    /\ layout = NoLayout
    /\ kpte = [pg \in KernelPages |-> [p |-> TRUE, w |-> TRUE, x |-> TRUE]]
    /\ kdone = {}
    /\ hasNx = FALSE

\* One iteration of the loop over the multiboot map: the entry is recorded
\* with its type, and an available entry that is at least a page after the
\* fix-up contributes its pages.
ParseEntry ==
    LET e == mmap[next]
        f == FixUp(e)
    IN
    /\ next <= Len(mmap)
    /\ memRanges' = Append(memRanges, [type |-> e.type, start |-> e.addr, length |-> e.len])
    /\ contiguous' = IF e.type = "Usable" /\ f.length >= PageSize
                     THEN FoldLeft(AddPage, contiguous, PageBases(f.address, f.length))
                     ELSE contiguous
    /\ next' = next + 1
    /\ UNCHANGED <<mmap, regions, physPages, reserved, done>>
    /\ UNCHANGED initVars
    /\ UNCHANGED protVars

\* Variant: the region is created as [lower, upper + PAGE_SIZE).
CreateRegionsInclusive ==
    /\ next > Len(mmap)
    /\ ~done
    /\ regions' = [i \in DOMAIN contiguous |->
                     [lower |-> contiguous[i].lower, upper |-> contiguous[i].upper + PageSize]]
    /\ physPages' = FoldLeft(LAMBDA n, r : n + RegionSize(r), 0, regions')
    /\ reserved' = RegisterReservedRanges(memRanges)
    /\ done' = TRUE
    /\ UNCHANGED <<mmap, next, memRanges, contiguous>>
    /\ UNCHANGED initVars
    /\ UNCHANGED protVars

\* After the loop: a PhysicalRegion per contiguous range (try_create(lower,
\* upper)), physical_pages summed over them, then register_reserved_ranges.
CreateRegions ==
    /\ next > Len(mmap)
    /\ ~done
    /\ regions' = [i \in DOMAIN contiguous |->
                     [lower |-> contiguous[i].lower, upper |-> contiguous[i].upper]]
    /\ physPages' = FoldLeft(LAMBDA n, r : n + RegionSize(r), 0, regions')
    /\ reserved' = RegisterReservedRanges(memRanges)
    /\ done' = TRUE
    /\ UNCHANGED <<mmap, next, memRanges, contiguous>>
    /\ UNCHANGED initVars
    /\ UNCHANGED protVars

\* initialize_physical_pages up to the allocation of the array, then the
\* VERIFY(physical_pages > 0) of parse_memory_map: size the entry array and
\* its page tables, take them from the first region large enough (no such
\* region is VERIFY_NOT_REACHED) and subtract them from physical_pages.
InitializePhysicalPages ==
    LET count      == HighestPhysicalAddress \div PageSize + 1
        arraySize  == PageRoundUp(count * EntrySize)
        arrayPages == arraySize.v \div PageSize
        tables     == PageTableCount(arrayPages)
        need       == arrayPages + tables
        fits       == {i \in DOMAIN regions : RegionSize(regions[i]) >= need}
        t          == TakeFromRegion(regions, Min(fits), need)
    IN
    /\ done /\ phase = "pending"
    /\ IF ~arraySize.ok \/ fits = {} \/ physPages < need
       THEN /\ phase' = "halted"
            /\ UNCHANGED <<regions, physPages, entriesCount, pageTables, pagesRegion>>
       ELSE /\ entriesCount' = count
            /\ pageTables' = tables
            /\ physPages' = physPages - need
            /\ regions' = t.rest
            /\ pagesRegion' = t.taken
            /\ phase' = IF physPages - need > 0 THEN "ready" ELSE "halted"
    /\ UNCHANGED <<mmap, next, memRanges, contiguous, reserved, done, arrayVA, kmap>>
    /\ UNCHANGED protVars

\* The page-directory entries of boot_pd_kernel the prekernel made present:
\* those of the kernel image's pages.
ImagePdes(img) == {v \div PdPages : v \in img.start .. img.end - 1}

\* Variant: the carve-out ends at the 2 MiB boundary below the image end.
CarveNotRoundedUp(img) ==
    [lower |-> (img.start \div PdPages) * PdPages,
     upper |-> (img.end \div PdPages) * PdPages]

\* The unbacked region covering the whole page directories of the kernel
\* image: start & ~0x1fffff up to (end & ~0x1fffff) + 0x200000.
CarveKernelImage(img) ==
    [lower |-> (img.start \div PdPages) * PdPages,
     upper |-> (img.end \div PdPages) * PdPages + PdPages]

\* RegionTree::place_anywhere(n pages, PAGE_SIZE alignment) in a tree that
\* holds only the carve-out: the lowest gap of n pages, or NoVA.
PlaceAnywhere(carve, n) ==
    LET fit == {v \in KernelRangeBase .. KernelRangeEnd - n :
                  v + n <= carve.lower \/ carve.upper <= v}
    IN IF fit = {} THEN NoVA ELSE Min(fit)

\* The page-directory entries the table loop hooks: table k goes in at
\* the entry of virtual_page_base_for_this_pt = base + k * 2 MiB.
HookedPdes(base, tables) == {base \div PdPages + k : k \in 0 .. tables - 1}

\* Variant: the entries start at page_tables_base, not after the tables.
ArrayBaseAtTables(base, physLower, tables) ==
    LET first == (base \div PdPages) * PdPages IN
    [v \in {first + j : j \in 0 .. tables * PdPages - 1} |-> physLower + (v - first)]

\* The PTEs the table loop writes: every entry of table k is present and
\* maps the next physical page after the page tables; entry i of the table
\* hooked at directory entry d translates virtual page d * PdPages + i.
PageArrayPtes(base, physLower, tables) ==
    LET first == (base \div PdPages) * PdPages IN
    [v \in {first + j : j \in 0 .. tables * PdPages - 1} |->
        physLower + tables + (v - first)]

\* The rest of initialize_physical_pages: carve out the kernel image's page
\* directories, place the array's region anywhere (MUST), build each page
\* table in the array's physical region through quickmap_page, and hook it
\* into boot_pd_kernel after VERIFY(!pde.is_present()).
MapPageArray ==
    /\ phase = "ready"
    /\ \E img \in KernelImages :
         LET arrayPages == RegionSize(pagesRegion) - pageTables
             base       == PlaceAnywhere(CarveKernelImage(img), arrayPages)
         IN
         IF base = NoVA
         THEN /\ phase' = "halted"
              /\ UNCHANGED <<arrayVA, kmap>>
         ELSE IF HookedPdes(base, pageTables) \cap ImagePdes(img) # {}
         THEN /\ phase' = "pdeInUse"
              /\ UNCHANGED <<arrayVA, kmap>>
         ELSE /\ phase' = "mapped"
              /\ arrayVA' = base
              /\ kmap' = PageArrayPtes(base, pagesRegion.lower \div PageSize, pageTables)
    /\ UNCHANGED <<mmap, next, memRanges, contiguous, regions, physPages, reserved,
                   done, entriesCount, pageTables, pagesRegion>>
    /\ UNCHANGED protVars

-----------------------------------------------------------------------------
(***************************************************************************)
(* The rest of boot: the MemoryManager constructor's protect_kernel_image  *)
(* once the frame array is mapped, then the calls init makes: unmap_prekernel, *)
(* protect_readonly_after_init_memory, unmap_text_after_init and           *)
(* protect_ksyms_after_init.  Each loop walks ensure_pte over the kernel   *)
(* page directory, whose entries for the image the prekernel already made. *)
(***************************************************************************)

bootVars == <<mmap, next, memRanges, contiguous, regions, physPages, reserved, done, initVars>>

\* The pages `for (i = s; i < e; i += PAGE_SIZE)` visits.
LoopPages(s, e) == {(s + k * PageSize) \div PageSize : k \in 0 .. ((e - s - 1) \div PageSize)}

PageRoundDown(x) == (x \div PageSize) * PageSize

\* The pages holding a byte of [r[1], r[2]).
PagesOfRange(r) == {b \div PageSize : b \in r[1] .. r[2] - 1}

\* The present, writable and executable bits of a page-table entry.
Ptes == [p : BOOLEAN, w : BOOLEAN, x : BOOLEAN]

\* The entries of m for the given pages, each rewritten by the function f.
Apply(m, pages, f) == [pg \in DOMAIN m |-> IF pg \in pages THEN f[m[pg]] ELSE m[pg]]
ReadOnly == [e \in Ptes |-> [e EXCEPT !.w = FALSE]]
NoExecute == [e \in Ptes |-> [e EXCEPT !.x = FALSE]]
Cleared == [e \in Ptes |-> [p |-> FALSE, w |-> FALSE, x |-> FALSE]]

\* Variant: the text loop stops a page early.
ProtectKernelImageShort ==
    /\ phase = "mapped"
    /\ kdone = {}
    /\ \E L \in KernelLayouts, nx \in BOOLEAN :
         /\ layout' = L
         /\ hasNx' = nx
         /\ kpte' = Apply(Apply(kpte, LoopPages(L.text, L.data - PageSize), ReadOnly),
                          IF nx THEN LoopPages(L.data, L.end) ELSE {}, NoExecute)
         /\ kdone' = {"image"}
    /\ UNCHANGED bootVars

\* protect_kernel_image: text and rodata read-only; with NX, data, bss and
\* heap not executable.
ProtectKernelImage ==
    /\ phase = "mapped"
    /\ kdone = {}
    /\ \E L \in KernelLayouts, nx \in BOOLEAN :
         /\ layout' = L
         /\ hasNx' = nx
         /\ kpte' = Apply(Apply(kpte, LoopPages(L.text, L.data), ReadOnly),
                          IF nx THEN LoopPages(L.data, L.end) ELSE {}, NoExecute)
         /\ kdone' = {"image"}
    /\ UNCHANGED bootVars

\* unmap_prekernel: release_pte from the page base of the image's start to
\* the page base of its end, inclusive.
UnmapPrekernel ==
    /\ "image" \in kdone /\ "prekernel" \notin kdone
    /\ kpte' = Apply(kpte, (layout.pk[1] \div PageSize) .. (layout.pk[2] \div PageSize), Cleared)
    /\ kdone' = kdone \cup {"prekernel"}
    /\ UNCHANGED <<layout, hasNx>>
    /\ UNCHANGED bootVars

\* protect_readonly_after_init_memory: the loop starts at the symbol itself.
ProtectReadonlyAfterInit ==
    /\ "image" \in kdone /\ "ro" \notin kdone
    /\ kpte' = Apply(kpte, LoopPages(layout.ro[1], layout.ro[2]), ReadOnly)
    /\ kdone' = kdone \cup {"ro"}
    /\ UNCHANGED <<layout, hasNx>>
    /\ UNCHANGED bootVars

\* unmap_text_after_init: the section rounded out to whole pages, cleared.
UnmapTextAfterInit ==
    /\ "image" \in kdone /\ "ua" \notin kdone
    /\ kpte' = Apply(kpte, LoopPages(PageRoundDown(layout.ua[1]), PageRoundUp(layout.ua[2]).v), Cleared)
    /\ kdone' = kdone \cup {"ua"}
    /\ UNCHANGED <<layout, hasNx>>
    /\ UNCHANGED bootVars

\* protect_ksyms_after_init: the symbol table rounded out, read-only.
ProtectKsymsAfterInit ==
    /\ "image" \in kdone /\ "ks" \notin kdone
    /\ kpte' = Apply(kpte, LoopPages(PageRoundDown(layout.ks[1]), PageRoundUp(layout.ks[2]).v), ReadOnly)
    /\ kdone' = kdone \cup {"ks"}
    /\ UNCHANGED <<layout, hasNx>>
    /\ UNCHANGED bootVars

Next ==
    \/ ParseEntry \/ CreateRegions \/ InitializePhysicalPages \/ MapPageArray
    \/ ProtectKernelImage \/ UnmapPrekernel \/ ProtectReadonlyAfterInit
    \/ UnmapTextAfterInit \/ ProtectKsymsAfterInit

Spec == Init /\ [][Next]_vars

-----------------------------------------------------------------------------
Addrs == 0 .. (2 ^ AddrBits - 1)

TypeOK ==
    /\ next \in 1 .. MaxEntries + 1
    /\ \A i \in DOMAIN contiguous :
         contiguous[i].lower \in Addrs /\ contiguous[i].upper \in Addrs
    /\ physPages \in Nat
    /\ done \in BOOLEAN
    /\ phase \in {"pending", "ready", "mapped", "halted", "pdeInUse"}
    /\ entriesCount \in Nat /\ pageTables \in Nat
    /\ kpte \in [KernelPages -> Ptes]
    /\ kdone \subseteq {"image", "prekernel", "ro", "ua", "ks"}
    /\ hasNx \in BOOLEAN

\* Pages the PhysicalRegions hand out.
RegionPages ==
    {p \in Addrs : \E i \in DOMAIN regions :
        regions[i].lower <= p /\ p < regions[i].upper
        /\ (p - regions[i].lower) % PageSize = 0}

OverlapsUsed(p) ==
    \E i \in DOMAIN UsedRanges : p < UsedRanges[i].end /\ UsedRanges[i].start < p + PageSize

\* The kernel image, low memory and boot modules are never handed out: no
\* page of a PhysicalRegion overlaps a used memory range, whatever the
\* interplay of the inclusive page loop, the inclusive skip test and the
\* merge test.
UsedRangesExcluded == done => \A p \in RegionPages : ~OverlapsUsed(p)

\* deallocate_physical_page returns a page to the first region containing
\* it, so the regions must not overlap: each lies wholly below the next.
RegionsDisjoint ==
    done => \A i, j \in DOMAIN regions :
                i < j => regions[i].upper <= regions[j].lower

\* Reference: the pages wholly inside an available entry and clear of every
\* used range.
UsablePages ==
    {p \in Addrs : /\ p % PageSize = 0
                   /\ ~OverlapsUsed(p)
                   /\ \E i \in DOMAIN mmap :
                        /\ mmap[i].type = "Usable"
                        /\ mmap[i].addr <= p
                        /\ p + PageSize <= mmap[i].addr + mmap[i].len}

\* Only memory the bootloader reports as available becomes a PhysicalRegion
\* page ("coalescing adjacent usable pages into FrameRegions").
RegionsWithinUsable == done => RegionPages \subseteq UsablePages

\* /dev/mem-style reads are allowed exactly on memory the map reports as
\* reserved.
InReservedEntry(x) ==
    \E i \in DOMAIN mmap :
        mmap[i].type = "Reserved" /\ mmap[i].addr <= x /\ x < mmap[i].addr + mmap[i].len

ReadableExactlyReserved ==
    done => \A x \in Addrs : IsAllowedToRead(x, 1) <=> InReservedEntry(x)

Bootstrapped == phase \in {"ready", "mapped"}

PagesIn(r) == {p \in Addrs : r.lower <= p /\ p < r.upper /\ (p - r.lower) % PageSize = 0}

\* Once the frame array exists, get_physical_page_entry's VERIFY(index <
\* m_physical_page_entries_count) holds for every page a PhysicalRegion can
\* hand out and every page of the array's own region.
EntriesCoverRegions ==
    Bootstrapped =>
        \A p \in RegionPages \cup PagesIn(pagesRegion) : p \div PageSize < entriesCount

\* system_memory_info.physical_pages counts exactly the pages the
\* PhysicalRegions still hold, before and after the array's pages are taken.
PhysicalPagesMatchRegions ==
    done /\ phase \in {"pending", "ready", "mapped"} =>
        physPages = FoldLeft(LAMBDA n, r : n + RegionSize(r), 0, regions)

\* The array's region holds needed_page_table_count page tables followed by
\* enough pages for every PhysicalPageEntry, and those tables map all of them.
PageArrayFits ==
    Bootstrapped =>
        LET arrayPages == RegionSize(pagesRegion) - pageTables
        IN  /\ arrayPages * PageSize >= entriesCount * EntrySize
            /\ pageTables * (PageSize \div PteSize) >= arrayPages

\* The pages of the frame array are never also handed out by a region.
PageArrayDisjoint ==
    Bootstrapped => PagesIn(pagesRegion) \cap RegionPages = {}

\* Every virtual page of the array's region translates, through the
\* hand-built tables, to the physical page holding the same part of the
\* array: the tables are hooked by 2 MiB directory entry while their
\* entries are filled from the region's base, which agree only because
\* the region starts on a directory boundary.
ArrayMapped ==
    phase = "mapped" =>
        \A v \in arrayVA .. arrayVA + RegionSize(pagesRegion) - pageTables - 1 :
            /\ v \in DOMAIN kmap
            /\ kmap[v] = pagesRegion.lower \div PageSize + pageTables + (v - arrayVA)

\* The array's page tables are never hooked into a directory entry the
\* prekernel's mapping of the kernel image already uses: the carve-out of
\* the image's whole directories keeps place_anywhere off them.
ArrayPdesFree == phase # "pdeInUse"

\* Once boot has run every protection step, each page of the kernel image
\* allows exactly what its section needs: .unmap_after_init and the
\* prekernel are gone; text, rodata, .ro_after_init and the symbol table are
\* read-only; data and bss stay writable, and executable only without NX.
\* The loops' bounds (the raw start of protect_readonly_after_init_memory,
\* the rounding of unmap_text_after_init and protect_ksyms_after_init, the
\* inclusive end of unmap_prekernel) must neither miss a page of their
\* section nor reach into a neighbour's.
ImageProtectionExact ==
    kdone = {"image", "prekernel", "ro", "ua", "ks"} =>
        LET L        == layout
            gone     == PagesOfRange(L.ua) \cup PagesOfRange(L.pk)
            readOnly == (PagesOfRange(<<L.text, L.data>>) \ PagesOfRange(L.ua))
                        \cup PagesOfRange(L.ro) \cup PagesOfRange(L.ks)
            writable == PagesOfRange(<<L.data, L.end>>) \ PagesOfRange(L.ro)
        IN  /\ \A pg \in gone : ~kpte[pg].p
            /\ \A pg \in readOnly : kpte[pg].p /\ ~kpte[pg].w
            /\ \A pg \in writable : kpte[pg].p /\ kpte[pg].w /\ (kpte[pg].x <=> ~hasNx)
=============================================================================
