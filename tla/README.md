# TLA+ models of the kernel memory manager and its neighbours

This directory checks parts of `src/` with TLC. The main subject is
`src/Kernel/Memory/MemoryManager.cpp`. That file holds:
- the kernel's physical-frame accounting;
- its page-table primitives and per-CPU quickmap windows;
- the boot-time memory-map parser and the frame-array bootstrap.

Three other components are modelled on their own:
- `AK::Function` (`src/AK/Function.h`), the callback type MemoryManager hands to `for_each_physical_memory_range`;
- LibCrypto's SHA-2 block buffering (`src/Userland/Libraries/LibCrypto/Hash/SHA2.cpp`);
- LibWeb's IndexedDB open/upgrade algorithm (`src/Libraries/LibWeb/IndexedDB/Internal/Algorithms.cpp`).

The rest of `src/` (GUI, browser and other library code) is not modelled;
PROJECT.json lists it.

## 1. Inventory of the system

| Part | Code | State | Operations that change it |
|---|---|---|---|
| FrameLedger | `system_memory_info`, `CommittedPhysicalPageSet` | `physical_pages`, `_used`, `_committed`, `_uncommitted`; each set's `m_page_count` | `commit_physical_pages` 846, `uncommit_physical_pages` 883, `find_free_physical_page` 916, `allocate_committed_physical_page` 945, `deallocate_physical_page` 895, `take_one` / `uncommit_one` / destructor 1187-1205 |
| FrameRegionPool | `physical_regions` (`PhysicalRegion`, not in src) | free frames per region | `take_free_page`, `take_contiguous_free_pages`, `return_page` (called at 931, 1027, 903) |
| Reclaim | `allocate_physical_page` 958 | (VMObject pages, volatility) | purge tier 967-980, clean-release tier 984-996, ENOMEM |
| PageTableWalker | `pte` 560, `ensure_pte` 576, `release_pte` 617 | page-directory entries, page-table entries | lookup; create a page table on demand; clear a leaf and free an emptied table |
| Quickmap windows | `quickmap_pd` 1068, `quickmap_pt` 1087, `quickmap_page` 1105 | per-CPU window PTEs, `m_quickmap_in_use` | remap the window |
| Boot parsing | `parse_memory_map` 242, `register_reserved_ranges` 196, `is_allowed_to_read_physical_memory_for_userspace` 222 | `physical_memory_ranges`, `contiguous_physical_ranges`, `physical_regions`, `reserved_memory_ranges` | one loop iteration per map entry, then region creation |
| Frame-array bootstrap | `initialize_physical_pages` 393 | the PhysicalPageEntry array, its region and page tables | sizing and stealing the region; mapping it above the kernel image |
| KernelRegionTree users | `allocate_kernel_region*` 763-845, `allocate_unbacked_region_anywhere` 1224 | (RegionTree, not in src) | place, then map |
| Fault routing | `handle_page_fault` 732, `validate_syscall_preconditions` 676 | none | none (routing only) |
| AK::Function | `Function.h` | `m_kind`, `m_storage`, `m_call_nesting_level`, `m_deferred_clear` | construct, call, assign, move, clear, destroy |
| SHA-2 buffering | `SHA2.cpp` | `m_data_buffer`, `m_data_length`, `m_bit_length`, `m_state` | `update`, `peek`, `digest` |
| IndexedDB open | `Algorithms.cpp` | connection queue, processed flags, db version, connections, event tasks | `open_a_database_connection`, `upgrade_a_database`, `close_a_database_connection`, `fire_a_version_change_event` |

**How the memory-manager parts interact.** Every counter and free list sits
behind one global lock (`m_global_data.with`). That lock is re-entered:
`allocate_physical_page` calls `find_free_physical_page` inside it.
Page-table calls run under the lock of the caller's page directory. When
`ensure_pte` needs a page table it calls `allocate_physical_page`, so it
takes the global lock while holding a directory lock. When `release_pte`
drops the last reference to a table, `deallocate_physical_page` takes the
global lock the same way.

When the free lists are empty, `allocate_physical_page` asks VMObjects to
give pages back, still inside the global lock. The code's comment at line 597
says this purge may call `ensure_pte`. Remapping a region walks page tables
through the same per-CPU pd window.

**What makes it hard.** The hard parts are:
- interleavings of CPUs on the two kinds of lock;
- state read before a nested call and used after it (the pd pointer);
- reclaim that reports success without freeing anything;
- counters that must stay equal to the free lists;
- off-by-one and wrap-around arithmetic in the boot parser and the bootstrap;
- re-entrant calls of a callable that clears or moves itself;
- IndexedDB tasks that run after the spin that queued them has ended.

## 2. Modules

### FrameLedger.tla: counters, commitments, allocation and reclaim

**State:**
- `mem` holds the four counters, the free frames and, for each frame, the set of holders of a `RefPtr` to it.
- `commitSet[t]` is the `m_page_count` of thread t's CommittedPhysicalPageSet.
- `pending[t]` holds the frames that `allocate_contiguous_physical_pages` took and has not yet mapped.
- `volatile[o]` is the volatility of each purgeable object.
- `kregion[t]` is the kernel Region thread t's `allocate_kernel_region` is building or holds: its stage (`"none"`, `"object"` once the VMObject exists, `"placed"` once the RegionTree gave it a range), size, AllocationStrategy, base, and `reserve`, what its VMObject still holds of a CommittedPhysicalPageSet.
- `crashed` records which VERIFY failed: `"no"`, `"reclaim"` (the VERIFY after a reclaim tier) or `"ledger"` (any other). Every action is guarded by `crashed = "no"`, so the kernel stops after a panic.

Helpers take a record shaped like `mem` and return the next one. This lets one
action be the sequential composition of every call a handler makes under the
lock:
- `AllocatePhysicalPage` is find, then purge or clean release, then find again, then VERIFY, then hand the page out.
- `TakeOne` is the VERIFY, then `find_free_physical_page(true)`, then VERIFY(page).

The allocation tiers are the disjuncts of `AllocatePhysicalPage`. A failed
VERIFY is the `Crash(site)` step, after which nothing else happens.

The environment outside the file is modelled by three actions:
- `DropRef`: a holder drops its reference;
- `ShareRef`: a second holder takes one (a COW clone, or a RefPtr held across a fault), up to `MaxRefs` holders;
- `SetVolatile`: userspace toggles volatility.

`PhysicalRegion` is not in `src/`, so a region hands out its lowest free frame
or its lowest run of free frames.

Kernel regions (`allocate_kernel_region(size, ..., strategy)`, 801-816) take
three steps, because each TRY takes and drops the global lock on its own:
- `AllocateKernelRegion`: the AnonymousVMObject. Reserve commits the pages, AllocateNow commits them and takes every one (`TakeCommitted`, the object's constructor), None does neither. `allocate_unbacked_region_anywhere` is modelled as None, since it neither commits nor holds a frame.
- `PlaceKernelRegion`: `place_anywhere` picks any free range of the kernel range (`Gaps`), and `map()` succeeds. `map()` changes nothing another thread reads here, so it shares the step. The page tables it allocates are PageTableWalker's business.
- `DestroyKernelRegion`: a TRY after the VMObject failed (create_unplaced, no free range, `map()` out of memory), or the owner drops the Region. `~Region` unregisters it (`unregister_kernel_region`), and the VMObject's pages and remaining commitment are released (`DropVMObject`). The unregistering and the release are one step here.

RegionTree and AnonymousVMObject are not in `src/`; they follow the spec.
`ContiguousMapped` now needs a free kernel range for the cleanup region of
`allocate_contiguous_physical_pages`. That region lives only within the step,
so it never blocks another thread's placement.

**Properties:**
- `LedgerBalanced`: the VERIFY in `get_system_memory_info`.
- `CountersMatchFrames`: `used` counts exactly the frames with a holder, and committed + uncommitted equals the number of free frames.
- `CommitmentsBacked`: the committed counter equals the sum of the live sets' `m_page_count`, the threads' and those kept by Reserve kernel Regions, also after a TRY of `allocate_kernel_region` failed.
- `PanicOnlyOnSharedReclaim`: the only VERIFY that can fire is the one after a reclaim, and only when a page of a reclaimable object has a second holder.
- `NoPanic`: no VERIFY fires.

### AddressSpaceMap.tla: the abstract page-table contract

Each directory is a set of translated pages, and each directory has a lock
holder. Only the holder changes the set, and a step adds or removes the
translation of one page.

### PageTableWalker.tla: pte, ensure_pte, release_pte, and reclaim inside them

**State:**
- `pde[d][s]` is the page table hooked into entry s of directory d.
- `pte[t][i]` says whether leaf i of table frame t is set.
- `free`, `purgeable` and `clean` are frame pools.
- `win[c].pd` and `win[c].pt` are what CPU c's quickmap_pd and quickmap_pt PTEs point at. `tlb[c]` holds the translations of those windows that c's TLB keeps (`NoFrame` for none).
- `dirLock` and `globalLock` are the two locks.
- `pc`, `job`, `tier`, `newTable` and `didPurge` are per-CPU program state.

A caller locks a directory and maps or unmaps a range of up to `MaxRange`
pages (`Begin` … `Finish`). Each page is one `ensure_pte` or `release_pte`
step:
- `EnsurePteAbsent` quickmaps the pd.
- The allocation is `AllocateFromFreeList`, `AllocateNeedsReclaim` followed by `Reclaim`, or `AllocateOutOfMemory`.
- `InstallPageTable` re-quickmaps only if `didPurge`, then writes the pde through the window.
- `release_pte` clears the leaf (`ReleasePteKeepTable`), or, when the scan finds the table empty, takes two steps as the code does. `ReleasePteUnref` is the `unref()` at 643: `deallocate_physical_page` returns the frame to the free lists under the global lock and lets the lock go. `ReleasePteUnhook` is the `pde.clear()` at 644. Between them the frame is free while the directory's entry still points at it.

A reclaim tier listed in `ReclaimWalks` remaps regions of a directory. That
needs the directory's lock and leaves this CPU's pd window on that directory.
It also leaves the pt window on one of that directory's tables
(`RemapWindows`).

Every read and write through a window goes through `Reach`, which is the
code of `quickmap_pd` and `quickmap_pt`. When the PTE already holds the
target, nothing is written and nothing is flushed, so the access goes
through whatever the TLB holds. Otherwise the PTE is rewritten and
`flush_tlb_local` drops the TLB entry. `Current` is an access without a new
quickmap: ensure_pte's kept `pd` pointer when `did_purge` is false. The TLB
keeps an entry until it is flushed. Keeping it is the worst case for stale
translations; eviction would only hide them. `quickmap_page` /
`unquickmap_page` map, zero and clear their window within one step, so
their window has no state between steps. `ZeroFilled` stands for that
sequence. A populated VMObject page is full of data (`PopulateObject` sets
every entry). A reclaimed frame is therefore a page table only after the
zero fill.

**The refinements.** Two mappings of the same tables.
- `AS == INSTANCE AddressSpaceMap WITH mapped <- [d |-> MappedForHolder(d)], holder <- dirLock`. It is the view of code that holds the directory lock. An entry between the two halves of a table release counts as gone, because the release takes effect for that code at 643, and nothing under the lock reads the entry again. `RefinesAddressSpace == AS!Spec` is checked as a PROPERTY.
- `HW` uses `Mapped(d)`, the tables the MMU walks from each entry. `WalkedTablesRefineAddressSpace == HW!Spec` is violated: see the walker_release_window run.

**Other properties:**
- `EmptyTablesReleased`: once a directory is unlocked, no hooked table is empty.
- `TableFramesOwned`: each frame is in exactly one place. An entry between the two halves of a release no longer counts as an owner.
- The refinement also catches a missed TLB flush in `quickmap_pd` / `quickmap_pt`, and a missing zero fill of a reclaimed frame: either makes a step change other pages' translations.
- `OperationsComplete`: liveness; every started operation ends.
- `NoLockCycle`: no two CPUs wait for each other.

### MemoryMapParse.tla: boot memory-map parsing and the frame-array bootstrap

Addresses are `AddrBits`-bit integers, and a page is `PageSize` units. This
keeps the alignment fix-up, the unsigned `length -= diff` and the wrap of
`address + length` as they are in the code.

Init chooses the bootloader map from every ordered, non-overlapping map of up
to `MaxEntries` entries. Then the boot runs as a sequence of phases:
- each `ParseEntry` is one iteration of the loop at line 271;
- `CreateRegions` creates the regions, sums `physical_pages` and runs `register_reserved_ranges`;
- `InitializePhysicalPages` sizes the PhysicalPageEntry array and its page tables, steals them from the first region large enough, and subtracts them from `physical_pages`;
- `MapPageArray` carves the kernel image's whole page directories out of the kernel range, places the array's virtual range with first fit (`place_anywhere`), builds each page table's entries from the region's base, and hooks the tables into `boot_pd_kernel` after `VERIFY(!pde.is_present())`.
- `ProtectKernelImage` is the constructor's `protect_kernel_image` (110-124). It makes text and rodata read-only and, when the CPU has NX (chosen here), data, bss and heap non-executable.
- `UnmapPrekernel`, `ProtectReadonlyAfterInit`, `UnmapTextAfterInit` and `ProtectKsymsAfterInit` (127-181) are the calls init makes later. init is not in `src/`, so they run in any order. Each is its loop over `kpte`, the kernel page directory's entries, with the code's bounds: `LoopPages(s, e)` is `for (i = s; i < e; i += PAGE_SIZE)`, and the rounding and the inclusive end appear where the code has them.

The section symbols come from the linker script, which is not in `src/`.
`KernelLayouts` gives the protection steps their layout; it is chosen
independently of the image `MapPageArray` carves out. That carve-out only
uses whole page directories. The TLB flushes after each write are not
modelled, because boot runs on one CPU.

Entry types other than available and reserved behave identically in the code
and are one type. The two inner loops are folds (`FoldLeft` from
SequencesExt) of `AddPage` and `ReservedStep`.

**Properties:**
- `UsedRangesExcluded`: no region page overlaps a used range.
- `RegionsDisjoint`: the regions lie each wholly below the next. It also catches a page loop that does not stop at the wrapped end `address + length` of an entry whose `length -= diff` underflowed.
- `EntriesCoverRegions`: every page a region can hand out has an entry in the array.
- `PhysicalPagesMatchRegions`: `physical_pages` equals the pages the regions hold.
- `PageArrayFits`: the stolen region holds the tables and the array, and the tables map all of it.
- `PageArrayDisjoint`: no page of the array is also handed out.
- `ArrayMapped`: each virtual page of the array translates to the physical page holding that part of the array.
- `ArrayPdesFree`: the tables are never hooked into a directory entry the kernel image uses.
- `ImageProtectionExact`: once every protection step has run, each kernel-image page allows exactly what its section needs. The prekernel and `.unmap_after_init` are gone. Text, rodata, `.ro_after_init` and ksyms are read-only. Data and bss stay writable, and are executable only without NX. A loop bound one page short or one page long breaks it.
- `RegionsWithinUsable` and `ReadableExactlyReserved`: the spec's statements about region memory and reserved ranges, checked in violation runs.

### AKFunction.tla: AK::Function

**State:**
- `fn[f]` holds each Function object's `m_kind`, its wrapper, `m_size`, `m_call_nesting_level` and `m_deferred_clear`, and whether it is alive.
- `wr[i]` is the life cycle of each CallableWrapper.
- `stack` lists the calls in progress.

Everything runs on one thread. While a call is in progress, every step is a
step of the callable's body, which may call, assign, move or destroy any
Function, including the one running it. `MoveFrom` re-creates an inline
wrapper in the destination and drops an out-of-line one by pointer.

**Properties:**
- `CalledWrappersLive`: a running call's wrapper is never freed.
- `SingleOwner`: no two Functions own one wrapper.
- `DeferredClearPending`: a deferred clear is performed by the outermost return.
- `CaptureRangeExact`: `raw_capture_range` covers exactly the stored wrapper.
- `NoOrphanWrapper`: every constructed wrapper is destroyed.

### SHA2Buffer.tla: SHA-2 block buffering and padding

The variable `hash` is the object's class: SHA256, SHA384 or SHA512, fixed
when the object is made. `Geo(hash)` gives the class's block size and
length field (8 bytes for SHA256, 16 for SHA384 and SHA512).
`transform()` is abstracted to what it does to `m_state`: it folds in one
block. `m_state` is therefore the sequence of blocks absorbed since reset.
`UpdateBuffer` is the recursive `update_buffer` with `update()`'s callback.
`PeekCtx` is `peek()`: it pads in place or spills into a second block, then
`PeekTail` appends the length. For SHA256 that is `FinishPeek`. For SHA384
and SHA512 it is `FinishPeekWide`, which writes the u64 count into the low
half of the 16-byte field and zeroes the high half. `DigestBytesOf` is the
size of the digest the output loop writes; SHA384 copies six of the eight
state words. The reference `Reference(h, m)` pads the whole message as FIPS
180-4 says, cuts it into blocks, and gives h's digest size.

**Properties:**
- `StreamConsistent`: before any peek, the absorbed blocks followed by the buffered bytes spell the message, and the bit length counts the absorbed bits.
- `DigestMatchesReference`: for every class, a digest or peek taken with no earlier peek since reset absorbs exactly the reference padding and has the reference size.

### IDBOpen.tla: opening and upgrading IndexedDB connections

**State:**
- `pc[r]` and `asked[r]`: where request r's algorithm is, and the version it was opened with.
- `queue` and `processed[r]`: the connection queue and the processed flags.
- `dbExists` and `dbVersion`: the database.
- `conn[c]` and `version[c]`: each connection's state and version. `close_a_database_connection` sets close pending and closed together, so one variable holds both.
- `others[r]`: the openConnections of step 10.1.
- `tx[r]`: the upgrade transaction.
- `tasks` and `fired`: the DatabaseAccess task queue, and the events dispatched so far.
- `spins`: the algorithms on the main thread's stack, innermost last.

Each request's algorithm runs on the main thread. Both of its waits are
`HTML::EventLoop::spin_until`, which pumps the event loop inside the call.
A task, and an `open()` its script makes, therefore runs on top of the
algorithm that is spinning (`Open` pushes onto `spins`). Only the innermost
algorithm can leave its spin (`Innermost`). Tasks and scripts run only while
the innermost spin's condition fails (`SpinWaits`, `EventLoopRuns`); once it
holds, `spin_until` returns. The steps between two waits run atomically:
- `Proceed`: steps 4-10.4;
- `CreateFails`: step 6 failing;
- `ResumeUpgrade`: from the end of the step 10.5 wait through `upgrade_a_database`.

The event loop runs one task at a time, in FIFO order (`RunTask`). A
versionchange or blocked task reads `db->version()` when it runs, as the
lambdas in the code do. Scripts are the environment: a script holding a
connection may close it at any time, or from the handler of a
versionchange or upgradeneeded event (`Close`, and a disjunct of `RunTask`).

`IDBFactory.open()` is not in `src/`. It is modelled from the IndexedDB
specification (`Return`, `ReturnEvent`): when the algorithm returns, it sets
the processed flag and queues success or error.

**Properties:**
- `OpenConnectionsCurrent`: every connection a script holds open is at the database's current version.
- `UpgradeReportsOldVersion`: upgradeneeded reports the version the database had before.
- `OpensComplete`: every queued open eventually returns. It is not a run. It fails when spins nest; see section 6.
- `VersionChangeReportsOldVersion`: the same requirement for versionchange and blocked events. It is not a run; see section 6.

## 3. Runs

| Run | Cfg | Expect | What it shows |
|---|---|---|---|
| ledger_shared | MCFrameLedger_shared.cfg | pass | Two threads, 3 frames in 2 regions, 2 kernel pages, up to two holders per page. Commit, take, uncommit, allocate with both reclaim tiers, and contiguous allocation with failure keep the counters exact and back every commitment. The only reachable panic is the reclaim VERIFY with a shared page. A failed or destroyed `allocate_kernel_region` gives back its reservation. |
| ledger_reclaim_panic | MCFrameLedger_reclaim.cfg | violation of NoPanic | Shared pages make reclaim free nothing, and `VERIFY(page)` panics. |
| walker_release_window | MCPageTableWalker_smp.cfg | violation of WalkedTablesRefineAddressSpace | One CPU empties d1's only table and hands the frame back at 643. Before it clears the entry at 644, the frame is populated as a VMObject page, and d1's still-present entry walks into the object's data. |
| walker_purge | MCPageTableWalker_purge.cfg | pass | A purge that walks another directory's tables inside `ensure_pte`. The `did_purge` re-quickmap keeps the holder's-view refinement, a missed flush, quickmap or zero fill breaks it, emptied tables are released, frames are owned once, and every operation completes under weak fairness. |
| walker_lock_order | MCPageTableWalker_lockorder.cfg | violation of NoLockCycle | Directory lock then global lock on one CPU, global lock then directory lock on the other. |
| parse_map | MCMemoryMapParse.cfg | pass | For all ordered maps of up to 2 entries in a 16-page space, and three kernel-image placements, the regions avoid the used ranges and do not overlap. The frame array is sized, stolen, accounted for and mapped correctly, and never onto the image's directories. The boot protection loops then give each image page exactly its section's access. |
| parse_hole_merge | MCMemoryMapParse_hole.cfg | violation of RegionsWithinUsable | A one-page hole between two available entries becomes region memory. |
| parse_reserved | MCMemoryMapParse_reserved.cfg | violation of ReadableExactlyReserved | A reserved entry at address 0 is dropped. |
| function_reentrancy | MCAKFunction.cfg | pass | Two Functions, a pointer, an inline and an out-of-line callable, calls nested twice. Re-entrant clears, assignments and moves never free a running wrapper or share one. |
| function_inline_move_leak | MCAKFunction_leak.cfg | violation of NoOrphanWrapper | Moving an inline Function never destroys the moved-from wrapper. |
| sha2_padding | SHA2Buffer.cfg | pass | For SHA256, SHA384 and SHA512, every chunking of every message of up to 9 bytes hashes the reference padding, in one block or spilled into two, and gives the class's digest size. |
| idb_open | IDBOpen.cfg | pass | Three open() calls with versions 1, 2 or none, in every interleaving with event dispatch and script closes that the nested spins allow. Upgrades never overlap an older open connection, and upgradeneeded reports the old version. States where nested spins hang have no successor, so deadlock is not checked. |

Every property of a passing run has a mutant in PROJECT.json: a plausible
bug in one mapped definition that TLC catches under the same cfg. Each mutant
variant is defined just before the definition it varies.

## 4. Bounds and why they are enough

**Ledger:**
- Three frames in two regions (`{1, 2}` and `{3}`), so the first-region-with-a-free-page loop matters and a contiguous run of two fits only in the first region. The violation run keeps five frames (`{1, 2, 3}`, `{4, 5}`).
- Two kernel pages, kernel Regions of up to 2 pages: two one-page Regions can compete for the range, a two-page Region or cleanup region needs all of it.
- Two threads, one purgeable and one inode object.
- Commitments of up to 2 pages, contiguous runs of up to 2 pages, up to 2 holders of a page.

These bounds reach every tier of `allocate_physical_page`, exhaustion of the
uncommitted pool by commitments, and the failure path of contiguous
allocation. Symmetry over threads is sound because the threads are
interchangeable.

**Walker:**
- Two page tables' worth of slots, each table with 2 entries. PTSize - 1 plays 0x1ff, so a 2-page range crosses a table boundary.
- Two directories.
- 2 or 3 frames, so one table exhausts memory once an object holds a page.
- One CPU in the passing run: the quickmap windows and TLB are per CPU, so stale-window bugs need only one, and the second CPU's effect on the tables goes through the free lists, which `PopulateObject` also takes frames from. Two CPUs make the lock-order and release-window runs.

The call-local state (`job`, `tier`, `didPurge`) is reset when the call ends,
as its C++ counterpart goes out of scope.

**Parser, in the violation runs:**
- 8 pages of 4 units.
- Entry starts on every even unit, so both aligned and unaligned entries occur.
- Lengths 1, 4 and 8.
- Up to 3 entries.
- Used ranges at the first page (x86_64 low memory) and the fifth (the kernel image).

**Parser and bootstrap, in parse_map:**
- 16 pages.
- Lengths up to 32 units, so one region can hold an array with its page tables.
- Up to 2 entries.
- A directory entry spans 2 page-table pages (`PteSize` 2).
- Kernel images that start and end on and off directory boundaries, with room for the array below the image, above it, or nowhere. Both outcomes of `place_anywhere` occur.
- Ten kernel virtual pages for the protection steps: the prekernel's in pages 0-2, the image from page 3. There are two layouts, with page-aligned section starts (the linker script aligns its sections). Section ends fall both on and off page boundaries, so the rounding and the inclusive end of `unmap_prekernel` matter. `.unmap_after_init` sits at the end of text in one layout and in its middle in the other, so a text loop a page short shows.

Maps end at least a page below the top of the address space, since physical
addresses are at most 52 bits wide.

**AK::Function:**
- Two Functions and three callables (a pointer, one inline, one out of line).
- Nesting depth 2, enough for a call that clears its own Function while another call is running.
- 4 wrappers in total.

**SHA-2:**
- SHA256 with 4-byte blocks and a 2-byte length field, so `FinalBlockDataSize` = 2 plays 56 of 64.
- SHA384/SHA512 with 8-byte blocks and a 4-byte length field above a 2-byte counter, so the field's upper half, which the code zeroes, is there to get wrong.
- Messages of up to 9 bytes in chunks of up to 5, so a message fills blocks exactly, spills, or ends just before or at the length field.
- The byte values 0x00 and 0x80, so data bytes can look like padding.

**IndexedDB:**
- Three requests, enough for one open to wait on two others' connections, or for a third to queue behind an upgrade.
- Versions 1 and 2 plus undefined, covering upgrade, equal version, VersionError and the defaulting of step 5.

## 5. Fairness

`PageTableWalker` assumes weak fairness of each CPU's own steps. The
operation runs with interrupts disabled and spins on the locks it needs, so
it keeps running while a step is enabled. Starting new operations and
populating VMObjects are not forced.

`IDBOpen`'s Spec states weak fairness of the event loop, of each request's
algorithm leaving its spins, and of a script closing a connection that has
received versionchange. No run checks a liveness property of it. The
fairness is there for `OpensComplete`, which fails anyway (section 6).

The other runs check only safety.

## 6. Findings

See `findings` in PROJECT.json. In short:
- The reclaim tiers count pages dropped, not pages freed, so `VERIFY(page)` can panic instead of returning ENOMEM (line 992, and 977 for purge).
- The directory-lock / global-lock order is inverted by a purge that remaps regions.
- `release_pte` frees an emptied page table (643) before it clears the directory entry that hooks it (644). In between, another CPU can allocate the frame and write to it while the entry still leads the MMU into it.
- The inclusive page loop plus the merge test fold one-page holes into PhysicalRegions.
- A reserved entry at address 0 is lost to the null sentinel.
- Moving an inline `AK::Function` never runs the moved-from wrapper's destructor.

Two more disagreements are listed as hazards, not as runs.

Nested spins (Algorithms.cpp:31). An `open()` made while another open
waits at step 10.5 runs inside that wait. It spins at step 3 until the
outer request is processed, but the outer algorithm cannot return until the
inner spin does. Both hang, even though scripts close connections on
versionchange and the event loop is fair. To reproduce: check `IDBOpen.cfg`
with `OpensComplete` as its only PROPERTY. TLC reports an 11-step
counterexample: open(1) with version 1 succeeds; open(2) with version 2
waits for connection 1; open(3) is made; versionchange closes connection 1.

Stale oldVersion (Algorithms.cpp:78). The versionchange and blocked tasks read `db->version()` when they run,
not when they are queued. Suppose the other connections close before those
tasks run, for example in an upgradeneeded handler. Then the upgrade has
already set the new version, and the events report oldVersion equal to
newVersion. To reproduce: check `IDBOpen.cfg` with
`VersionChangeReportsOldVersion` as its only invariant. TLC reports a
9-step counterexample.

## 7. Not modelled, and the plan

- `quickmap_page` / `unquickmap_page` as separate steps, and the `m_quickmap_in_use` spinlock. The page window is mapped, used and cleared (with a flush) within one atomic step, and the lock only guards against re-entry on the same CPU, which nothing in the modelled code does. The TLB never evicts an entry on its own in the model.
- The other kernel-region allocators: `allocate_contiguous_kernel_region`, `allocate_kernel_region(paddr)`, `allocate_kernel_region_with_vmobject`, the DMA buffer wrappers (763-800, 818-845) and `create_identity_mapped_region`. They differ from the modelled one only in where the VMObject's pages come from. `place_specifically`, and the RegionTree's internal layout, are not modelled either.
- `handle_page_fault` routing, `validate_syscall_preconditions` and `validate_user_stack` (661-761, 1138-1145). They change no state. They compare the address with the exact linker-symbol ranges, then look it up in the RegionTree or the process's AddressSpace, and hand the fault to `Region::handle_fault`; none of these three is in `src/`. A model would only restate the range tests. What the page tables do for those ranges is `ImageProtectionExact`.
- The MemoryManager constructor's `commit_physical_pages(2)` and two `take_one()` calls (86-105). FrameLedger models those operations in general, and boot runs them once before any other allocator is live.
- What a page left unprotected would let happen: the page-fault classification in `handle_page_fault` and the symbolication of the panic (732-761).
- IndexedDB: object stores, non-open requests, and transactions beyond the creation of the upgrade transaction. How many tasks one pump of the event loop runs: the model lets a spin return as soon as its condition holds.
- SHA-2's compression functions, round constants and initial hash values: `transform()` is a data transformation, represented by the block it absorbs, so the model tells SHA384 from SHA512 only by digest size.
- Logging, the QEMU 12 GiB reserved-range exception, and the three-level page directory pointer table (fixed at boot).
