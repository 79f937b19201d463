-------------------------- MODULE PageTableWalker --------------------------
(***************************************************************************)
(* MemoryManager::pte, ensure_pte and release_pte, with the per-CPU        *)
(* quickmap_pd window they write page-directory entries through, the      *)
(* per-directory spinlock their callers hold, and the global lock taken by *)
(* allocate_physical_page when ensure_pte needs a fresh page table.        *)
(*                                                                         *)
(* A virtual page is its index va; its page-directory entry is            *)
(* va \div PTSize and its page-table index va % PTSize, so PTSize - 1      *)
(* plays the part of 0x1ff.  A page directory's entries are reached only   *)
(* through the CPU's pd window: a write lands in whichever directory the   *)
(* window maps at that moment.                                             *)
(*                                                                         *)
(* The callers are Region::map / Region::unmap style loops: a CPU locks a  *)
(* directory, runs ensure_pte and sets the leaf, or release_pte with       *)
(* IsLastPTERelease::Yes on the last page, for each page of a range, then  *)
(* unlocks.  When allocate_physical_page finds no free frame it reclaims   *)
(* from a purgeable object (did_purge) or an inode object; a reclaim tier  *)
(* in ReclaimWalks remaps the object's regions, which walks the page       *)
(* tables of that region's directory on this CPU under that directory's    *)
(* lock.                                                                   *)
(***************************************************************************)
EXTENDS Naturals, FiniteSets

CONSTANTS
    CPUs,          \* processors
    Dirs,          \* page directories
    PDSize,        \* page-directory entries modelled per directory
    PTSize,        \* entries per page table
    Frames,        \* physical frames that can become page tables
    MaxRange,      \* most pages one caller maps or unmaps under one lock
    ReclaimWalks,  \* reclaim tiers whose remap walks page tables: \subseteq {"purge", "clean"}
    NoFrame, NoCPU

ASSUME /\ PDSize \in Nat \ {0} /\ PTSize \in Nat \ {0} /\ MaxRange \in Nat \ {0}
       /\ ReclaimWalks \subseteq {"purge", "clean"}

VAs == 0 .. (PDSize * PTSize - 1)
Slot(va) == va \div PTSize     \* (vaddr >> 21) & 0x1ff
Index(va) == va % PTSize       \* (vaddr >> 12) & 0x1ff
LastIndex == PTSize - 1        \* 0x1ff

VARIABLES
    pde,        \* pde[d][s]: the page table hooked into entry s of directory d
    pte,        \* pte[t][i]: leaf entry i of page table frame t is non-null
    free,       \* frames on the physical free lists
    purgeable,  \* frames held by purgeable volatile AnonymousVMObjects
    clean,      \* clean frames held by InodeVMObjects
    win,        \* win[c].pd, win[c].pt: what the PTEs of CPU c's quickmap_pd
                \* and quickmap_pt windows point at (a directory, a frame)
    tlb,        \* tlb[c].pd, tlb[c].pt: the translations of those windows
                \* c's TLB holds, NoFrame when it holds none
    dirLock,    \* dirLock[d]: CPU holding PageDirectory::get_lock()
    globalLock, \* CPU inside m_global_data.with(...)
    pc,         \* where each CPU is in its caller loop
    job,        \* job[c]: [dir, cur, hi] of the range being mapped or unmapped
    tier,       \* reclaim tier allocate_physical_page is running for c
    newTable,   \* page table frame ensure_pte has allocated, not yet hooked
    didPurge    \* the did_purge out-parameter of allocate_physical_page

vars == <<pde, pte, free, purgeable, clean, win, tlb, dirLock, globalLock,
          pc, job, tier, newTable, didPurge>>

PCs == {"idle", "map", "alloc", "reclaim", "install", "unmap", "unhook", "done"}

-----------------------------------------------------------------------------
(* The quickmap_pd and quickmap_pt windows.  Each CPU has its own PTE in *)
(* boot_pd_kernel_pt1023 for each; only that CPU rewrites it, and the PTEs *)
(* are never cleared, so a window keeps its target between steps.  An     *)
(* access goes through the TLB, which is filled from the PTE when it holds *)
(* no entry for the window.  quickmap_page's window is cleared and flushed *)
(* by unquickmap_page in the same step that maps it, so it carries no      *)
(* state and is left out.                                                  *)
Windows == {"pd", "pt"}

\* Variant: the PTE is rewritten but flush_tlb_local is not called.
ReachNoFlush(c, w, x) == IF tlb[c][w] = NoFrame THEN x ELSE tlb[c][w]

\* Where an access through window w of c lands after quickmap onto x: when
\* the PTE's base differs it is rewritten and flush_tlb_local drops the
\* TLB entry, so the access reaches x; when it matches, nothing is written
\* or flushed and the access goes through whatever the TLB holds.
Reach(c, w, x) == IF win[c][w] # x \/ tlb[c][w] = NoFrame THEN x ELSE tlb[c][w]

\* Where an access through window w lands without a new quickmap.
Current(c, w) == IF tlb[c][w] = NoFrame THEN win[c][w] ELSE tlb[c][w]

\* The step quickmaps the windows of c onto m (window |-> target) and
\* accesses them: the PTEs take the targets and the TLB keeps the
\* translations the accesses used.
Quickmap(c, m) ==
    /\ win' = [win EXCEPT ![c] = [w \in Windows |-> IF w \in DOMAIN m THEN m[w] ELSE @[w]]]
    /\ tlb' = [tlb EXCEPT ![c] = [w \in Windows |->
                                     IF w \in DOMAIN m THEN Reach(c, w, m[w]) ELSE @[w]]]

\* MemoryManager::pte(page_directory, vaddr): the leaf entry, or nullptr
\* when the page-directory entry is not present.
\* The entry lives in table PteLookup(d, va) at Index(va).
PteLookup(d, va) == pde[d][Slot(va)]

\* The translations the tables of d hold.
Mapped(d) == {va \in VAs : PteLookup(d, va) # NoFrame /\ pte[PteLookup(d, va)][Index(va)]}

\* The page-directory entry for va read by c through its pd window after
\* quickmap_pd(d): the page table it points at, or NoFrame.
TableAt(c, d, va) == pde[Reach(c, "pd", d)][Slot(va)]

\* The windows a Region::remap of directory rd's regions leaves behind:
\* the pd window on rd and the pt window on one of rd's page tables.
RemapWindows(rd) ==
    {[pd |-> rd]} \cup {[pd |-> rd, pt |-> t] : t \in {pde[rd][s] : s \in DOMAIN pde[rd]} \ {NoFrame}}

\* Variant: the loop tests cur > hi after incrementing, one page too far.
AdvancePastEnd(c, back) ==
    IF job[c].cur > job[c].hi
    THEN /\ pc' = [pc EXCEPT ![c] = "done"]
         /\ UNCHANGED job
    ELSE /\ job' = [job EXCEPT ![c].cur = @ + 1]
         /\ pc' = [pc EXCEPT ![c] = back]

\* The caller's loop moves to the next page of its range, or leaves it.
Advance(c, back) ==
    IF job[c].cur = job[c].hi
    THEN /\ pc' = [pc EXCEPT ![c] = "done"]
         /\ UNCHANGED job
    ELSE /\ job' = [job EXCEPT ![c].cur = @ + 1]
         /\ pc' = [pc EXCEPT ![c] = back]

Lowest(S) == CHOOSE f \in S : \A g \in S : f <= g

\* Variant: the frame is handed out with ShouldZeroFill::No.
NotZeroFilled(t) == pte

\* quickmap_page(page), memset(ptr, 0, PAGE_SIZE), unquickmap_page().
ZeroFilled(t) == [pte EXCEPT ![t] = [i \in 0 .. LastIndex |-> FALSE]]

\* The caller's range and allocate_physical_page's tier are locals: no
\* value survives the call.
NoJob == [dir |-> CHOOSE d \in Dirs : TRUE, cur |-> 0, hi |-> 0]
NoTier == [kind |-> "none", dir |-> CHOOSE d \in Dirs : TRUE]

-----------------------------------------------------------------------------
Init ==
    /\ pde = [d \in Dirs |-> [s \in 0 .. (PDSize - 1) |-> NoFrame]]
    /\ pte = [t \in Frames |-> [i \in 0 .. LastIndex |-> FALSE]]
    /\ free = Frames
    /\ purgeable = {}
    /\ clean = {}
    /\ win = [c \in CPUs |-> [w \in Windows |-> NoFrame]]
    /\ tlb = [c \in CPUs |-> [w \in Windows |-> NoFrame]]
    /\ dirLock = [d \in Dirs |-> NoCPU]
    /\ globalLock = NoCPU
    /\ pc = [c \in CPUs |-> "idle"]
    /\ job = [c \in CPUs |-> NoJob]
    /\ tier = [c \in CPUs |-> NoTier]
    /\ newTable = [c \in CPUs |-> NoFrame]
    /\ didPurge = [c \in CPUs |-> FALSE]

\* A caller takes SpinlockLocker page_lock(page_directory.get_lock()) and
\* starts mapping (Region::map) or unmapping (Region::unmap) pages lo..hi.
Begin(c, d, kind, lo, hi) ==
    /\ pc[c] = "idle"
    /\ dirLock[d] = NoCPU
    /\ dirLock' = [dirLock EXCEPT ![d] = c]
    /\ job' = [job EXCEPT ![c] = [dir |-> d, cur |-> lo, hi |-> hi]]
    /\ pc' = [pc EXCEPT ![c] = kind]
    /\ UNCHANGED <<pde, pte, free, purgeable, clean, win, tlb, globalLock,
                   tier, newTable, didPurge>>

\* ensure_pte when the page-directory entry is present: quickmap_pd,
\* quickmap_pt, and the caller sets the returned leaf entry.
EnsurePtePresent(c) ==
    LET d == job[c].dir  va == job[c].cur  t == TableAt(c, d, va) IN
    /\ pc[c] = "map"
    /\ t # NoFrame
    /\ Quickmap(c, [pd |-> d, pt |-> t])
    /\ pte' = [pte EXCEPT ![Reach(c, "pt", t)][Index(va)] = TRUE]
    /\ Advance(c, "map")
    /\ UNCHANGED <<pde, free, purgeable, clean, dirLock, globalLock, tier,
                   newTable, didPurge>>

\* Variant: the pd window is assumed to still map d and is not remapped.
EnsurePteAbsentNoQuickmap(c) ==
    LET d == job[c].dir  va == job[c].cur IN
    /\ pc[c] = "map"
    /\ pde[d][Slot(va)] = NoFrame
    /\ pc' = [pc EXCEPT ![c] = "alloc"]
    /\ UNCHANGED <<pde, pte, free, purgeable, clean, win, tlb, dirLock, globalLock,
                   job, tier, newTable, didPurge>>

\* ensure_pte when the entry is absent: the pd window now maps d and the
\* pde reference points into it; a page table must be allocated.
EnsurePteAbsent(c) ==
    LET d == job[c].dir  va == job[c].cur IN
    /\ pc[c] = "map"
    /\ TableAt(c, d, va) = NoFrame
    /\ Quickmap(c, [pd |-> d])
    /\ pc' = [pc EXCEPT ![c] = "alloc"]
    /\ UNCHANGED <<pde, pte, free, purgeable, clean, dirLock, globalLock,
                   job, tier, newTable, didPurge>>

\* allocate_physical_page(ShouldZeroFill::Yes, &did_purge) called by
\* ensure_pte, under the global lock: a free frame, zero-filled ...
AllocateFromFreeList(c) ==
    /\ pc[c] = "alloc"
    /\ globalLock = NoCPU
    /\ free # {}
    /\ newTable' = [newTable EXCEPT ![c] = Lowest(free)]
    /\ free' = free \ {Lowest(free)}
    /\ pte' = ZeroFilled(Lowest(free))
    /\ didPurge' = [didPurge EXCEPT ![c] = FALSE]
    /\ pc' = [pc EXCEPT ![c] = "install"]
    /\ UNCHANGED <<pde, purgeable, clean, win, tlb, dirLock, globalLock,
                   job, tier>>

\* ... or, with the free lists empty, the lock is kept for a reclaim pass:
\* the first purgeable volatile object with pages, else the first inode
\* object with a clean page.  rd is the directory of the object's regions.
AllocateNeedsReclaim(c, rd) ==
    /\ pc[c] = "alloc"
    /\ globalLock = NoCPU
    /\ free = {}
    /\ purgeable \cup clean # {}
    /\ globalLock' = c
    /\ tier' = [tier EXCEPT ![c] = [kind |-> IF purgeable # {} THEN "purge" ELSE "clean",
                                    dir |-> rd]]
    /\ pc' = [pc EXCEPT ![c] = "reclaim"]
    /\ UNCHANGED <<pde, pte, free, purgeable, clean, win, tlb, dirLock,
                   job, newTable, didPurge>>

\* ... or ENOMEM: ensure_pte returns nullptr and the caller gives up.
AllocateOutOfMemory(c) ==
    /\ pc[c] = "alloc"
    /\ globalLock = NoCPU
    /\ free \cup purgeable \cup clean = {}
    /\ pc' = [pc EXCEPT ![c] = "done"]
    /\ UNCHANGED <<pde, pte, free, purgeable, clean, win, tlb, dirLock,
                   globalLock, job, tier, newTable, didPurge>>

\* The reclaim pass: purge() drops every page of the object, or
\* try_release_clean_pages(1) drops one; a tier in ReclaimWalks remaps the
\* object's regions (Region::remap under the lock of directory rd), which
\* leaves this CPU's pd window on rd.  find_free_physical_page then takes
\* a freed frame, zero-filled; purged_pages becomes the did_purge result.
Reclaim(c) ==
    LET k     == tier[c].kind
        rd    == tier[c].dir
        freed == IF k = "purge" THEN purgeable ELSE {Lowest(clean)}
    IN
    /\ pc[c] = "reclaim"
    /\ k \in ReclaimWalks => dirLock[rd] \in {NoCPU, c}
    /\ IF k \in ReclaimWalks
       THEN \E m \in RemapWindows(rd) : Quickmap(c, m)
       ELSE UNCHANGED <<win, tlb>>
    /\ purgeable' = purgeable \ freed
    /\ clean' = clean \ freed
    /\ newTable' = [newTable EXCEPT ![c] = Lowest(freed)]
    /\ free' = freed \ {Lowest(freed)}
    /\ pte' = ZeroFilled(Lowest(freed))
    /\ didPurge' = [didPurge EXCEPT ![c] = (k = "purge")]
    /\ globalLock' = NoCPU
    /\ tier' = [tier EXCEPT ![c] = NoTier]
    /\ pc' = [pc EXCEPT ![c] = "install"]
    /\ UNCHANGED <<pde, dirLock, job>>

\* Variant: the pde is written through the window without re-quickmapping.
InstallWithoutRequickmap(c) ==
    LET va == job[c].cur  t == newTable[c] IN
    /\ pc[c] = "install"
    /\ Quickmap(c, [pt |-> t])
    /\ pde' = [pde EXCEPT ![Current(c, "pd")][Slot(va)] = t]
    /\ pte' = [pte EXCEPT ![Reach(c, "pt", t)][Index(va)] = TRUE]
    /\ newTable' = [newTable EXCEPT ![c] = NoFrame]
    /\ Advance(c, "map")
    /\ UNCHANGED <<free, purgeable, clean, dirLock, globalLock, tier, didPurge>>

\* The rest of ensure_pte: if did_purge, quickmap_pd(page_directory) again;
\* then the pde is written through the pd window, the page table is
\* quickmapped, and the caller sets the leaf entry.
InstallPageTable(c) ==
    LET d   == job[c].dir
        va  == job[c].cur
        t   == newTable[c]
        pdv == IF didPurge[c] THEN Reach(c, "pd", d) ELSE Current(c, "pd")
    IN
    /\ pc[c] = "install"
    /\ Quickmap(c, IF didPurge[c] THEN [pd |-> d, pt |-> t] ELSE [pt |-> t])
    /\ pde' = [pde EXCEPT ![pdv][Slot(va)] = t]
    /\ pte' = [pte EXCEPT ![Reach(c, "pt", t)][Index(va)] = TRUE]
    /\ newTable' = [newTable EXCEPT ![c] = NoFrame]
    /\ Advance(c, "map")
    /\ UNCHANGED <<free, purgeable, clean, dirLock, globalLock, tier, didPurge>>

\* release_pte(page_directory, vaddr, is_last_pte_release).
IsLastPTERelease(c) == job[c].cur = job[c].hi

\* Variant: the table is scanned only at index 0x1ff.
ScanOnlyAtTableEnd(c) == Index(job[c].cur) = LastIndex

\* The leaf is cleared; the table is scanned only on the last release of the
\* range or at index 0x1ff.
ScanDue(c) == IsLastPTERelease(c) \/ Index(job[c].cur) = LastIndex

ClearedTable(c, t) == [pte[t] EXCEPT ![Index(job[c].cur)] = FALSE]

TableNowEmpty(c, t) == \A i \in 0 .. LastIndex : ~ClearedTable(c, t)[i]

\* Variant: the caller's loop retries the page instead of moving on.
ReleasePteAbsentStalled(c) ==
    /\ pc[c] = "unmap"
    /\ TableAt(c, job[c].dir, job[c].cur) = NoFrame
    /\ Quickmap(c, [pd |-> job[c].dir])
    /\ UNCHANGED <<pde, pte, free, purgeable, clean, dirLock, globalLock,
                   pc, job, tier, newTable, didPurge>>

\* release_pte when the pde is absent: nothing to do.
ReleasePteAbsent(c) ==
    /\ pc[c] = "unmap"
    /\ TableAt(c, job[c].dir, job[c].cur) = NoFrame
    /\ Quickmap(c, [pd |-> job[c].dir])
    /\ Advance(c, "unmap")
    /\ UNCHANGED <<pde, pte, free, purgeable, clean, dirLock, globalLock,
                   tier, newTable, didPurge>>

\* release_pte clearing the leaf and keeping the table.
ReleasePteKeepTable(c) ==
    LET t == TableAt(c, job[c].dir, job[c].cur)  tv == Reach(c, "pt", t) IN
    /\ pc[c] = "unmap"
    /\ t # NoFrame
    /\ ~(ScanDue(c) /\ TableNowEmpty(c, tv))
    /\ Quickmap(c, [pd |-> job[c].dir, pt |-> t])
    /\ pte' = [pte EXCEPT ![tv] = ClearedTable(c, tv)]
    /\ Advance(c, "unmap")
    /\ UNCHANGED <<pde, free, purgeable, clean, dirLock, globalLock, tier,
                   newTable, didPurge>>

\* Variant: the leaked reference is never dropped; the frame stays out of
\* the free lists.
ReleasePteUnrefLeaking(c) ==
    LET t == TableAt(c, job[c].dir, job[c].cur)  tv == Reach(c, "pt", t) IN
    /\ pc[c] = "unmap"
    /\ t # NoFrame
    /\ ScanDue(c) /\ TableNowEmpty(c, tv)
    /\ globalLock = NoCPU
    /\ Quickmap(c, [pd |-> job[c].dir, pt |-> t])
    /\ pte' = [pte EXCEPT ![tv] = ClearedTable(c, tv)]
    /\ pc' = [pc EXCEPT ![c] = "unhook"]
    /\ UNCHANGED <<pde, free, purgeable, clean, dirLock, globalLock, job, tier,
                   newTable, didPurge>>

\* release_pte finding the table all clear, first half (643): the leaked
\* reference is dropped, and unref() gives the frame back through
\* deallocate_physical_page, which takes the global lock, returns the page
\* to its region and lets the lock go.  The pde still hooks the frame.
ReleasePteUnref(c) ==
    LET t == TableAt(c, job[c].dir, job[c].cur)  tv == Reach(c, "pt", t) IN
    /\ pc[c] = "unmap"
    /\ t # NoFrame
    /\ ScanDue(c) /\ TableNowEmpty(c, tv)
    /\ globalLock = NoCPU
    /\ Quickmap(c, [pd |-> job[c].dir, pt |-> t])
    /\ pte' = [pte EXCEPT ![tv] = ClearedTable(c, tv)]
    /\ free' = free \cup {t}
    /\ pc' = [pc EXCEPT ![c] = "unhook"]
    /\ UNCHANGED <<pde, purgeable, clean, dirLock, globalLock, job, tier,
                   newTable, didPurge>>

\* Second half (644): pde.clear() through the pd window, which nothing has
\* moved since the first half; the caller's loop goes on.
ReleasePteUnhook(c) ==
    /\ pc[c] = "unhook"
    /\ pde' = [pde EXCEPT ![Current(c, "pd")][Slot(job[c].cur)] = NoFrame]
    /\ Advance(c, "unmap")
    /\ UNCHANGED <<pte, free, purgeable, clean, win, tlb, dirLock, globalLock,
                   tier, newTable, didPurge>>

\* The caller's SpinlockLocker goes out of scope.
Finish(c) ==
    /\ pc[c] = "done"
    /\ dirLock' = [dirLock EXCEPT ![job[c].dir] = NoCPU]
    /\ pc' = [pc EXCEPT ![c] = "idle"]
    /\ job' = [job EXCEPT ![c] = NoJob]
    /\ didPurge' = [didPurge EXCEPT ![c] = FALSE]
    /\ UNCHANGED <<pde, pte, free, purgeable, clean, win, tlb, globalLock,
                   tier, newTable>>

\* Elsewhere, a VMObject is populated from the free lists (under the global
\* lock), giving the reclaim tiers something to reclaim.
PopulateObject ==
    /\ globalLock = NoCPU
    /\ \E f \in free :
         /\ free' = free \ {f}
         /\ pte' = [pte EXCEPT ![f] = [i \in 0 .. LastIndex |-> TRUE]]
         /\ \/ purgeable' = purgeable \cup {f} /\ UNCHANGED clean
            \/ clean' = clean \cup {f} /\ UNCHANGED purgeable
    /\ UNCHANGED <<pde, win, tlb, dirLock, globalLock, pc, job, tier,
                   newTable, didPurge>>

Step(c) ==
    \/ EnsurePtePresent(c)
    \/ EnsurePteAbsent(c)
    \/ AllocateFromFreeList(c)
    \/ \E rd \in Dirs : AllocateNeedsReclaim(c, rd)
    \/ AllocateOutOfMemory(c)
    \/ Reclaim(c)
    \/ InstallPageTable(c)
    \/ ReleasePteAbsent(c)
    \/ ReleasePteKeepTable(c)
    \/ ReleasePteUnref(c)
    \/ ReleasePteUnhook(c)
    \/ Finish(c)

Next ==
    \/ \E c \in CPUs, d \in Dirs, kind \in {"map", "unmap"}, lo, hi \in VAs :
           lo <= hi /\ hi - lo < MaxRange /\ Begin(c, d, kind, lo, hi)
    \/ \E c \in CPUs : Step(c)
    \/ PopulateObject

\* A CPU inside an operation runs with interrupts disabled and keeps
\* executing its own code; the caller starting a new operation is not forced.
Fairness == \A c \in CPUs : WF_vars(Step(c))

Spec == Init /\ [][Next]_vars /\ Fairness

-----------------------------------------------------------------------------
Slots == 0 .. (PDSize - 1)

TypeOK ==
    /\ pde \in [Dirs -> [Slots -> Frames \cup {NoFrame}]]
    /\ pte \in [Frames -> [0 .. LastIndex -> BOOLEAN]]
    /\ free \cup purgeable \cup clean \subseteq Frames
    /\ win \in [CPUs -> [pd : Dirs \cup {NoFrame}, pt : Frames \cup {NoFrame}]]
    /\ tlb \in [CPUs -> [pd : Dirs \cup {NoFrame}, pt : Frames \cup {NoFrame}]]
    /\ dirLock \in [Dirs -> CPUs \cup {NoCPU}]
    /\ globalLock \in CPUs \cup {NoCPU}
    /\ pc \in [CPUs -> PCs]
    /\ job \in [CPUs -> [dir : Dirs, cur : VAs, hi : VAs]]
    /\ tier \in [CPUs -> [kind : {"none", "purge", "clean"}, dir : Dirs]]
    /\ newTable \in [CPUs -> Frames \cup {NoFrame}]
    /\ didPurge \in [CPUs -> BOOLEAN]

\* Entry s of directory d is between the two halves of a table release:
\* the CPU holding d's lock has handed the frame back and not yet cleared
\* the pde.  Code running under d's lock never reads the entry again.
Unhooking(d, s) ==
    \E c \in CPUs : pc[c] = "unhook" /\ job[c].dir = d /\ Slot(job[c].cur) = s

\* The translations of d as code holding d's lock sees them: the release
\* takes effect when the frame is handed back (643).
MappedForHolder(d) ==
    {va \in Mapped(d) : ~Unhooking(d, Slot(va))}

\* Refinement: seen by the code that holds the directory lock, the tables
\* implement AddressSpaceMap.  Every step of ensure_pte, release_pte and
\* the reclaim they trigger changes the translation of at most the one
\* page being mapped or unmapped, and only in the directory whose lock
\* the CPU holds: no write through a quickmap window lands in another
\* directory's tables.
AS == INSTANCE AddressSpaceMap
          WITH mapped <- [d \in Dirs |-> MappedForHolder(d)], holder <- dirLock

RefinesAddressSpace == AS!Spec

\* The same promise for what the MMU walks: the tables reachable from each
\* directory's entries change only in steps of the CPU that holds that
\* directory's lock.  release_pte returns an emptied table frame (643)
\* before it clears the entry that hooks it (644).
HW == INSTANCE AddressSpaceMap
          WITH mapped <- [d \in Dirs |-> Mapped(d)], holder <- dirLock

WalkedTablesRefineAddressSpace == HW!Spec

\* The lazy scan of release_pte (only on the last release of a range or at
\* index 0x1ff) still frees every page table it empties: once no CPU holds a
\* directory's lock, each present page-directory entry of it points to a
\* table with at least one non-null entry.
EmptyTablesReleased ==
    \A d \in Dirs : dirLock[d] = NoCPU =>
        \A s \in Slots : pde[d][s] # NoFrame =>
            \E i \in 0 .. LastIndex : pte[pde[d][s]][i]

\* The leak_ref in ensure_pte is matched by exactly one unref in
\* release_pte: each frame is in exactly one place, free, held by a
\* VMObject, just allocated by ensure_pte, or hooked into exactly one
\* page-directory entry of one directory that is not being released.
Hooks(f) == {ds \in Dirs \X Slots : pde[ds[1]][ds[2]] = f /\ ~Unhooking(ds[1], ds[2])}

TableFramesOwned ==
    \A f \in Frames :
        Cardinality(Hooks(f)) + Cardinality({c \in CPUs : newTable[c] = f})
          + Cardinality({S \in {free, purgeable, clean} : f \in S}) = 1

\* Every map or unmap a CPU starts finishes and unlocks the directory.
OperationsComplete == \A c \in CPUs : pc[c] # "idle" ~> pc[c] = "idle"

\* Lock order: a CPU waits for the global lock while holding its directory
\* lock (ensure_pte -> allocate_physical_page, release_pte -> unref), and a
\* reclaim that remaps regions waits for a directory lock while holding the
\* global lock.  No two CPUs ever wait for each other.
WaitsFor(a, b) ==
    \/ pc[a] = "alloc" /\ globalLock = b
    \/ /\ pc[a] = "unmap" /\ PteLookup(job[a].dir, job[a].cur) # NoFrame
       /\ ScanDue(a) /\ TableNowEmpty(a, PteLookup(job[a].dir, job[a].cur))
       /\ globalLock = b
    \/ pc[a] = "reclaim" /\ tier[a].kind \in ReclaimWalks /\ dirLock[tier[a].dir] = b

NoLockCycle == \A a, b \in CPUs : a # b => ~(WaitsFor(a, b) /\ WaitsFor(b, a))
=============================================================================
