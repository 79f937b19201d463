---------------------------- MODULE FrameLedger ----------------------------
(***************************************************************************)
(* The physical-frame accounting of Kernel/Memory/MemoryManager.cpp: the   *)
(* four counters of GlobalData::system_memory_info, the free lists of the  *)
(* physical regions, the reference holders of each PhysicalPage, the      *)
(* CommittedPhysicalPageSet tokens held by threads, and the two-tier       *)
(* reclaim that allocate_physical_page runs when no frame is free.         *)
(*                                                                         *)
(* Every operation below runs inside m_global_data.with(...), so each is   *)
(* one atomic step; the only operation split in two is                     *)
(* allocate_contiguous_physical_pages, whose kernel-region mapping runs    *)
(* after the global lock is dropped.                                       *)
(***************************************************************************)
EXTENDS Naturals, FiniteSets, Sequences

CONSTANTS
    Frames,         \* physical page indices, e.g. 1..5
    RegionFrames,   \* sequence: the frames of physical_regions[i], in order
    Threads,        \* kernel threads calling into the allocator
    PurgeObjs,      \* purgeable AnonymousVMObjects
    InodeObjs,      \* InodeVMObjects (file-backed, clean pages)
    MaxCommit,      \* largest page_count passed to commit_physical_pages
    MaxContig,      \* largest page count passed to allocate_contiguous_physical_pages
    MaxRefs,        \* most holders of one PhysicalPage at a time
    NoFrame,        \* the null RefPtr<PhysicalPage>
    KernelPages,    \* pages of the kernel range the RegionTree places regions in
    MaxKRegion      \* largest size, in pages, passed to allocate_kernel_region

Objects == PurgeObjs \cup InodeObjs
Holders == Threads \cup Objects

\* The AnonymousVMObject behind the kernel Region that thread t allocates.
KObj(t) == <<"vmobject", t>>
KObjs == {KObj(t) : t \in Threads}

\* How the Region's memory is provided: the AllocationStrategy of
\* allocate_kernel_region(size, ...).  "None" also stands for
\* allocate_unbacked_region_anywhere, whose Region has no VMObject: neither
\* commits nor holds a frame.
Strategies == {"Reserve", "AllocateNow", "None"}

\* A kernel Region in the making: stage "object" once its VMObject exists,
\* "placed" once the RegionTree gave it a range at base; reserve is what the VMObject still holds of
\* its CommittedPhysicalPageSet.
NoKRegion == [stage |-> "none", size |-> 0, strategy |-> "None", reserve |-> 0, base |-> 0]

ASSUME /\ \A i \in DOMAIN RegionFrames : RegionFrames[i] \subseteq Frames
       /\ \A i, j \in DOMAIN RegionFrames :
              i # j => RegionFrames[i] \cap RegionFrames[j] = {}
       /\ MaxCommit \in Nat \ {0} /\ MaxContig \in Nat \ {0}
       /\ MaxRefs \in Nat \ {0}
       /\ NoFrame \notin Frames
       /\ KernelPages \in Nat \ {0} /\ MaxKRegion \in 1..MaxCommit

VARIABLES
    mem,        \* [free, used, committed, uncommitted, refs]: the frame state
                \* guarded by m_global_data plus each PhysicalPage's holders
    commitSet,  \* commitSet[t]: m_page_count of the CommittedPhysicalPageSet t holds
    pending,    \* frames taken by allocate_contiguous_physical_pages, not yet mapped
    volatile,   \* volatile[o]: AnonymousVMObject::is_volatile() of a purgeable object
    crashed,    \* "no", or which VERIFY failed and panicked the kernel:
                \* "reclaim" (the one after a reclaim) or "ledger" (any other)
    kregion     \* kregion[t]: the kernel Region t's allocate_kernel_region is
                \* building or holds, with its place in the kernel range

vars == <<mem, commitSet, pending, volatile, crashed, kregion>>

Regions == DOMAIN RegionFrames

(***************************************************************************)
(* Helpers over a frame state m (a record shaped like mem), so that one    *)
(* handler can be written as the sequential composition of the calls it    *)
(* makes inside the lock.                                                  *)
(***************************************************************************)

\* PhysicalRegion::take_free_page: the lowest free frame of region r.
LowestFree(m, r) ==
    CHOOSE f \in m.free \cap RegionFrames[r] :
        \A g \in m.free \cap RegionFrames[r] : f <= g

\* The for-loop over global_data.physical_regions that stops at the first
\* region whose take_free_page() returns a page.
FirstRegionWithFree(m) ==
    LET rs == {r \in Regions : m.free \cap RegionFrames[r] # {}}
    IN  CHOOSE r \in rs : \A q \in rs : r <= q

\* Fault-injection variants, each followed by the definition it varies: the
\* properties below must tell them apart from the code.

\* Variant: the uncommitted == 0 early return is dropped.
FindFreeWithoutEmptyCheck(m, committed) ==
    LET m1 == IF committed
              THEN [m EXCEPT !.committed = @ - 1]
              ELSE [m EXCEPT !.uncommitted = @ - 1]
    IN IF m1.free = {}
       THEN [m |-> m1, page |-> NoFrame, ok |-> TRUE]
       ELSE LET f == LowestFree(m1, FirstRegionWithFree(m1))
            IN  [m |-> [m1 EXCEPT !.free = @ \ {f}, !.used = @ + 1],
                 page |-> f, ok |-> TRUE]

\* Variant: the page is handed out but left on its region's free list.
FindFreeKeepingPageFree(m, committed) ==
    IF committed /\ m.committed = 0
    THEN [m |-> m, page |-> NoFrame, ok |-> FALSE]
    ELSE IF ~committed /\ m.uncommitted = 0
    THEN [m |-> m, page |-> NoFrame, ok |-> TRUE]
    ELSE LET m1 == IF committed
                   THEN [m EXCEPT !.committed = @ - 1]
                   ELSE [m EXCEPT !.uncommitted = @ - 1]
         IN IF m1.free = {}
            THEN [m |-> m1, page |-> NoFrame, ok |-> TRUE]
            ELSE LET f == LowestFree(m1, FirstRegionWithFree(m1))
                 IN  [m |-> [m1 EXCEPT !.used = @ + 1], page |-> f, ok |-> TRUE]

\* find_free_physical_page(committed): the reservation counter is
\* decremented before the regions are searched, and is not restored when
\* the search comes back empty.  Returns [m |-> ..., page |-> ..., ok |-> ...]
\* where ok is FALSE when the VERIFY on the committed path fails.
FindFreePhysicalPage(m, committed) ==
    IF committed /\ m.committed = 0
    THEN [m |-> m, page |-> NoFrame, ok |-> FALSE]
    ELSE IF ~committed /\ m.uncommitted = 0
    THEN [m |-> m, page |-> NoFrame, ok |-> TRUE]
    ELSE LET m1 == IF committed
                   THEN [m EXCEPT !.committed = @ - 1]
                   ELSE [m EXCEPT !.uncommitted = @ - 1]
         IN IF m1.free = {}
            THEN [m |-> m1, page |-> NoFrame, ok |-> TRUE]
            ELSE LET f == LowestFree(m1, FirstRegionWithFree(m1))
                 IN  [m |-> [m1 EXCEPT !.free = @ \ {f}, !.used = @ + 1],
                      page |-> f, ok |-> TRUE]

\* Variant: the freed page is not returned to the uncommitted pool.
DeallocateWithoutUncommit(m, fs) ==
    [m EXCEPT !.free = @ \cup fs, !.used = @ - Cardinality(fs)]

\* deallocate_physical_page(paddr) for a set of frames whose last reference
\* was dropped: each goes back to its region and to the uncommitted pool.
DeallocatePhysicalPages(m, fs) ==
    [m EXCEPT !.free = @ \cup fs,
              !.used = @ - Cardinality(fs),
              !.uncommitted = @ + Cardinality(fs)]

\* Holder h drops its reference to each frame of fs (RefPtr destruction);
\* frames left with no holder are freed (PhysicalPage::free_this).
Unref(m, h, fs) ==
    LET m1 == [m EXCEPT !.refs = [f \in Frames |->
                   IF f \in fs THEN @[f] \ {h} ELSE @[f]]]
    IN  DeallocatePhysicalPages(m1, {f \in fs : m1.refs[f] = {}})

PagesOf(m, o) == {f \in Frames : o \in m.refs[f]}

\* AnonymousVMObject::purge(): every page of the object is replaced by the
\* shared zero page; it returns how many pages it dropped.
Purge(m, o) == Unref(m, o, PagesOf(m, o))

\* InodeVMObject::try_release_clean_pages(1): one clean page is dropped.
ReleaseCleanPage(m, o, f) == Unref(m, o, {f})

\* The caller's RefPtr to the returned page is stored in holder h.
GiveTo(m, f, h) == [m EXCEPT !.refs[f] = {h}]

-----------------------------------------------------------------------------
Init ==
    /\ mem = [free |-> UNION {RegionFrames[r] : r \in Regions},
              used |-> 0,
              committed |-> 0,
              uncommitted |-> Cardinality(UNION {RegionFrames[r] : r \in Regions}),
              refs |-> [f \in Frames |-> {}]]
    /\ commitSet = [t \in Threads |-> 0]
    /\ pending = [t \in Threads |-> {}]
    /\ volatile = [o \in PurgeObjs |-> FALSE]
    /\ crashed = "no"
    /\ kregion = [t \in Threads |-> NoKRegion]

Crash(site) == /\ crashed' = site
         /\ UNCHANGED <<kregion, mem, commitSet, pending, volatile>>

\* commit_physical_pages(page_count), one token per thread at a time.
CommitPhysicalPages(t, n) ==
    /\ crashed = "no"
    /\ commitSet[t] = 0
    /\ IF mem.uncommitted < n
       THEN UNCHANGED vars
       ELSE /\ mem' = [mem EXCEPT !.uncommitted = @ - n, !.committed = @ + n]
            /\ commitSet' = [commitSet EXCEPT ![t] = n]
            /\ UNCHANGED <<kregion, pending, volatile, crashed>>

\* uncommit_physical_pages(page_count): the VERIFY on committed.
UncommitPhysicalPages(m, n) ==
    [m EXCEPT !.uncommitted = @ + n, !.committed = @ - n]

\* Variant: take_one() without VERIFY(m_page_count > 0).
TakeOneUnchecked(t, h) ==
    /\ crashed = "no"
    /\ LET r == FindFreePhysicalPage(mem, TRUE) IN
       IF ~r.ok \/ r.page = NoFrame
       THEN Crash("ledger")
       ELSE /\ mem' = GiveTo(r.m, r.page, h)
            /\ commitSet' = [commitSet EXCEPT ![t] = @ - 1]
            /\ UNCHANGED <<kregion, pending, volatile, crashed>>

\* CommittedPhysicalPageSet::take_one() with
\* allocate_committed_physical_page() and find_free_physical_page(true).
TakeOne(t, h) ==
    /\ crashed = "no"
    /\ commitSet[t] > 0
    /\ LET r == FindFreePhysicalPage(mem, TRUE) IN
       IF ~r.ok \/ r.page = NoFrame
       THEN Crash("ledger")
       ELSE /\ mem' = GiveTo(r.m, r.page, h)
            /\ commitSet' = [commitSet EXCEPT ![t] = @ - 1]
            /\ UNCHANGED <<kregion, pending, volatile, crashed>>

\* Variant: uncommit_one() forgets --m_page_count.
UncommitOneKeepingCount(t) ==
    /\ crashed = "no"
    /\ commitSet[t] > 0
    /\ IF mem.committed < 1
       THEN Crash("ledger")
       ELSE /\ mem' = UncommitPhysicalPages(mem, 1)
            /\ UNCHANGED <<kregion, commitSet, pending, volatile, crashed>>

\* CommittedPhysicalPageSet::uncommit_one().
UncommitOne(t) ==
    /\ crashed = "no"
    /\ commitSet[t] > 0
    /\ IF mem.committed < 1
       THEN Crash("ledger")
       ELSE /\ mem' = UncommitPhysicalPages(mem, 1)
            /\ commitSet' = [commitSet EXCEPT ![t] = @ - 1]
            /\ UNCHANGED <<kregion, pending, volatile, crashed>>

\* ~CommittedPhysicalPageSet(): unconsumed pages go back to uncommitted.
DropCommittedSet(t) ==
    /\ crashed = "no"
    /\ commitSet[t] > 0
    /\ IF mem.committed < commitSet[t]
       THEN Crash("ledger")
       ELSE /\ mem' = UncommitPhysicalPages(mem, commitSet[t])
            /\ commitSet' = [commitSet EXCEPT ![t] = 0]
            /\ UNCHANGED <<kregion, pending, volatile, crashed>>

\* Reclaim candidates of allocate_physical_page, in the state m reached after
\* the first find_free_physical_page(false) failed.
PurgeCandidates(m) == {o \in PurgeObjs : volatile[o] /\ PagesOf(m, o) # {}}
CleanCandidates(m) == {o \in InodeObjs : PagesOf(m, o) # {}}

\* The tail of allocate_physical_page once a find_free_physical_page(false)
\* after a reclaim returned r: VERIFY(page), then the page goes to h.
FinishAfterReclaim(r, h) ==
    IF r.page = NoFrame
    THEN Crash("reclaim")
    ELSE /\ mem' = GiveTo(r.m, r.page, h)
         /\ UNCHANGED <<kregion, commitSet, pending, volatile, crashed>>

\* allocate_physical_page(should_zero_fill, did_purge): first the free lists,
\* then the first purgeable volatile object with pages, then the first inode
\* object with a clean page, else ENOMEM.  The page is handed to h, the
\* thread itself or the VMObject it is populating.
AllocatePhysicalPage(t, h) ==
    /\ crashed = "no"
    /\ LET r1 == FindFreePhysicalPage(mem, FALSE) IN
       \/ /\ r1.page # NoFrame
          /\ mem' = GiveTo(r1.m, r1.page, h)
          /\ UNCHANGED <<kregion, commitSet, pending, volatile, crashed>>
       \/ /\ r1.page = NoFrame
          /\ \E o \in PurgeCandidates(r1.m) :
                 FinishAfterReclaim(FindFreePhysicalPage(Purge(r1.m, o), FALSE), h)
       \/ /\ r1.page = NoFrame
          /\ PurgeCandidates(r1.m) = {}
          /\ \E o \in CleanCandidates(r1.m) : \E f \in PagesOf(r1.m, o) :
                 FinishAfterReclaim(
                     FindFreePhysicalPage(ReleaseCleanPage(r1.m, o, f), FALSE), h)
       \/ /\ r1.page = NoFrame
          /\ PurgeCandidates(r1.m) = {}
          /\ CleanCandidates(r1.m) = {}
          /\ mem' = r1.m
          /\ UNCHANGED <<kregion, commitSet, pending, volatile, crashed>>

\* PhysicalRegion::take_contiguous_free_pages(n): the runs of n consecutive
\* free frames of region r; the region hands out its lowest one.
Runs(m, r, n) ==
    {lo .. (lo + n - 1) : lo \in {f \in RegionFrames[r] :
        f .. (f + n - 1) \subseteq m.free \cap RegionFrames[r]}}

LowestRun(m, r, n) ==
    CHOOSE run \in Runs(m, r, n) : \A other \in Runs(m, r, n) :
        \A f \in run, g \in other : f <= g \/ run = other

\* allocate_contiguous_physical_pages(size), the part under the global
\* lock: ENOMEM unless enough is uncommitted and some region has a run.
AllocateContiguousPhysicalPages(t, n) ==
    /\ crashed = "no"
    /\ pending[t] = {}
    /\ LET rs == {r \in Regions : Runs(mem, r, n) # {}} IN
       IF mem.uncommitted < n \/ rs = {}
       THEN UNCHANGED vars
       ELSE LET r   == CHOOSE x \in rs : \A q \in rs : x <= q
                run == LowestRun(mem, r, n)
            IN  /\ mem' = [mem EXCEPT !.free = @ \ run,
                                      !.uncommitted = @ - n,
                                      !.used = @ + n,
                                      !.refs = [f \in Frames |->
                                                  IF f \in run THEN {t} ELSE @[f]]]
                /\ pending' = [pending EXCEPT ![t] = run]
                /\ UNCHANGED <<kregion, commitSet, volatile, crashed>>

\* The kernel pages covered by the Regions the RegionTree holds.
Occupied ==
    UNION {kregion[t].base .. (kregion[t].base + kregion[t].size - 1) :
              t \in {u \in Threads : kregion[u].stage = "placed"}}

\* RegionTree::place_anywhere(size): the bases of the free ranges of n pages.
Gaps(n) ==
    {b \in 1 .. KernelPages : b + n - 1 <= KernelPages /\ (b .. (b + n - 1)) \cap Occupied = {}}

\* The rest of allocate_contiguous_physical_pages: allocate_kernel_region()
\* over the run succeeds (the pages are returned zeroed) ...
ContiguousMapped(t) ==
    /\ crashed = "no"
    /\ pending[t] # {}
    /\ Gaps(Cardinality(pending[t])) # {}
    /\ pending' = [pending EXCEPT ![t] = {}]
    /\ UNCHANGED <<kregion, mem, commitSet, volatile, crashed>>

\* ... or fails (no free kernel range, or no memory for the Region or its
\* page tables), and TRY drops the vector: every page is unreferenced.
ContiguousMapFailed(t) ==
    /\ crashed = "no"
    /\ pending[t] # {}
    /\ mem' = Unref(mem, t, pending[t])
    /\ pending' = [pending EXCEPT ![t] = {}]
    /\ UNCHANGED <<kregion, commitSet, volatile, crashed>>

-----------------------------------------------------------------------------
(***************************************************************************)
(* Kernel regions: allocate_kernel_region(size, ..., strategy) and         *)
(* allocate_unbacked_region_anywhere.  Each TRY is a step of its own,      *)
(* because the global lock is taken and dropped between them; a failing   *)
(* TRY drops what was built so far, which the destructors undo.            *)
(***************************************************************************)

\* The AnonymousVMObject constructor for AllocateNow: take_one() from its
\* committed set for every page, each page held by the object.
RECURSIVE TakeCommitted(_, _, _)
TakeCommitted(m, n, h) ==
    IF n = 0 THEN [m |-> m, ok |-> TRUE]
    ELSE LET r == FindFreePhysicalPage(m, TRUE)
         IN  IF ~r.ok \/ r.page = NoFrame
             THEN [m |-> m, ok |-> FALSE]
             ELSE TakeCommitted(GiveTo(r.m, r.page, h), n - 1, h)

\* allocate_kernel_region up to AnonymousVMObject::try_create_with_size:
\* Reserve and AllocateNow commit the pages first (ENOMEM returns with
\* nothing changed, a stuttering step), AllocateNow then takes them all;
\* None commits nothing.
AllocateKernelRegion(t, n, s) ==
    LET obj       == [NoKRegion EXCEPT !.stage = "object", !.size = n, !.strategy = s]
        committed == [mem EXCEPT !.uncommitted = @ - n, !.committed = @ + n]
    IN
    /\ crashed = "no"
    /\ kregion[t].stage = "none"
    /\ \/ /\ s = "None"
          /\ kregion' = [kregion EXCEPT ![t] = obj]
          /\ UNCHANGED <<mem, commitSet, pending, volatile, crashed>>
       \/ /\ s = "Reserve"
          /\ mem.uncommitted >= n
          /\ mem' = committed
          /\ kregion' = [kregion EXCEPT ![t] = [obj EXCEPT !.reserve = n]]
          /\ UNCHANGED <<commitSet, pending, volatile, crashed>>
       \/ /\ s = "AllocateNow"
          /\ mem.uncommitted >= n
          /\ LET r == TakeCommitted(committed, n, KObj(t)) IN
             IF r.ok
             THEN /\ mem' = r.m
                  /\ kregion' = [kregion EXCEPT ![t] = obj]
                  /\ UNCHANGED <<commitSet, pending, volatile, crashed>>
             ELSE Crash("ledger")

\* The RegionTree's place_anywhere(size) under the global lock, for the
\* Region that Region::create_unplaced made (any free range may be chosen),
\* followed by a region->map(kernel_page_directory()) that succeeds.  map()
\* changes nothing another thread reads here, so the two are one step; a
\* map() that fails is DestroyKernelRegion of the placed Region.
PlaceKernelRegion(t) ==
    /\ crashed = "no"
    /\ kregion[t].stage = "object"
    /\ \E b \in Gaps(kregion[t].size) :
           kregion' = [kregion EXCEPT ![t].stage = "placed", ![t].base = b]
    /\ UNCHANGED <<mem, commitSet, pending, volatile, crashed>>

\* Variant: the VMObject's committed set is not given back.
DropVMObjectKeepingReserve(m, t) == Unref(m, KObj(t), PagesOf(m, KObj(t)))

\* The last reference to the VMObject goes: its pages are unreferenced and
\* the rest of its CommittedPhysicalPageSet is uncommitted.
DropVMObject(m, t) ==
    UncommitPhysicalPages(Unref(m, KObj(t), PagesOf(m, KObj(t))), kregion[t].reserve)

\* The Region goes: a TRY after the VMObject was made failed
\* (create_unplaced's allocation, no free range, map() out of page tables)
\* or its owner destroys it.  ~Region unregisters a placed Region through
\* unregister_kernel_region, then the VMObject is dropped.
DestroyKernelRegion(t) ==
    /\ crashed = "no"
    /\ kregion[t].stage # "none"
    /\ IF mem.committed < kregion[t].reserve
       THEN Crash("ledger")
       ELSE /\ mem' = DropVMObject(mem, t)
            /\ kregion' = [kregion EXCEPT ![t] = NoKRegion]
            /\ UNCHANGED <<commitSet, pending, volatile, crashed>>

-----------------------------------------------------------------------------
(***************************************************************************)
(* The environment: holders of PhysicalPage references outside this file. *)
(***************************************************************************)

Pending == UNION {pending[t] : t \in Threads}

\* A holder drops its RefPtr; the last one frees the page.
DropRef(h, f) ==
    /\ crashed = "no"
    /\ h \in mem.refs[f]
    /\ f \notin Pending
    /\ mem' = Unref(mem, h, {f})
    /\ UNCHANGED <<kregion, commitSet, pending, volatile, crashed>>

\* A thread takes another reference to a page (a COW clone, a RefPtr held
\* across a page fault), up to MaxRefs holders.
ShareRef(t, f) ==
    /\ crashed = "no"
    /\ mem.refs[f] # {}
    /\ t \notin mem.refs[f]
    /\ f \notin Pending
    /\ Cardinality(mem.refs[f]) < MaxRefs
    /\ mem' = [mem EXCEPT !.refs[f] = @ \cup {t}]
    /\ UNCHANGED <<kregion, commitSet, pending, volatile, crashed>>

\* Userspace marks a purgeable object volatile or non-volatile.
SetVolatile(o) ==
    /\ crashed = "no"
    /\ volatile' = [volatile EXCEPT ![o] = ~@]
    /\ UNCHANGED <<kregion, mem, commitSet, pending, crashed>>

Next ==
    \/ \E t \in Threads, n \in 1..MaxCommit : CommitPhysicalPages(t, n)
    \/ \E t \in Threads : \E h \in {t} \cup Objects : TakeOne(t, h)
    \/ \E t \in Threads : UncommitOne(t) \/ DropCommittedSet(t)
    \/ \E t \in Threads : \E h \in {t} \cup Objects : AllocatePhysicalPage(t, h)
    \/ \E t \in Threads, n \in 1..MaxContig : AllocateContiguousPhysicalPages(t, n)
    \/ \E t \in Threads : ContiguousMapped(t) \/ ContiguousMapFailed(t)
    \/ \E t \in Threads, n \in 1..MaxKRegion, s \in Strategies : AllocateKernelRegion(t, n, s)
    \/ \E t \in Threads :
           PlaceKernelRegion(t) \/ DestroyKernelRegion(t)
    \/ \E h \in Holders, f \in Frames : DropRef(h, f)
    \/ \E t \in Threads, f \in Frames : ShareRef(t, f)
    \/ \E o \in PurgeObjs : SetVolatile(o)

Spec == Init /\ [][Next]_vars

-----------------------------------------------------------------------------
TypeOK ==
    /\ mem.free \subseteq Frames
    /\ mem.used \in Nat /\ mem.committed \in Nat /\ mem.uncommitted \in Nat
    /\ mem.refs \in [Frames -> SUBSET (Holders \cup KObjs)]
    /\ commitSet \in [Threads -> 0..MaxCommit]
    /\ pending \in [Threads -> SUBSET Frames]
    /\ volatile \in [PurgeObjs -> BOOLEAN]
    /\ crashed \in {"no", "reclaim", "ledger"}
    /\ \A t \in Threads :
          /\ kregion[t].stage \in {"none", "object", "placed"}
          /\ kregion[t].strategy \in Strategies
          /\ kregion[t].size \in 0..MaxCommit /\ kregion[t].reserve \in 0..MaxCommit
          /\ kregion[t].base \in 0..KernelPages

TotalPages == Cardinality(UNION {RegionFrames[r] : r \in Regions})

\* get_system_memory_info() VERIFYs physical_pages == used + committed +
\* uncommitted; this must hold after every commit, take, uncommit, purge,
\* release and free, however the threads interleave.
LedgerBalanced ==
    TotalPages = mem.used + mem.committed + mem.uncommitted

\* The counters describe the frames: used counts exactly the frames that have
\* a holder, and every unit of committed or uncommitted is a frame really on
\* a free list, so a draw the counters allow always finds a frame.
CountersMatchFrames ==
    /\ mem.used = Cardinality({f \in Frames : mem.refs[f] # {}})
    /\ mem.committed + mem.uncommitted = Cardinality(mem.free)
    /\ \A f \in Frames : f \in mem.free <=> mem.refs[f] = {}

\* Every committed page is owned by exactly one live CommittedPhysicalPageSet,
\* a thread's or the one a Reserve kernel Region's VMObject keeps: the
\* committed counter is the sum of their m_page_count, also after a TRY of
\* allocate_kernel_region failed half-way.
CommitmentsBacked ==
    LET Sum[S \in SUBSET Threads] ==
            IF S = {} THEN 0
            ELSE LET u == CHOOSE x \in S : TRUE
                 IN  commitSet[u] + kregion[u].reserve + Sum[S \ {u}]
    IN  mem.committed = Sum[Threads]

\* No VERIFY of the allocator fires: take_one() after commit never finds the
\* free lists empty, uncommit never underflows, and a reclaim that reported
\* pages always lets the following find_free_physical_page succeed.
NoPanic == crashed = "no"

\* The counter VERIFYs (take_one, uncommit, the committed path of
\* find_free_physical_page) never fire, even when pages are shared; the
\* only VERIFY that can is the one after a reclaim, and only when a page
\* held by a reclaimable object also has another holder.
PanicOnlyOnSharedReclaim ==
    crashed # "no" =>
        /\ crashed = "reclaim"
        /\ \E f \in Frames : mem.refs[f] \cap Objects # {} /\ Cardinality(mem.refs[f]) >= 2

=============================================================================
