------------------------------- MODULE Memory -------------------------------
(***************************************************************************)
(* What the kernel builds on the frame bitmap: page tables (paging.c),     *)
(* slabs of objects (slab.c), the heap (heap.c) and thread stacks          *)
(* (thread.c).  One call is in progress at a time; a step takes, maps or   *)
(* releases one frame, or one object.  Page and frame numbers are the same *)
(* numbers, PAGE_SIZE addresses each; sizes are counted in pages.  Each    *)
(* size bin of kmalloc is a cache, and so is the pool of thread headers.   *)
(***************************************************************************)
EXTENDS FrameBitmap, Sequences

CONSTANTS
  MemoryMap,            \* the multiboot memory map
  TableEntries,         \* PAGE_TABLE_ENTRIES
  LargeBase, LargeEnd,  \* LARGE_ALLOC_REGION_BASE and _END
  StackBase,            \* STACK_REGION_BASE
  HeapCaches,           \* the kmalloc_cache_* bins
  ThreadPool,           \* thread_pool
  Capacity,             \* objects per slab of a cache
  LargeSizes,           \* pages, header included, of the large blocks asked for
  StackSizes,           \* stack_pages of the threads created
  StackLimit            \* bound of the model: no stack reaches beyond it

Caches == HeapCaches \cup {ThreadPool}
Directories == 0 .. FrameCount \div TableEntries - 1
RecursiveIndex == FrameCount \div TableEntries - 1
DirectoryOf(page) == page \div TableEntries

ASSUME RegionAssumption ==
  /\ TableEntries \in Nat \ {0} /\ FrameCount % TableEntries = 0
  /\ LargeBase \in Nat /\ LargeEnd \in Nat /\ StackBase \in Nat /\ StackLimit \in Nat
  /\ TableEntries <= LargeBase /\ LargeBase <= LargeEnd /\ LargeEnd <= StackBase
  /\ StackBase <= StackLimit /\ StackLimit <= RecursiveIndex * TableEntries
  /\ MemoryMap \subseteq [addr : Nat, len : Nat, available : BOOLEAN]
  /\ ThreadPool \notin HeapCaches
  /\ Capacity \in [Caches -> Nat \ {0}]
  /\ LargeSizes \subseteq Nat \ {0} /\ StackSizes \subseteq Nat \ {0}

(* No usable memory at the addresses where large blocks and stacks live.   *)
ASSUME LowMemory ==
  \A e \in MemoryMap : e.available => e.addr + e.len <= LargeBase * PageSize

Absent == -1     \* a directory entry without its present bit
BootTable == -2  \* entry 0: the statically allocated boot_page_table
Unmapped == -1   \* a table entry without its present bit

(* (uint32_t)-1 masked to a page: what a caller that ignores the failure   *)
(* of pmm_alloc maps.                                                      *)
Phantom == FrameCount - 1

Objects == [cache : Caches, slab : Frames, slot : Nat]
NoObject == [cache |-> "none"]
Blocks == [base : Frames, pages : Nat]

VARIABLES
  bitmap, search_hint,   \* pmm.c
  page_directory,        \* for each directory index, its page table
  mapping,               \* the page tables together: the frame behind a page
  slabs,                 \* cache->slabs, the list of a cache
  free_list,             \* slab->free_list of the slab in a frame
  next_large_vaddr,
  next_stack_vaddr,
  held,                  \* small blocks and thread headers not freed yet
  blocks,                \* large blocks not freed yet
  threads,               \* live threads: header, mem and stack_pages
  call,                  \* the call in progress
  exhausted,             \* a failed pmm_alloc went unnoticed by its caller
  panic                  \* a page fault halted the kernel

frames == <<bitmap, search_hint>>
paging == <<page_directory, mapping>>
caches == <<slabs, free_list>>
regions == <<next_large_vaddr, next_stack_vaddr>>
owners == <<held, blocks, threads>>
vars == <<frames, paging, caches, regions, owners, call, exhausted, panic>>

(* The locals of a call: where it is, the object it deals with, the pages  *)
(* base .. base + pages - 1 it deals with, those before i already, and the *)
(* frame it just got.                                                      *)
Idle == [at |-> "idle", cache |-> ThreadPool, object |-> NoObject,
         base |-> 0, pages |-> 0, i |-> 0, frame |-> NoFrame]

Calls == [at : {"idle", "slab_alloc", "map_slab", "slab_create", "thread",
                "map_thread", "large", "map_large", "free"},
          cache : Caches, object : Objects \cup {NoObject},
          base : Frames, pages : Nat, i : Nat, frame : Frames \cup {NoFrame}]

TypeOK ==
  /\ bitmap \subseteq Frames /\ search_hint \in 0 .. BitmapSize - 1
  /\ page_directory \in [Directories -> Frames \cup {Absent, BootTable}]
  /\ mapping \in [Frames -> Frames \cup {Unmapped}]
  /\ slabs \in [Caches -> Seq(Frames)] /\ free_list \in [Frames -> Seq(Nat)]
  /\ next_large_vaddr \in LargeBase .. LargeEnd
  /\ next_stack_vaddr \in StackBase .. StackLimit
  /\ held \subseteq Objects /\ blocks \subseteq Blocks
  /\ threads \subseteq [header : Objects, mem : Frames, stack_pages : Nat]
  /\ call \in Calls /\ exhausted \in BOOLEAN /\ panic \in BOOLEAN

Init ==
  /\ bitmap = InitialBitmap(MemoryMap) /\ search_hint = 0
  /\ page_directory = [d \in Directories |-> IF d = 0 THEN BootTable ELSE Absent]
  /\ mapping = [p \in Frames |-> IF DirectoryOf(p) = 0 THEN p ELSE Unmapped]
  /\ slabs = [c \in Caches |-> <<>>]
  /\ free_list = [f \in Frames |-> <<>>]
  /\ next_large_vaddr = LargeBase /\ next_stack_vaddr = StackBase
  /\ held = {} /\ blocks = {} /\ threads = {}
  /\ call = Idle /\ exhausted = FALSE /\ panic = FALSE

-----------------------------------------------------------------------------
At(place) == ~panic /\ call.at = place

(* pmm_alloc that returns frame f *)
PmmAlloc(f) ==
  /\ f \in Found(bitmap, search_hint)
  /\ bitmap' = bitmap \cup {f}
  /\ search_hint' = Word(f)

OutOfFrames == Found(bitmap, search_hint) = {}

PmmFree(f) ==
  /\ bitmap' = bitmap \ {f}
  /\ search_hint' = IF Word(f) < search_hint THEN Word(f) ELSE search_hint

(* A write to a page that is not mapped: page_fault_handler halts.         *)
PageFault ==
  /\ panic' = TRUE
  /\ UNCHANGED <<frames, paging, caches, regions, owners, call, exhausted>>

-----------------------------------------------------------------------------
(* paging_map, called for `page` and the frame the caller just got *)

PageToMap == IF call.at = "map_slab" THEN call.frame ELSE call.base + call.i

AfterMap ==
  call' = CASE call.at = "map_slab"   -> [call EXCEPT !.at = "slab_create"]
            [] call.at = "map_thread" -> [call EXCEPT !.at = "thread", !.i = @ + 1, !.frame = NoFrame]
            [] call.at = "map_large"  -> [call EXCEPT !.at = "large", !.i = @ + 1, !.frame = NoFrame]

Mapping == ~panic /\ call.at \in {"map_slab", "map_thread", "map_large"}

(* The table exists, or the index is the reserved one.                     *)
PagingMap ==
  /\ Mapping
  /\ LET d == DirectoryOf(PageToMap)
     IN  /\ d >= RecursiveIndex \/ page_directory[d] # Absent
         /\ mapping' = IF d >= RecursiveIndex THEN mapping
                       ELSE [mapping EXCEPT ![PageToMap] = call.frame]
  /\ AfterMap
  /\ UNCHANGED <<frames, page_directory, caches, regions, owners, exhausted, panic>>

(* The table has to be allocated first.                                    *)
PagingMapNewTable ==
  /\ Mapping
  /\ LET d == DirectoryOf(PageToMap)
     IN  /\ d < RecursiveIndex /\ page_directory[d] = Absent
         /\ \E f \in Frames :
              /\ PmmAlloc(f)
              /\ page_directory' = [page_directory EXCEPT ![d] = f]
         /\ mapping' = [mapping EXCEPT ![PageToMap] = call.frame]
  /\ AfterMap
  /\ UNCHANGED <<caches, regions, owners, exhausted, panic>>

(* No frame for the table: paging_map returns and nobody is told.          *)
PagingMapGivesUp ==
  /\ Mapping
  /\ LET d == DirectoryOf(PageToMap)
     IN  d < RecursiveIndex /\ page_directory[d] = Absent
  /\ OutOfFrames
  /\ exhausted' = TRUE
  /\ AfterMap
  /\ UNCHANGED <<frames, paging, caches, regions, owners, panic>>

-----------------------------------------------------------------------------
(* slab_alloc *)

FirstWithRoom(c) ==
  {k \in 1 .. Len(slabs[c]) :
     /\ free_list[slabs[c][k]] # <<>>
     /\ \A j \in 1 .. k - 1 : free_list[slabs[c][j]] = <<>>}

DeliverNoGuardBug(object) ==
  IF call.cache \in HeapCaches
  THEN /\ call' = Idle
       /\ UNCHANGED next_stack_vaddr
  ELSE /\ call' = [call EXCEPT !.at = "thread", !.object = object,
                               !.base = next_stack_vaddr]
       /\ next_stack_vaddr' = next_stack_vaddr + call.pages

(* What slab_alloc's caller does with the object: kmalloc returns it,      *)
(* thread_create_sized goes on to the stack.                               *)
Deliver(object) ==
  IF call.cache \in HeapCaches
  THEN /\ call' = Idle
       /\ UNCHANGED next_stack_vaddr
  ELSE /\ call' = [call EXCEPT !.at = "thread", !.object = object,
                               !.base = next_stack_vaddr]
       /\ next_stack_vaddr' = next_stack_vaddr + call.pages + 1

(* slab_take from the first slab of the list that has room *)
SlabTake ==
  /\ At("slab_alloc")
  /\ \E k \in FirstWithRoom(call.cache) :
       LET s == slabs[call.cache][k]
           object == [cache |-> call.cache, slab |-> s, slot |-> Head(free_list[s])]
       IN  /\ free_list' = [free_list EXCEPT ![s] = Tail(@)]
           /\ held' = held \cup {object}
           /\ Deliver(object)
  /\ UNCHANGED <<frames, paging, slabs, next_large_vaddr, blocks, threads,
                 exhausted, panic>>

SlabGrowUnmappedBug ==
  /\ At("slab_alloc") /\ FirstWithRoom(call.cache) = {}
  /\ \E f \in Frames :
       /\ PmmAlloc(f)
       /\ call' = [call EXCEPT !.at = "slab_create", !.frame = f]
  /\ UNCHANGED <<paging, caches, regions, owners, exhausted, panic>>

(* slab_create, the frame *)
SlabGrow ==
  /\ At("slab_alloc") /\ FirstWithRoom(call.cache) = {}
  /\ \E f \in Frames :
       /\ PmmAlloc(f)
       /\ call' = [call EXCEPT !.at = "map_slab", !.frame = f]
  /\ UNCHANGED <<paging, caches, regions, owners, exhausted, panic>>

(* slab_create without a frame: kmalloc or thread_create returns 0 *)
SlabRefuse ==
  /\ At("slab_alloc") /\ FirstWithRoom(call.cache) = {}
  /\ OutOfFrames
  /\ call' = Idle
  /\ UNCHANGED <<frames, paging, caches, regions, owners, exhausted, panic>>

(* slab_create, the header and the free list, last object first; the new   *)
(* slab becomes the first of the list                                      *)
SlabCreate ==
  /\ At("slab_create")
  /\ mapping[call.frame] # Unmapped
  /\ free_list' = [free_list EXCEPT ![call.frame] =
                     [k \in 1 .. Capacity[call.cache] |-> Capacity[call.cache] + 1 - k]]
  /\ slabs' = [slabs EXCEPT ![call.cache] = <<call.frame>> \o @]
  /\ call' = [call EXCEPT !.at = "slab_alloc", !.frame = NoFrame]
  /\ UNCHANGED <<frames, paging, regions, owners, exhausted, panic>>

(* slab_create writes to a page that paging_map did not map *)
SlabFault ==
  /\ At("slab_create")
  /\ mapping[call.frame] = Unmapped
  /\ PageFault

SlabFreeStaysLinkedBug(o) ==
  LET list == <<o.slot>> \o free_list[o.slab]
  IN  /\ held' = held \ {o}
      /\ free_list' = [free_list EXCEPT ![o.slab] = list]
      /\ UNCHANGED slabs
      /\ IF Len(list) < Capacity[o.cache] THEN UNCHANGED frames
         ELSE PmmFree(o.slab)

(* slab_free.  A slab that becomes empty is unlinked and goes back to the  *)
(* frame allocator.                                                        *)
SlabFree(o) ==
  LET list == <<o.slot>> \o free_list[o.slab]
      line == slabs[o.cache]
  IN  /\ held' = held \ {o}
      /\ IF Len(list) < Capacity[o.cache]
         THEN /\ free_list' = [free_list EXCEPT ![o.slab] = list]
              /\ UNCHANGED <<frames, slabs>>
         ELSE /\ free_list' = [free_list EXCEPT ![o.slab] = <<>>]
              /\ \E k \in DOMAIN line :
                   /\ line[k] = o.slab
                   /\ slabs' = [slabs EXCEPT ![o.cache] =
                        SubSeq(line, 1, k - 1) \o SubSeq(line, k + 1, Len(line))]
              /\ PmmFree(o.slab)

-----------------------------------------------------------------------------
(* kmalloc and kfree *)

Kmalloc ==
  /\ At("idle")
  /\ \E c \in HeapCaches : call' = [Idle EXCEPT !.at = "slab_alloc", !.cache = c]
  /\ UNCHANGED <<frames, paging, caches, regions, owners, exhausted, panic>>

Kfree ==
  /\ At("idle")
  /\ \E o \in held : o.cache \in HeapCaches /\ SlabFree(o)
  /\ UNCHANGED <<paging, regions, blocks, threads, call, exhausted, panic>>

KmallocLargeUncheckedBug ==
  /\ At("idle")
  /\ \E n \in LargeSizes :
       /\ next_large_vaddr' = next_large_vaddr + n
       /\ call' = [Idle EXCEPT !.at = "large", !.base = next_large_vaddr, !.pages = n]
  /\ UNCHANGED <<frames, paging, caches, next_stack_vaddr, owners, exhausted, panic>>

KmallocLargeSameAddressBug ==
  /\ At("idle")
  /\ \E n \in LargeSizes :
       /\ next_large_vaddr + n <= LargeEnd
       /\ call' = [Idle EXCEPT !.at = "large", !.base = next_large_vaddr, !.pages = n]
  /\ UNCHANGED <<frames, paging, caches, regions, owners, exhausted, panic>>

(* kmalloc_large up to the loop; a request that does not fit in the region *)
(* is refused and changes nothing                                          *)
KmallocLarge ==
  /\ At("idle")
  /\ \E n \in LargeSizes :
       /\ next_large_vaddr + n <= LargeEnd
       /\ next_large_vaddr' = next_large_vaddr + n
       /\ call' = [Idle EXCEPT !.at = "large", !.base = next_large_vaddr, !.pages = n]
  /\ UNCHANGED <<frames, paging, caches, next_stack_vaddr, owners, exhausted, panic>>

LargePage ==
  /\ At("large") /\ call.i < call.pages
  /\ \E f \in Frames :
       /\ PmmAlloc(f)
       /\ call' = [call EXCEPT !.at = "map_large", !.frame = f]
  /\ UNCHANGED <<paging, caches, regions, owners, exhausted, panic>>

(* kmalloc_large without a frame returns 0; the pages mapped so far stay   *)
LargeRefuse ==
  /\ At("large") /\ call.i < call.pages
  /\ OutOfFrames
  /\ call' = Idle
  /\ UNCHANGED <<frames, paging, caches, regions, owners, exhausted, panic>>

LargeDone ==
  /\ At("large") /\ call.i = call.pages
  /\ mapping[call.base] # Unmapped
  /\ blocks' = blocks \cup {[base |-> call.base, pages |-> call.pages]}
  /\ call' = Idle
  /\ UNCHANGED <<frames, paging, caches, regions, held, threads, exhausted, panic>>

(* the header's page was not mapped *)
LargeFault ==
  /\ At("large") /\ call.i = call.pages
  /\ mapping[call.base] = Unmapped
  /\ PageFault

KfreeLarge ==
  /\ At("idle")
  /\ \E b \in blocks :
       /\ blocks' = blocks \ {b}
       /\ call' = [Idle EXCEPT !.at = "free", !.base = b.base, !.pages = b.pages]
  /\ UNCHANGED <<frames, paging, caches, regions, held, threads, exhausted, panic>>

-----------------------------------------------------------------------------
(* thread_create_sized and thread_destroy *)

ThreadCreate ==
  /\ At("idle")
  /\ \E n \in StackSizes :
       /\ next_stack_vaddr + n + 1 <= StackLimit
       /\ call' = [Idle EXCEPT !.at = "slab_alloc", !.cache = ThreadPool, !.pages = n]
  /\ UNCHANGED <<frames, paging, caches, regions, owners, exhausted, panic>>

StackPage ==
  /\ At("thread") /\ call.i < call.pages
  /\ \E f \in Frames :
       /\ PmmAlloc(f)
       /\ call' = [call EXCEPT !.at = "map_thread", !.frame = f]
  /\ UNCHANGED <<paging, caches, regions, owners, exhausted, panic>>

(* The result of pmm_alloc is not looked at: -1 is mapped.                 *)
StackPhantom ==
  /\ At("thread") /\ call.i < call.pages
  /\ OutOfFrames
  /\ exhausted' = TRUE
  /\ call' = [call EXCEPT !.at = "map_thread", !.frame = Phantom]
  /\ UNCHANGED <<frames, paging, caches, regions, owners, panic>>

ThreadReady ==
  /\ At("thread") /\ call.i = call.pages
  /\ mapping[call.base + call.pages - 1] # Unmapped
  /\ threads' = threads \cup {[header |-> call.object, mem |-> call.base,
                               stack_pages |-> call.pages]}
  /\ call' = Idle
  /\ UNCHANGED <<frames, paging, caches, regions, held, blocks, exhausted, panic>>

(* the top of the stack was not mapped *)
ThreadFault ==
  /\ At("thread") /\ call.i = call.pages
  /\ mapping[call.base + call.pages - 1] = Unmapped
  /\ PageFault

ThreadDestroy ==
  /\ At("idle")
  /\ \E t \in threads :
       /\ threads' = threads \ {t}
       /\ call' = [Idle EXCEPT !.at = "free", !.object = t.header,
                               !.base = t.mem, !.pages = t.stack_pages]
  /\ UNCHANGED <<frames, paging, caches, regions, held, blocks, exhausted, panic>>

-----------------------------------------------------------------------------
(* The loops of kfree_large and thread_destroy, alike: get_physical, which *)
(* answers 0 for a page that is not mapped, unmap, pmm_free.               *)

Physical(page) == IF mapping[page] = Unmapped THEN 0 ELSE mapping[page]

FreePageStaysMappedBug ==
  /\ At("free") /\ call.i < call.pages
  /\ PmmFree(Physical(call.base + call.i))
  /\ call' = [call EXCEPT !.i = @ + 1]
  /\ UNCHANGED <<paging, caches, regions, owners, exhausted, panic>>

FreePage ==
  /\ At("free") /\ call.i < call.pages
  /\ PmmFree(Physical(call.base + call.i))
  /\ mapping' = [mapping EXCEPT ![call.base + call.i] = Unmapped]
  /\ call' = [call EXCEPT !.i = @ + 1]
  /\ UNCHANGED <<page_directory, caches, regions, owners, exhausted, panic>>

(* thread_destroy ends with slab_free of the header.                       *)
FreeDone ==
  /\ At("free") /\ call.i = call.pages
  /\ call' = Idle
  /\ IF call.object = NoObject
     THEN UNCHANGED <<frames, caches, held>>
     ELSE SlabFree(call.object)
  /\ UNCHANGED <<paging, regions, blocks, threads, exhausted, panic>>

Next ==
  \/ PagingMap \/ PagingMapNewTable \/ PagingMapGivesUp
  \/ SlabTake \/ SlabGrow \/ SlabRefuse \/ SlabCreate \/ SlabFault
  \/ Kmalloc \/ Kfree
  \/ KmallocLarge \/ LargePage \/ LargeRefuse \/ LargeDone \/ LargeFault \/ KfreeLarge
  \/ ThreadCreate \/ StackPage \/ StackPhantom \/ ThreadReady \/ ThreadFault
  \/ ThreadDestroy \/ FreePage \/ FreeDone

Spec == Init /\ [][Next]_vars

-----------------------------------------------------------------------------
Reserved == InitialBitmap(MemoryMap)
Pages(base, n) == base .. base + n - 1

SlabFrames == UNION {{slabs[c][k] : k \in DOMAIN slabs[c]} : c \in Caches}

(* Pages somebody may be using: slabs, large blocks, stacks.               *)
LivePages == SlabFrames \cup (UNION {Pages(b.base, b.pages) : b \in blocks})
                        \cup (UNION {Pages(t.mem, t.stack_pages) : t \in threads})

(* Who holds which frame: a directory entry, a place in the list of a      *)
(* cache, a mapped page of the large or the stack region, a call under way.*)
Claims ==
  {[by |-> "table", place |-> <<d>>, frame |-> page_directory[d]] :
     d \in {e \in Directories : page_directory[e] \in Frames}}
  \cup (UNION {{[by |-> "slab", place |-> <<c, k>>, frame |-> slabs[c][k]] :
                  k \in DOMAIN slabs[c]} : c \in Caches})
  \cup {[by |-> "page", place |-> <<p>>, frame |-> mapping[p]] :
          p \in {q \in LargeBase .. StackLimit : mapping[q] # Unmapped}}
  \cup {[by |-> "call", place |-> <<>>, frame |-> f] : f \in {call.frame} \ {NoFrame}}

(* Every frame that pmm_alloc handed out has exactly one holder, and what  *)
(* a holder holds was handed out: nothing is freed while in use or used    *)
(* after it was freed, and even the pages that a failed kmalloc_large      *)
(* leaves behind stay accounted for.                                       *)
OneOwner ==
  ~exhausted =>
    /\ \A a, b \in Claims : a.frame = b.frame => a = b
    /\ {a.frame : a \in Claims} = bitmap \ Reserved

(* In every slab of a cache each object is either on the free list or with *)
(* one holder, never both; every object held lies in a slab of its cache;  *)
(* and a slab none of whose objects is held is on its way to be used.      *)
SlabsExact ==
  /\ \A c \in Caches : \A k \in DOMAIN slabs[c] :
       LET s == slabs[c][k]
           list == free_list[s]
           Unfree == {o.slot : o \in {x \in held : x.cache = c /\ x.slab = s}}
       IN  /\ \A i, j \in DOMAIN list : list[i] = list[j] => i = j
           /\ {list[i] : i \in DOMAIN list} = (1 .. Capacity[c]) \ Unfree
           /\ Unfree = {} => call.at = "slab_alloc" /\ call.cache = c
  /\ \A o \in held :
       /\ o.slot \in 1 .. Capacity[o.cache]
       /\ \E k \in DOMAIN slabs[o.cache] : slabs[o.cache][k] = o.slab

(* As long as no failure went unnoticed nobody touches a page that is not  *)
(* mapped: slabs are addressable under their own frame numbers, beyond the *)
(* first table too, and blocks and stacks are backed from end to end.      *)
NeverFaults ==
  ~exhausted =>
    /\ ~panic
    /\ \A s \in SlabFrames : mapping[s] = s
    /\ \A p \in LivePages : mapping[p] # Unmapped

(* The page above a stack and, except for the lowest stack, the page below *)
(* it are not mapped, so running off a stack faults instead of reaching    *)
(* the next one (test_stacks_are_separated_by_a_guard_page).               *)
GuardPages ==
  \A t \in threads :
    /\ mapping[t.mem + t.stack_pages] = Unmapped
    /\ t.mem # StackBase => mapping[t.mem - 1] = Unmapped

(* No call changes what is behind a page that stays in use: the mappings   *)
(* of live slabs, blocks and stacks are only touched by their own release. *)
MappingsStay ==
  [][\A p \in LivePages \cap LivePages' : mapping'[p] = mapping[p]]_vars

(* thread.h: a thread that thread_create returned has its own stack, every *)
(* page of it in a frame that was handed out for it.                       *)
OwnStacks ==
  \A t \in threads : \A p \in Pages(t.mem, t.stack_pages) :
    /\ mapping[p] \in bitmap \ Reserved
    /\ \A q \in LivePages \ {p} : mapping[q] # mapping[p]
=============================================================================
