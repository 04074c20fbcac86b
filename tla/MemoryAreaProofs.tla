-------------------------- MODULE MemoryAreaProofs --------------------------
(***************************************************************************)
(* What holds in Memory without exception, also after paging_map or        *)
(* thread_create_sized has gone on without a frame and memory is handed    *)
(* out twice: where stacks and blocks lie, what is mapped there, and that  *)
(* no live mapping changes.                                                *)
(***************************************************************************)
EXTENDS MemoryProofs

-----------------------------------------------------------------------------
(* The inductive invariant *)

(* A call that grows a cache for a thread still has room for its stack,    *)
(* and a loop is within its pages.                                         *)
LoopInv ==
  /\ call.at \in Holding => call.frame # NoFrame
  /\ call.at \in Growing => call.i = 0
  /\ call.at \in Growing /\ call.cache = ThreadPool =>
       call.pages >= 1 /\ next_stack_vaddr + call.pages + 1 <= StackLimit
  /\ call.at \in OnPages => call.pages >= 1 /\ call.i <= call.pages
  /\ call.at \in {"map_thread", "map_large"} => call.i < call.pages
  /\ call.at \in {"thread", "map_thread"} => call.object # NoObject

(* In the stack region nothing but stacks is mapped.  Below the regions a  *)
(* page is mapped to its own frame, as every slab is, or not at all.       *)
MappedInv ==
  /\ \A p \in StackBase .. StackLimit : mapping[p] # Unmapped => OnStack(p)
  /\ \A p \in Frames : p < LargeBase => mapping[p] = p \/ mapping[p] = Unmapped
  /\ mapping[Phantom] = Unmapped
  /\ \A s \in SlabFrames : s < LargeBase /\ mapping[s] = s

(* Whatever was or may be handed out lies below the regions; the one other *)
(* frame that kfree can release is the one behind a page that was mapped   *)
(* to the result of a failed pmm_alloc.                                    *)
Low(f) == f < LargeBase \/ f = Phantom

LowInv ==
  /\ \A f \in Frames : f \notin bitmap => Low(f)
  /\ call.frame # NoFrame => Low(call.frame)
  /\ \A p \in Frames : mapping[p] # Unmapped => Low(mapping[p])

AreaInv == /\ TypeOK /\ LoopInv /\ StacksLie /\ BlocksInv
           /\ MappedInv /\ LowInv

LEMMA AreaParts ==
  ASSUME AreaInv
  PROVE  TypeOK /\ LoopInv /\ StacksLie /\ BlocksInv /\ MappedInv /\ LowInv
  BY Zenon DEF AreaInv

LEMMA AreaNext ==
  ASSUME TypeOK', LoopInv', StacksLie', BlocksInv', MappedInv', LowInv'
  PROVE  AreaInv'
  BY Zenon DEF AreaInv

(* (uint32_t)-1 is a page of the recursive table. *)
LEMMA PhantomIsHigh ==
  /\ Phantom \in Frames /\ Phantom \in Nat /\ StackLimit <= Phantom /\ LargeBase <= Phantom
  /\ ~(DirectoryOf(Phantom) < RecursiveIndex)
<1>1. FrameCount \in Nat /\ TableEntries \in Nat \ {0} /\ RecursiveIndex \in Int
      /\ RecursiveIndex * TableEntries = FrameCount - TableEntries
  BY Sizes, Division
<1>2. StackLimit \in Nat /\ StackLimit <= RecursiveIndex * TableEntries /\ StackLimit < FrameCount
      /\ LargeBase \in Nat /\ LargeBase <= StackLimit
  BY Regions, RegionAssumption
<1>3. Phantom \in Nat /\ Phantom = FrameCount - 1 /\ StackLimit <= Phantom
  BY <1>1, <1>2 DEF Phantom
<1> DEFINE d == DirectoryOf(Phantom)
<1>4. d \in Nat /\ Phantom < (d + 1) * TableEntries
  BY <1>1, <1>3, Division DEF DirectoryOf
<1>5. ASSUME d < RecursiveIndex PROVE FALSE
  <2> HIDE DEF d
  <2>1. RecursiveIndex * TableEntries <= Phantom
    BY <1>1, <1>3
  <2>2. RecursiveIndex * TableEntries < (d + 1) * TableEntries
    BY <1>1, <1>3, <1>4, <2>1
  <2>3. RecursiveIndex < d + 1
    BY <1>1, <1>4, <2>2, Factors
  <2> QED BY <1>1, <1>4, <1>5, <2>3
<1> QED BY <1>2, <1>3, <1>5 DEF Frames, Phantom

(* Any frame that pmm_alloc returns is low. *)
LEMMA FoundIsLow ==
  ASSUME LowInv, NEW f \in Found(bitmap, search_hint)
  PROVE  Low(f)
  BY FoundIsFree DEF LowInv

-----------------------------------------------------------------------------
(* What a step leaves as it was *)

LEMMA StacksStay ==
  ASSUME TypeOK, StacksLie, AllThreads' \subseteq AllThreads,
         next_stack_vaddr' \in Nat, next_stack_vaddr <= next_stack_vaddr',
         Stacking' => CallThread' \notin threads'
  PROVE  StacksLie'
<1>1. ASSUME NEW t \in AllThreads' PROVE StackArea(t)'
  <2>1. /\ StackBase <= t.mem /\ t.stack_pages >= 1
        /\ t.mem + t.stack_pages < next_stack_vaddr
    BY Zenon DEF StacksLie, StackArea
  <2>2. t.mem \in Nat /\ t.stack_pages \in Nat /\ next_stack_vaddr \in Nat
    BY AreaTypes, StateTypes, Zenon
  <2>3. t.mem + t.stack_pages < next_stack_vaddr'
    BY <2>1, <2>2
  <2> QED BY <2>1, <2>3, Zenon DEF StackArea
<1>2. \A t, u \in AllThreads' : t = u \/ AreasApart(t, u)
  BY Zenon DEF StacksLie
<1>3. \A t, u : AreasApart(t, u)' <=> AreasApart(t, u)
  BY Zenon DEF AreasApart
<1> QED BY <1>1, <1>2, <1>3, Zenon DEF StacksLie

LEMMA TypesStay ==
  ASSUME TypeOK, UNCHANGED <<paging, caches, regions, owners>>,
         bitmap' \subseteq Frames, search_hint' \in 0 .. BitmapSize - 1,
         call' \in Calls, exhausted' \in BOOLEAN, panic' \in BOOLEAN
  PROVE  TypeOK'
<1>1. /\ mapping' = mapping /\ page_directory' = page_directory
      /\ slabs' = slabs /\ free_list' = free_list
      /\ next_large_vaddr' = next_large_vaddr /\ next_stack_vaddr' = next_stack_vaddr
      /\ held' = held /\ blocks' = blocks /\ threads' = threads
  BY Zenon DEF paging, caches, regions, owners
<1> QED BY <1>1, Zenon DEF TypeOK

LEMMA FlagTypes ==
  ASSUME TypeOK, exhausted' = exhausted, panic' = panic
  PROVE  exhausted' \in BOOLEAN /\ panic' \in BOOLEAN
  BY Zenon DEF TypeOK

(* A step that maps nothing, releases nothing and at most gives areas up.  *)
LEMMA AreasKeep ==
  ASSUME AreaInv, mapping' = mapping, slabs' = slabs, bitmap \subseteq bitmap',
         AllThreads' \subseteq AllThreads, AllBlocks' \subseteq AllBlocks,
         next_large_vaddr' = next_large_vaddr, next_stack_vaddr' = next_stack_vaddr,
         Stacking' => CallThread' \notin threads', Blocking' => CallBlock' \notin blocks',
         \A p \in Frames : OnStack(p) => OnStack(p)',
         call'.frame # NoFrame => Low(call'.frame)
  PROVE  StacksLie' /\ BlocksInv' /\ MappedInv' /\ LowInv'
<1> USE AreaParts
<1>1. StacksLie'
  <2>1. next_stack_vaddr' \in Nat /\ next_stack_vaddr <= next_stack_vaddr'
    BY StateTypes
  <2> QED BY <2>1, StacksStay
<1>2. BlocksInv'
  <2>1. next_large_vaddr' \in Nat /\ next_large_vaddr <= next_large_vaddr'
    BY StateTypes
  <2> QED BY <2>1, BlocksStay
<1>3. MappedInv'
  <2>1. SlabFrames' = SlabFrames
    BY SameSlabs
  <2>2. \A p \in StackBase .. StackLimit : p \in Frames
    BY FramesAreNumbers, Regions
  <2>3. \A p \in StackBase .. StackLimit : mapping'[p] # Unmapped => OnStack(p)'
    BY <2>2, Zenon DEF MappedInv
  <2> QED BY <2>1, <2>3, Zenon DEF MappedInv
<1>4. LowInv'
  <2>1. \A f : Low(f)' <=> Low(f)
    BY Zenon DEF Low
  <2> QED BY <2>1 DEF LowInv
<1> QED BY <1>1, <1>2, <1>3, <1>4

(* ... and does not touch the areas at all. *)
LEMMA AreasSame ==
  ASSUME AreaInv, UNCHANGED <<paging, caches, regions, owners>>, bitmap \subseteq bitmap',
         Stacking' <=> Stacking, Blocking' <=> Blocking,
         Stacking \/ Blocking =>
           /\ call'.at = "free" <=> call.at = "free"
           /\ call'.object = call.object /\ call'.base = call.base
           /\ call'.pages = call.pages /\ call'.i = call.i,
         call'.frame # NoFrame => Low(call'.frame)
  PROVE  StacksLie' /\ BlocksInv' /\ MappedInv' /\ LowInv'
<1> USE AreaParts
<1>1. /\ mapping' = mapping /\ slabs' = slabs
      /\ next_large_vaddr' = next_large_vaddr /\ next_stack_vaddr' = next_stack_vaddr
      /\ blocks' = blocks /\ threads' = threads
  BY Zenon DEF paging, caches, regions, owners
<1>2. /\ AllThreads' = AllThreads /\ AllBlocks' = AllBlocks
      /\ Stacking => CallThread' = CallThread
      /\ Blocking => CallBlock' = CallBlock
  BY <1>1, SameAreas
<1>3. Stacking' => CallThread' \notin threads'
  BY <1>1, <1>2, Zenon DEF StacksLie
<1>4. Blocking' => CallBlock' \notin blocks'
  BY <1>1, <1>2, Zenon DEF BlocksInv
<1>5. \A p : OnStack(p) => OnStack(p)'
  BY <1>1, SamePages
<1> QED BY <1>1, <1>2, <1>3, <1>4, <1>5, AreasKeep

-----------------------------------------------------------------------------
(* The steps that only move the call along *)

LEMMA IdleOwnsNothing ==
  ASSUME call.at = "idle"
  PROVE  ~Stacking /\ ~Blocking
  BY DEF Stacking, Blocking

LEMMA KmallocAreas ==
  ASSUME AreaInv, Kmalloc
  PROVE  AreaInv'
<1> USE AreaParts
<1>1. PICK c \in HeapCaches : call' = [Idle EXCEPT !.at = "slab_alloc", !.cache = c]
  BY Zenon DEF Kmalloc
<1>2. /\ call.at = "idle"
      /\ UNCHANGED <<frames, paging, caches, regions, owners, exhausted, panic>>
  BY Zenon DEF Kmalloc, At
<1>3. call' \in Calls /\ call'.frame = NoFrame /\ call'.at = "slab_alloc" /\ call'.i = 0
      /\ call'.cache = c /\ c # ThreadPool
  BY <1>1, IdleTypes, RegionAssumption DEF Calls, Caches
<1>4. TypeOK'
  BY <1>2, <1>3, SameBitmap, FlagTypes, TypesStay
<1>5. LoopInv'
  BY <1>3 DEF LoopInv, Growing, Holding, OnPages
<1>6. ~Stacking /\ ~Blocking /\ ~Stacking' /\ ~Blocking'
  BY <1>2, <1>3 DEF Stacking, Blocking
<1>7. StacksLie' /\ BlocksInv' /\ MappedInv' /\ LowInv'
  BY <1>2, <1>3, <1>6, SameBitmap, AreasSame
<1> QED BY <1>4, <1>5, <1>7, AreaNext

LEMMA ThreadCreateAreas ==
  ASSUME AreaInv, ThreadCreate
  PROVE  AreaInv'
<1> USE AreaParts
<1>1. PICK n \in StackSizes :
        /\ next_stack_vaddr + n + 1 <= StackLimit
        /\ call' = [Idle EXCEPT !.at = "slab_alloc", !.cache = ThreadPool, !.pages = n]
  BY Zenon DEF ThreadCreate
<1>2. /\ call.at = "idle"
      /\ UNCHANGED <<frames, paging, caches, regions, owners, exhausted, panic>>
  BY Zenon DEF ThreadCreate, At
<1>3. n \in Nat /\ n >= 1 /\ next_stack_vaddr' = next_stack_vaddr
  BY <1>2, RegionAssumption DEF regions
<1>4. call' \in Calls /\ call'.frame = NoFrame /\ call'.at = "slab_alloc" /\ call'.i = 0
      /\ call'.pages = n
  BY <1>1, <1>3, IdleTypes DEF Calls, Caches
<1>5. TypeOK'
  BY <1>2, <1>4, SameBitmap, FlagTypes, TypesStay
<1>6. LoopInv'
  BY <1>1, <1>3, <1>4 DEF LoopInv, Growing, Holding, OnPages
<1>7. ~Stacking /\ ~Blocking /\ ~Stacking' /\ ~Blocking'
  BY <1>2, <1>4 DEF Stacking, Blocking
<1>8. StacksLie' /\ BlocksInv' /\ MappedInv' /\ LowInv'
  BY <1>2, <1>4, <1>7, SameBitmap, AreasSame
<1> QED BY <1>5, <1>6, <1>8, AreaNext

(* pmm_alloc in slab_create and in the two loops: the frame is low. *)
LEMMA FrameTakenAreas ==
  ASSUME AreaInv, NEW f \in Frames, PmmAlloc(f), NEW place,
         UNCHANGED <<paging, caches, regions, owners, exhausted, panic>>,
         call' = [call EXCEPT !.at = place, !.frame = f],
         \/ call.at = "slab_alloc" /\ place = "map_slab"
         \/ call.at = "large" /\ call.i < call.pages /\ place = "map_large"
         \/ call.at = "thread" /\ call.i < call.pages /\ place = "map_thread"
  PROVE  AreaInv'
<1> USE AreaParts
<1>1. /\ call' \in Calls /\ call'.at = place /\ call'.frame = f
      /\ call'.object = call.object /\ call'.base = call.base
      /\ call'.pages = call.pages /\ call'.i = call.i /\ call'.cache = call.cache
  BY CallTypes DEF Calls
<1>2. /\ bitmap' \subseteq Frames /\ search_hint' \in 0 .. BitmapSize - 1
      /\ bitmap' = bitmap \cup {f} /\ f # NoFrame
  BY AllocTypes, FramesAreNumbers
<1>3. Low(f)
  BY FoundIsLow DEF PmmAlloc
<1>4. TypeOK'
  BY <1>1, <1>2, FlagTypes, TypesStay
<1>5. LoopInv'
  <2>1. next_stack_vaddr' = next_stack_vaddr
    BY DEF regions
  <2> QED BY <1>1, <1>2, <2>1 DEF LoopInv, Growing, Holding, OnPages
<1>6. (Stacking' <=> Stacking) /\ (Blocking' <=> Blocking)
  BY <1>1 DEF Stacking, Blocking
<1>7. Stacking \/ Blocking => (call'.at = "free" <=> call.at = "free")
  BY <1>1
<1>8. StacksLie' /\ BlocksInv' /\ MappedInv' /\ LowInv'
  BY <1>1, <1>2, <1>3, <1>6, <1>7, AreasSame
<1> QED BY <1>4, <1>5, <1>8, AreaNext

LEMMA SlabGrowAreas ==
  ASSUME AreaInv, SlabGrow
  PROVE  AreaInv'
<1>1. /\ call.at = "slab_alloc"
      /\ UNCHANGED <<paging, caches, regions, owners, exhausted, panic>>
  BY Zenon DEF SlabGrow, At
<1>2. PICK f \in Frames :
        PmmAlloc(f) /\ call' = [call EXCEPT !.at = "map_slab", !.frame = f]
  BY Zenon DEF SlabGrow
<1> QED BY <1>1, <1>2, FrameTakenAreas

LEMMA LargePageAreas ==
  ASSUME AreaInv, LargePage
  PROVE  AreaInv'
<1>1. /\ call.at = "large" /\ call.i < call.pages
      /\ UNCHANGED <<paging, caches, regions, owners, exhausted, panic>>
  BY Zenon DEF LargePage, At
<1>2. PICK f \in Frames :
        PmmAlloc(f) /\ call' = [call EXCEPT !.at = "map_large", !.frame = f]
  BY Zenon DEF LargePage
<1> QED BY <1>1, <1>2, FrameTakenAreas

LEMMA StackPageAreas ==
  ASSUME AreaInv, StackPage
  PROVE  AreaInv'
<1>1. /\ call.at = "thread" /\ call.i < call.pages
      /\ UNCHANGED <<paging, caches, regions, owners, exhausted, panic>>
  BY Zenon DEF StackPage, At
<1>2. PICK f \in Frames :
        PmmAlloc(f) /\ call' = [call EXCEPT !.at = "map_thread", !.frame = f]
  BY Zenon DEF StackPage
<1> QED BY <1>1, <1>2, FrameTakenAreas

(* ... and the stack loop without a frame: (uint32_t)-1 *)
LEMMA StackPhantomAreas ==
  ASSUME AreaInv, StackPhantom
  PROVE  AreaInv'
<1> USE AreaParts
<1>1. /\ call.at = "thread" /\ call.i < call.pages
      /\ call' = [call EXCEPT !.at = "map_thread", !.frame = Phantom]
      /\ UNCHANGED <<frames, paging, caches, regions, owners, panic>>
  BY Zenon DEF StackPhantom, At
<1>2. exhausted' \in BOOLEAN /\ panic' \in BOOLEAN
  BY <1>1, Zenon DEF StackPhantom, TypeOK
<1>3. /\ call' \in Calls /\ call'.at = "map_thread" /\ call'.frame = Phantom
      /\ call'.object = call.object /\ call'.base = call.base
      /\ call'.pages = call.pages /\ call'.i = call.i /\ call'.cache = call.cache
  BY <1>1, CallTypes, PhantomIsHigh DEF Calls
<1>4. TypeOK'
  BY <1>1, <1>2, <1>3, SameBitmap, TypesStay
<1>5. LoopInv'
  BY <1>1, <1>3, PhantomIsHigh, FramesAreNumbers DEF LoopInv, Growing, Holding, OnPages
<1>6. (Stacking' <=> Stacking) /\ (Blocking' <=> Blocking)
  BY <1>1, <1>3 DEF Stacking, Blocking
<1>7. Low(Phantom)
  BY DEF Low
<1>8. StacksLie' /\ BlocksInv' /\ MappedInv' /\ LowInv'
  BY <1>1, <1>3, <1>6, <1>7, SameBitmap, AreasSame
<1> QED BY <1>4, <1>5, <1>8, AreaNext

(* A call that returns without having got anything *)
LEMMA SlabRefuseAreas ==
  ASSUME AreaInv, SlabRefuse
  PROVE  AreaInv'
<1> USE AreaParts
<1>1. /\ call.at = "slab_alloc" /\ call' = Idle
      /\ UNCHANGED <<frames, paging, caches, regions, owners, exhausted, panic>>
  BY Zenon DEF SlabRefuse, At
<1>2. call' \in Calls /\ call'.frame = NoFrame /\ call'.at = "idle"
  BY <1>1, IdleTypes
<1>3. TypeOK'
  BY <1>1, <1>2, SameBitmap, FlagTypes, TypesStay
<1>4. LoopInv'
  BY <1>2 DEF LoopInv, Growing, Holding, OnPages
<1>5. ~Stacking /\ ~Blocking /\ ~Stacking' /\ ~Blocking'
  BY <1>1, <1>2 DEF Stacking, Blocking
<1>6. StacksLie' /\ BlocksInv' /\ MappedInv' /\ LowInv'
  BY <1>1, <1>2, <1>5, SameBitmap, AreasSame
<1> QED BY <1>3, <1>4, <1>6, AreaNext

(* A step that does not move the call: none at all, or a page fault. *)
LEMMA HaltAreas ==
  ASSUME AreaInv, UNCHANGED <<frames, paging, caches, regions, owners, call>>,
         exhausted' \in BOOLEAN, panic' \in BOOLEAN
  PROVE  AreaInv'
<1> USE AreaParts
<1>1. call' = call /\ call' \in Calls
  BY CallTypes
<1>2. TypeOK'
  BY <1>1, SameBitmap, TypesStay
<1>3. LoopInv'
  <2>1. next_stack_vaddr' = next_stack_vaddr
    BY DEF regions
  <2> QED BY <1>1, <2>1, Zenon DEF LoopInv
<1>4. (Stacking' <=> Stacking) /\ (Blocking' <=> Blocking)
  BY <1>1, Zenon DEF Stacking, Blocking
<1>5. call'.frame # NoFrame => Low(call'.frame)
  BY <1>1, Zenon DEF LowInv
<1>6. StacksLie' /\ BlocksInv' /\ MappedInv' /\ LowInv'
  BY <1>1, <1>4, <1>5, SameBitmap, AreasSame
<1> QED BY <1>2, <1>3, <1>6, AreaNext

LEMMA FaultAreas ==
  ASSUME AreaInv, PageFault
  PROVE  AreaInv'
<1>1. /\ UNCHANGED <<frames, paging, caches, regions, owners, call>>
      /\ exhausted' = exhausted /\ panic' = TRUE
  BY Zenon DEF PageFault
<1>2. exhausted' \in BOOLEAN /\ panic' \in BOOLEAN
  BY <1>1, AreaParts, Zenon DEF TypeOK
<1> QED BY <1>1, <1>2, HaltAreas

-----------------------------------------------------------------------------
(* The steps that begin or end the life of a block or a thread *)

LEMMA KmallocLargeAreas ==
  ASSUME AreaInv, KmallocLarge
  PROVE  AreaInv'
<1> USE AreaParts
<1>1. PICK n \in LargeSizes :
        /\ next_large_vaddr + n <= LargeEnd
        /\ next_large_vaddr' = next_large_vaddr + n
        /\ call' = [Idle EXCEPT !.at = "large", !.base = next_large_vaddr, !.pages = n]
  BY Zenon DEF KmallocLarge
<1>2. /\ call.at = "idle"
      /\ UNCHANGED <<frames, paging, caches, next_stack_vaddr, owners, exhausted, panic>>
  BY Zenon DEF KmallocLarge, At
<1>3. /\ mapping' = mapping /\ slabs' = slabs /\ next_stack_vaddr' = next_stack_vaddr
      /\ held' = held /\ blocks' = blocks /\ threads' = threads
  BY <1>2, Zenon DEF paging, caches, owners
<1>4. n \in Nat /\ n >= 1 /\ next_large_vaddr \in Nat /\ next_large_vaddr' \in LargeBase .. LargeEnd
  BY <1>1, RegionAssumption, StateTypes, Regions
<1>5. next_large_vaddr \in Frames
  BY StateTypes, FramesAreNumbers, Regions
<1>6. /\ call' \in Calls /\ call'.frame = NoFrame /\ call'.at = "large" /\ call'.i = 0
      /\ call'.base = next_large_vaddr /\ call'.pages = n
  BY <1>1, <1>4, <1>5, IdleTypes DEF Calls
<1>7. TypeOK'
  <2>1. /\ blocks' \subseteq Blocks /\ next_stack_vaddr' \in StackBase .. StackLimit
        /\ threads' \subseteq [header : Objects, mem : Frames, stack_pages : Nat]
    BY <1>3, StateTypes, Zenon
  <2>2. UNCHANGED <<frames, paging, caches, held, exhausted, panic>>
    BY <1>2, <1>3, Zenon
  <2> QED BY <1>4, <1>6, <2>1, <2>2, OwnerTypes
<1>8. LoopInv'
  BY <1>4, <1>6 DEF LoopInv, Growing, Holding, OnPages
<1>9. ~Stacking /\ ~Blocking /\ ~Stacking' /\ Blocking'
  BY <1>2, <1>6 DEF Stacking, Blocking
<1>10. StacksLie'
  <2>1. AllThreads' = AllThreads
    BY <1>3, <1>9, Zenon DEF AllThreads
  <2>2. next_stack_vaddr' \in Nat /\ next_stack_vaddr <= next_stack_vaddr'
    BY <1>3, StateTypes
  <2> QED BY <1>9, <2>1, <2>2, StacksStay
<1>11. BlocksInv'
  BY <1>1, <1>3, <1>4, <1>6, <1>9, BlockAdded
<1>12. MappedInv'
  <2>1. \A p : OnStack(p)' <=> OnStack(p)
    BY <1>3, <1>9, Zenon DEF OnStack
  <2>2. SlabFrames' = SlabFrames
    BY <1>3, SameSlabs
  <2> QED BY <1>3, <2>1, <2>2, Zenon DEF MappedInv
<1>13. LowInv'
  <2>1. bitmap' = bitmap
    BY <1>2, SameBitmap
  <2> QED BY <1>3, <1>6, <2>1 DEF LowInv, Low
<1> QED BY <1>7, <1>8, <1>10, <1>11, <1>12, <1>13, AreaNext

LEMMA LargeRefuseAreas ==
  ASSUME AreaInv, LargeRefuse
  PROVE  AreaInv'
<1> USE AreaParts
<1>1. /\ call.at = "large" /\ call' = Idle
      /\ UNCHANGED <<frames, paging, caches, regions, owners, exhausted, panic>>
  BY Zenon DEF LargeRefuse, At
<1>2. call' \in Calls /\ call'.frame = NoFrame /\ call'.at = "idle"
  BY <1>1, IdleTypes
<1>3. /\ mapping' = mapping /\ slabs' = slabs
      /\ next_large_vaddr' = next_large_vaddr /\ next_stack_vaddr' = next_stack_vaddr
      /\ blocks' = blocks /\ threads' = threads
  BY <1>1, Zenon DEF paging, caches, regions, owners
<1>4. TypeOK'
  BY <1>1, <1>2, SameBitmap, FlagTypes, TypesStay
<1>5. LoopInv'
  BY <1>2 DEF LoopInv, Growing, Holding, OnPages
<1>6. ~Stacking /\ ~Stacking' /\ ~Blocking'
  BY <1>1, <1>2 DEF Stacking, Blocking
<1>7. AllThreads' \subseteq AllThreads /\ AllBlocks' \subseteq AllBlocks
  BY <1>3, <1>6, Zenon DEF AllThreads, AllBlocks
<1>8. \A p \in Frames : OnStack(p) => OnStack(p)'
  BY <1>3, <1>6, Zenon DEF OnStack
<1>9. StacksLie' /\ BlocksInv' /\ MappedInv' /\ LowInv'
  BY <1>1, <1>2, <1>3, <1>6, <1>7, <1>8, SameBitmap, AreasKeep
<1> QED BY <1>4, <1>5, <1>9, AreaNext

LEMMA LargeDoneAreas ==
  ASSUME AreaInv, LargeDone
  PROVE  AreaInv'
<1> USE AreaParts
<1>1. /\ call.at = "large" /\ call' = Idle
      /\ blocks' = blocks \cup {[base |-> call.base, pages |-> call.pages]}
      /\ UNCHANGED <<frames, paging, caches, regions, held, threads, exhausted, panic>>
  BY Zenon DEF LargeDone, At
<1>2. call' \in Calls /\ call'.frame = NoFrame /\ call'.at = "idle"
  BY <1>1, IdleTypes
<1>3. /\ mapping' = mapping /\ slabs' = slabs
      /\ next_large_vaddr' = next_large_vaddr /\ next_stack_vaddr' = next_stack_vaddr
      /\ threads' = threads
  BY <1>1, Zenon DEF paging, caches, regions
<1>4. blocks' = blocks \cup {CallBlock} /\ CallBlock \in Blocks
  BY <1>1, CallTypes DEF CallBlock, Blocks
<1>5. TypeOK'
  <2>1. /\ blocks' \subseteq Blocks
        /\ threads' \subseteq [header : Objects, mem : Frames, stack_pages : Nat]
        /\ next_large_vaddr' \in LargeBase .. LargeEnd
        /\ next_stack_vaddr' \in StackBase .. StackLimit
    BY <1>3, <1>4, StateTypes, Zenon
  <2>2. UNCHANGED <<frames, paging, caches, held, exhausted, panic>>
    BY <1>1, Zenon
  <2> QED BY <1>2, <2>1, <2>2, OwnerTypes
<1>6. LoopInv'
  BY <1>2 DEF LoopInv, Growing, Holding, OnPages
<1>7. ~Stacking /\ Blocking /\ ~Stacking' /\ ~Blocking'
  BY <1>1, <1>2 DEF Stacking, Blocking
<1>8. AllThreads' \subseteq AllThreads /\ AllBlocks' \subseteq AllBlocks
  BY <1>3, <1>4, <1>7, Zenon DEF AllThreads, AllBlocks
<1>9. \A p \in Frames : OnStack(p) => OnStack(p)'
  BY <1>3, <1>7, Zenon DEF OnStack
<1>10. StacksLie' /\ BlocksInv' /\ MappedInv' /\ LowInv'
  BY <1>1, <1>2, <1>3, <1>7, <1>8, <1>9, SameBitmap, AreasKeep
<1> QED BY <1>5, <1>6, <1>10, AreaNext

LEMMA KfreeLargeAreas ==
  ASSUME AreaInv, KfreeLarge
  PROVE  AreaInv'
<1> USE AreaParts
<1>1. PICK b \in blocks :
        /\ blocks' = blocks \ {b}
        /\ call' = [Idle EXCEPT !.at = "free", !.base = b.base, !.pages = b.pages]
  BY Zenon DEF KfreeLarge
<1>2. /\ call.at = "idle"
      /\ UNCHANGED <<frames, paging, caches, regions, held, threads, exhausted, panic>>
  BY Zenon DEF KfreeLarge, At
<1>3. /\ mapping' = mapping /\ slabs' = slabs
      /\ next_large_vaddr' = next_large_vaddr /\ next_stack_vaddr' = next_stack_vaddr
      /\ threads' = threads
  BY <1>2, Zenon DEF paging, caches, regions
<1>4. /\ b.base \in Frames /\ b.pages \in Nat /\ b.pages >= 1 /\ b \in AllBlocks
      /\ b = [base |-> b.base, pages |-> b.pages]
  <2>1. b \in AllBlocks
    BY Zenon DEF AllBlocks
  <2>2. b.pages >= 1
    BY <2>1, Zenon DEF BlocksInv, BlockBelow
  <2>3. b \in Blocks
    BY StateTypes
  <2> QED BY <2>1, <2>2, <2>3 DEF Blocks
<1>5. /\ call' \in Calls /\ call'.frame = NoFrame /\ call'.at = "free" /\ call'.i = 0
      /\ call'.base = b.base /\ call'.pages = b.pages /\ call'.object = NoObject
  BY <1>1, <1>4, IdleTypes DEF Calls
<1>6. CallBlock' = b
  BY <1>4, <1>5 DEF CallBlock
<1>7. TypeOK'
  <2>1. /\ blocks' \subseteq Blocks
        /\ threads' \subseteq [header : Objects, mem : Frames, stack_pages : Nat]
        /\ next_large_vaddr' \in LargeBase .. LargeEnd
        /\ next_stack_vaddr' \in StackBase .. StackLimit
    BY <1>1, <1>3, StateTypes, Zenon
  <2>2. UNCHANGED <<frames, paging, caches, held, exhausted, panic>>
    BY <1>2, Zenon
  <2> QED BY <1>5, <2>1, <2>2, OwnerTypes
<1>8. LoopInv'
  BY <1>4, <1>5 DEF LoopInv, Growing, Holding, OnPages
<1>9. ~Stacking /\ ~Blocking /\ ~Stacking' /\ Blocking'
  BY <1>2, <1>5 DEF Stacking, Blocking
<1>10. AllThreads' \subseteq AllThreads /\ AllBlocks' \subseteq AllBlocks
  BY <1>1, <1>3, <1>4, <1>6, <1>9, Zenon DEF AllThreads, AllBlocks
<1>11. CallBlock' \notin blocks'
  BY <1>1, <1>6, Zenon
<1>12. \A p \in Frames : OnStack(p) => OnStack(p)'
  BY <1>3, <1>9, Zenon DEF OnStack
<1>13. StacksLie' /\ BlocksInv' /\ MappedInv' /\ LowInv'
  BY <1>2, <1>3, <1>5, <1>9, <1>10, <1>11, <1>12, SameBitmap, AreasKeep
<1> QED BY <1>7, <1>8, <1>13, AreaNext

LEMMA ThreadReadyAreas ==
  ASSUME AreaInv, ThreadReady
  PROVE  AreaInv'
<1> USE AreaParts
<1>1. /\ call.at = "thread" /\ call.i = call.pages /\ call' = Idle
      /\ threads' = threads \cup {[header |-> call.object, mem |-> call.base,
                                   stack_pages |-> call.pages]}
      /\ UNCHANGED <<frames, paging, caches, regions, held, blocks, exhausted, panic>>
  BY Zenon DEF ThreadReady, At
<1>2. call' \in Calls /\ call'.frame = NoFrame /\ call'.at = "idle"
  BY <1>1, IdleTypes
<1>3. /\ mapping' = mapping /\ slabs' = slabs
      /\ next_large_vaddr' = next_large_vaddr /\ next_stack_vaddr' = next_stack_vaddr
      /\ blocks' = blocks
  BY <1>1, Zenon DEF paging, caches, regions
<1>4. /\ threads' = threads \cup {CallThread}
      /\ CallThread \in [header : Objects, mem : Frames, stack_pages : Nat]
  BY <1>1, CallTypes DEF CallThread, LoopInv
<1>5. TypeOK'
  <2>1. /\ blocks' \subseteq Blocks
        /\ threads' \subseteq [header : Objects, mem : Frames, stack_pages : Nat]
        /\ next_large_vaddr' \in LargeBase .. LargeEnd
        /\ next_stack_vaddr' \in StackBase .. StackLimit
    BY <1>3, <1>4, StateTypes, Zenon
  <2>2. UNCHANGED <<frames, paging, caches, held, exhausted, panic>>
    BY <1>1, Zenon
  <2> QED BY <1>2, <2>1, <2>2, OwnerTypes
<1>6. LoopInv'
  BY <1>2 DEF LoopInv, Growing, Holding, OnPages
<1>7. Stacking /\ ~Blocking /\ ~Stacking' /\ ~Blocking'
  BY <1>1, <1>2 DEF Stacking, Blocking
<1>8. AllThreads' \subseteq AllThreads /\ AllBlocks' \subseteq AllBlocks
  BY <1>3, <1>4, <1>7, Zenon DEF AllThreads, AllBlocks
<1>9. \A p \in Frames : OnStack(p) => OnStack(p)'
  <2>1. \A p : InCall(p) => CallThread.mem <= p /\ p < CallThread.mem + CallThread.stack_pages
    BY <1>1 DEF InCall, CallThread
  <2> QED BY <1>4, <1>7, <2>1, Zenon DEF OnStack
<1>10. StacksLie' /\ BlocksInv' /\ MappedInv' /\ LowInv'
  BY <1>1, <1>2, <1>3, <1>7, <1>8, <1>9, SameBitmap, AreasKeep
<1> QED BY <1>5, <1>6, <1>10, AreaNext

LEMMA ThreadDestroyAreas ==
  ASSUME AreaInv, ThreadDestroy
  PROVE  AreaInv'
<1> USE AreaParts
<1>1. PICK t \in threads :
        /\ threads' = threads \ {t}
        /\ call' = [Idle EXCEPT !.at = "free", !.object = t.header,
                                !.base = t.mem, !.pages = t.stack_pages]
  BY Zenon DEF ThreadDestroy
<1>2. /\ call.at = "idle"
      /\ UNCHANGED <<frames, paging, caches, regions, held, blocks, exhausted, panic>>
  BY Zenon DEF ThreadDestroy, At
<1>3. /\ mapping' = mapping /\ slabs' = slabs
      /\ next_large_vaddr' = next_large_vaddr /\ next_stack_vaddr' = next_stack_vaddr
      /\ blocks' = blocks
  BY <1>2, Zenon DEF paging, caches, regions
<1>4. /\ t.mem \in Frames /\ t.mem \in Nat /\ t.stack_pages \in Nat /\ t.stack_pages >= 1
      /\ t.header \in Objects /\ t.header # NoObject /\ t \in AllThreads
      /\ t = [header |-> t.header, mem |-> t.mem, stack_pages |-> t.stack_pages]
  <2>1. t \in AllThreads
    BY Zenon DEF AllThreads
  <2>2. t.stack_pages >= 1
    BY <2>1, Zenon DEF StacksLie, StackArea
  <2> QED BY <2>1, <2>2, StateTypes, FramesAreNumbers, ObjectsExist
<1>5. /\ call' \in Calls /\ call'.frame = NoFrame /\ call'.at = "free" /\ call'.i = 0
      /\ call'.base = t.mem /\ call'.pages = t.stack_pages /\ call'.object = t.header
  BY <1>1, <1>4, IdleTypes DEF Calls
<1>6. CallThread' = t
  BY <1>4, <1>5 DEF CallThread
<1>7. TypeOK'
  <2>1. /\ blocks' \subseteq Blocks
        /\ threads' \subseteq [header : Objects, mem : Frames, stack_pages : Nat]
        /\ next_large_vaddr' \in LargeBase .. LargeEnd
        /\ next_stack_vaddr' \in StackBase .. StackLimit
    BY <1>1, <1>3, StateTypes, Zenon
  <2>2. UNCHANGED <<frames, paging, caches, held, exhausted, panic>>
    BY <1>2, Zenon
  <2> QED BY <1>5, <2>1, <2>2, OwnerTypes
<1>8. LoopInv'
  BY <1>4, <1>5 DEF LoopInv, Growing, Holding, OnPages
<1>9. ~Stacking /\ ~Blocking /\ Stacking' /\ ~Blocking'
  BY <1>2, <1>4, <1>5 DEF Stacking, Blocking
<1>10. AllThreads' \subseteq AllThreads /\ AllBlocks' \subseteq AllBlocks
  BY <1>1, <1>3, <1>4, <1>6, <1>9, Zenon DEF AllThreads, AllBlocks
<1>11. CallThread' \notin threads'
  BY <1>1, <1>6, Zenon
<1>12. \A p \in Frames : OnStack(p) => OnStack(p)'
  <2>1. \A p : t.mem <= p /\ p < t.mem + t.stack_pages => InCall(p)'
    BY <1>4, <1>5 DEF InCall
  <2> QED BY <1>1, <1>9, <2>1, Zenon DEF OnStack
<1>13. StacksLie' /\ BlocksInv' /\ MappedInv' /\ LowInv'
  BY <1>2, <1>3, <1>5, <1>9, <1>10, <1>11, <1>12, SameBitmap, AreasKeep
<1> QED BY <1>7, <1>8, <1>13, AreaNext

-----------------------------------------------------------------------------
(* The steps that map or unmap a page *)

(* The frame paging_map is given, and where it goes: a slab to its own     *)
(* number, any other page into the area of the call.                       *)
LEMMA MapTarget ==
  ASSUME AreaInv, Mapping
  PROVE  /\ call.frame \in Frames /\ Low(call.frame) /\ PageToMap \in Frames
         /\ call.at = "map_slab" => PageToMap = call.frame /\ ~Stacking /\ ~Blocking
         /\ call.at # "map_slab" =>
              /\ PageToMap = call.base + call.i /\ call.i < call.pages
              /\ PageToMap \in LargeBase .. StackLimit /\ PageToMap < StackLimit
              /\ Stacking \/ Blocking
              /\ Stacking => StackBase <= PageToMap
              /\ Blocking => PageToMap < StackBase
<1> USE AreaParts
<1>1. call.frame \in Frames /\ Low(call.frame)
  BY CallTypes DEF Mapping, LoopInv, LowInv, Holding
<1>2. CASE call.at = "map_slab"
  BY <1>1, <1>2 DEF PageToMap, Stacking, Blocking
<1>3. CASE call.at # "map_slab"
  <2>1. call.at \in {"map_thread", "map_large"} /\ PageToMap = call.base + call.i
    BY <1>3 DEF Mapping, PageToMap
  <2>2. call.i < call.pages /\ (Stacking \/ Blocking)
    BY <2>1 DEF LoopInv, Stacking, Blocking
  <2>3. /\ PageToMap \in Frames /\ PageToMap \in LargeBase .. StackLimit
        /\ Stacking => StackBase <= PageToMap /\ PageToMap < StackLimit
        /\ Blocking => PageToMap < StackBase
    BY <2>1, <2>2, CallPage
  <2>4. PageToMap < StackLimit
    BY <2>2, <2>3, Regions
  <2> QED BY <1>1, <1>3, <2>1, <2>2, <2>3, <2>4
<1> QED BY <1>2, <1>3

(* Back to a loop from paging_map *)
LEMMA BackToLoop ==
  ASSUME TypeOK, NEW place \in {"thread", "large"},
         call' = [call EXCEPT !.at = place, !.i = @ + 1, !.frame = NoFrame]
  PROVE  /\ call' \in Calls /\ call'.at = place /\ call'.i = call.i + 1
         /\ call'.frame = NoFrame /\ call'.cache = call.cache
         /\ call'.object = call.object /\ call'.base = call.base
         /\ call'.pages = call.pages
<1>1. call \in Calls
  BY CallTypes
<1>2. [call EXCEPT !.at = place, !.frame = NoFrame] \in Calls
  BY <1>1 DEF Calls
<1>3. call' = [[call EXCEPT !.at = place, !.frame = NoFrame] EXCEPT !.i = @ + 1]
  BY <1>1 DEF Calls
<1>4. call' \in Calls
  BY <1>2, <1>3, CallAdvances
<1> QED BY <1>1, <1>4 DEF Calls

(* paging_map, whether or not it maps the page; the table is another's. *)
LEMMA MappedAreas ==
  ASSUME AreaInv, Mapping, AfterMap, UNCHANGED <<caches, regions, owners, panic>>,
         bitmap' \subseteq Frames, search_hint' \in 0 .. BitmapSize - 1,
         bitmap \subseteq bitmap',
         page_directory' \in [Directories -> Frames \cup {Absent, BootTable}],
         exhausted' \in BOOLEAN,
         \/ mapping' = mapping
         \/ /\ mapping' = [mapping EXCEPT ![PageToMap] = call.frame]
            /\ DirectoryOf(PageToMap) < RecursiveIndex
  PROVE  AreaInv'
<1> USE AreaParts
<1> DEFINE p == PageToMap
           f == call.frame
           T == DirectoryOf(p) < RecursiveIndex
<1>1. /\ slabs' = slabs /\ free_list' = free_list
      /\ next_large_vaddr' = next_large_vaddr /\ next_stack_vaddr' = next_stack_vaddr
      /\ held' = held /\ blocks' = blocks /\ threads' = threads
  BY Zenon DEF caches, regions, owners
<1>2. /\ f \in Frames /\ Low(f) /\ p \in Frames /\ f # Unmapped
      /\ call.at = "map_slab" => p = f /\ ~Stacking /\ ~Blocking
      /\ call.at # "map_slab" =>
           /\ p = call.base + call.i /\ call.i < call.pages
           /\ p \in LargeBase .. StackLimit /\ p < StackLimit
           /\ Stacking \/ Blocking
           /\ Stacking => StackBase <= p
           /\ Blocking => p < StackBase
  BY MapTarget, FramesAreNumbers
<1>3. /\ call' \in Calls
      /\ call'.cache = call.cache /\ call'.object = call.object
      /\ call'.base = call.base /\ call'.pages = call.pages
      /\ \/ /\ call.at = "map_slab" /\ call'.at = "slab_create"
            /\ call'.i = call.i /\ call'.frame = f
         \/ /\ call.at = "map_thread" /\ call'.at = "thread"
            /\ call'.i = call.i + 1 /\ call'.frame = NoFrame
         \/ /\ call.at = "map_large" /\ call'.at = "large"
            /\ call'.i = call.i + 1 /\ call'.frame = NoFrame
  <2> HIDE DEF p, f
  <2>1. CASE call.at = "map_slab"
    <3>1. call' = [call EXCEPT !.at = "slab_create"]
      BY <2>1 DEF AfterMap
    <3> QED BY <2>1, <3>1, CallTypes DEF Calls, f
  <2>2. CASE call.at = "map_thread"
    <3>1. call' = [call EXCEPT !.at = "thread", !.i = @ + 1, !.frame = NoFrame]
      BY <2>2 DEF AfterMap
    <3> QED BY <2>2, <3>1, BackToLoop
  <2>3. CASE call.at = "map_large"
    <3>1. call' = [call EXCEPT !.at = "large", !.i = @ + 1, !.frame = NoFrame]
      BY <2>3 DEF AfterMap
    <3> QED BY <2>3, <3>1, BackToLoop
  <2> QED BY <2>1, <2>2, <2>3 DEF Mapping
<1>4. /\ mapping' \in [Frames -> Frames \cup {Unmapped}]
      /\ \A q \in Frames : mapping'[q] = mapping[q] \/ (q = p /\ mapping'[q] = f /\ T)
  <2>1. mapping \in [Frames -> Frames \cup {Unmapped}]
    BY StateTypes
  <2> HIDE DEF p, f, T
  <2>2. CASE mapping' = mapping
    BY <2>1, <2>2
  <2>3. CASE mapping' = [mapping EXCEPT ![p] = f] /\ T
    BY <1>2, <2>1, <2>3
  <2> QED BY <2>2, <2>3 DEF p, f, T
<1>5. T => p # Phantom
  BY PhantomIsHigh
<1> HIDE DEF p, f, T
<1>6. TypeOK'
  <2>1. panic' \in BOOLEAN
    BY Zenon DEF TypeOK
  <2> QED BY <1>1, <1>3, <1>4, <2>1, Zenon DEF TypeOK
<1>7. LoopInv'
  <2>1. call.i \in Nat /\ call.pages \in Nat /\ f # NoFrame
    BY <1>2, CallTypes, FramesAreNumbers
  <2>2. /\ call.at = "map_slab" => call.i = 0
        /\ call.at = "map_slab" /\ call.cache = ThreadPool =>
             call.pages >= 1 /\ next_stack_vaddr + call.pages + 1 <= StackLimit
        /\ call.at \in {"map_thread", "map_large"} => call.pages >= 1 /\ call.i < call.pages
        /\ call.at = "map_thread" => call.object # NoObject
    BY DEF LoopInv, Growing, OnPages
  <2>3. CASE call.at = "map_slab"
    BY <1>1, <1>3, <2>1, <2>2, <2>3 DEF LoopInv, Growing, Holding, OnPages
  <2>4. CASE call.at \in {"map_thread", "map_large"}
    BY <1>3, <2>1, <2>2, <2>4 DEF LoopInv, Growing, Holding, OnPages
  <2> QED BY <1>3, <2>3, <2>4
<1>8. (Stacking' <=> Stacking) /\ (Blocking' <=> Blocking)
  BY <1>3 DEF Stacking, Blocking
<1>9. /\ AllThreads' = AllThreads /\ AllBlocks' = AllBlocks
      /\ Stacking => CallThread' = CallThread
      /\ Blocking => CallBlock' = CallBlock
  BY <1>1, <1>3, <1>8, SameAreas
<1>10. StacksLie'
  <2>1. Stacking' => CallThread' \notin threads'
    BY <1>1, <1>8, <1>9, Zenon DEF StacksLie
  <2>2. next_stack_vaddr' \in Nat /\ next_stack_vaddr <= next_stack_vaddr'
    BY <1>1, StateTypes
  <2> QED BY <1>9, <2>1, <2>2, StacksStay
<1>11. BlocksInv'
  <2>1. Blocking' => CallBlock' \notin blocks'
    BY <1>1, <1>8, <1>9, Zenon DEF BlocksInv
  <2>2. next_large_vaddr' \in Nat /\ next_large_vaddr <= next_large_vaddr'
    BY <1>1, StateTypes
  <2> QED BY <1>9, <2>1, <2>2, BlocksStay
<1>12. \A q \in Frames : OnStack(q) => OnStack(q)'
  <2>1. ASSUME NEW q \in Frames, Stacking, InCall(q) PROVE InCall(q)'
    BY <1>2, <1>3, <2>1, CallTypes, FramesAreNumbers DEF InCall
  <2> QED BY <1>1, <1>8, <2>1, Zenon DEF OnStack
<1>13. ASSUME NEW q, q = p, Stacking PROVE OnStack(q)'
  <2>1. InCall(q)'
    <3>1. q = call.base + call.i /\ call'.base = call.base /\ call'.i = call.i + 1
          /\ call'.at # "free"
      BY <1>2, <1>3, <1>13
    <3> QED BY <3>1, CallTypes DEF InCall
  <2> QED BY <1>8, <1>13, <2>1, Zenon DEF OnStack
<1>14. MappedInv'
  <2>0. LargeBase <= StackBase /\ StackBase <= StackLimit /\ LargeBase \in Nat /\ StackBase \in Nat
        /\ StackLimit \in Nat /\ p \in Nat
    BY <1>2, Regions, FramesAreNumbers
  <2>1. ASSUME NEW q \in StackBase .. StackLimit, mapping'[q] # Unmapped PROVE OnStack(q)'
    <3>1. q \in Frames
      BY FramesAreNumbers, Regions
    <3>2. CASE mapping'[q] = mapping[q]
      <4>1. OnStack(q)
        BY <2>1, <3>2, Zenon DEF MappedInv
      <4> QED BY <1>12, <3>1, <4>1, Zenon
    <3>3. CASE q = p /\ T
      <4>1. call.at # "map_slab"
        BY <1>2, <1>5, <2>0, <3>3 DEF Low
      <4>2. Stacking
        BY <1>2, <2>0, <3>3, <4>1
      <4> QED BY <1>13, <3>3, <4>2, Zenon
    <3> QED BY <1>4, <3>1, <3>2, <3>3
  <2>2. ASSUME NEW q \in Frames, q < LargeBase
        PROVE  mapping'[q] = q \/ mapping'[q] = Unmapped
    <3>1. mapping[q] = q \/ mapping[q] = Unmapped
      BY <2>2, Zenon DEF MappedInv
    <3>2. CASE q = p /\ mapping'[q] = f
      <4>1. call.at = "map_slab"
        BY <1>2, <2>0, <2>2, <3>2
      <4> QED BY <1>2, <3>2, <4>1
    <3> QED BY <1>4, <3>1, <3>2
  <2>3. mapping'[Phantom] = Unmapped
    <3>1. mapping[Phantom] = Unmapped
      BY Zenon DEF MappedInv
    <3> QED BY <1>4, <1>5, <3>1, PhantomIsHigh
  <2>4. ASSUME NEW s \in SlabFrames' PROVE s < LargeBase /\ mapping'[s] = s
    <3>1. s \in SlabFrames
      BY <1>1, SameSlabs, Zenon
    <3>2. s < LargeBase /\ mapping[s] = s /\ s \in Frames /\ s # Unmapped
      BY <3>1, SlabMembers, FramesAreNumbers DEF MappedInv
    <3>3. mapping'[s] = s \/ mapping'[s] = Unmapped
      BY <2>2, <3>2
    <3> QED BY <1>2, <1>4, <3>2, <3>3
  <2> QED BY <2>1, <2>2, <2>3, <2>4, Zenon DEF MappedInv
<1>15. LowInv'
  <2>1. \A g : Low(g)' <=> Low(g)
    BY Zenon DEF Low
  <2>2. \A g \in Frames : g \notin bitmap' => Low(g)
    BY DEF LowInv
  <2>3. call'.frame # NoFrame => Low(call'.frame)
    BY <1>2, <1>3
  <2>4. \A q \in Frames : mapping'[q] # Unmapped => Low(mapping'[q])
    <3>1. \A q \in Frames : mapping[q] # Unmapped => Low(mapping[q])
      BY Zenon DEF LowInv
    <3> QED BY <1>2, <1>4, <3>1
  <2> QED BY <2>1, <2>2, <2>3, <2>4, Zenon DEF LowInv
<1> QED BY <1>6, <1>7, <1>10, <1>11, <1>14, <1>15, AreaNext

LEMMA PagingMapAreas ==
  ASSUME AreaInv, PagingMap
  PROVE  AreaInv'
<1> USE AreaParts
<1>1. /\ Mapping /\ AfterMap
      /\ UNCHANGED <<frames, page_directory, caches, regions, owners, exhausted, panic>>
      /\ mapping' = IF DirectoryOf(PageToMap) >= RecursiveIndex THEN mapping
                    ELSE [mapping EXCEPT ![PageToMap] = call.frame]
  BY Zenon DEF PagingMap
<1>2. \/ mapping' = mapping
      \/ /\ mapping' = [mapping EXCEPT ![PageToMap] = call.frame]
         /\ DirectoryOf(PageToMap) < RecursiveIndex
  <2>1. DirectoryOf(PageToMap) \in Nat /\ RecursiveIndex \in Int
    <3>1. PageToMap \in Nat
      BY <1>1, MapTarget, FramesAreNumbers
    <3> HIDE DEF PageToMap
    <3> QED BY <3>1, Division, Sizes DEF DirectoryOf
  <2>2. ~(DirectoryOf(PageToMap) >= RecursiveIndex) => DirectoryOf(PageToMap) < RecursiveIndex
    BY <2>1
  <2> QED BY <1>1, <2>2, Zenon
<1>3. page_directory' \in [Directories -> Frames \cup {Absent, BootTable}]
  BY <1>1, StateTypes, Zenon
<1>4. UNCHANGED <<caches, regions, owners, panic>> /\ exhausted' \in BOOLEAN
  BY <1>1, FlagTypes, Zenon
<1> QED BY <1>1, <1>2, <1>3, <1>4, SameBitmap, MappedAreas

LEMMA PagingMapNewTableAreas ==
  ASSUME AreaInv, PagingMapNewTable
  PROVE  AreaInv'
<1> USE AreaParts
<1> DEFINE d == DirectoryOf(PageToMap)
<1>1. /\ Mapping /\ AfterMap
      /\ UNCHANGED <<caches, regions, owners, exhausted, panic>>
      /\ mapping' = [mapping EXCEPT ![PageToMap] = call.frame]
      /\ d < RecursiveIndex
  BY Zenon DEF PagingMapNewTable
<1>2. PICK f \in Frames :
        PmmAlloc(f) /\ page_directory' = [page_directory EXCEPT ![d] = f]
  BY Zenon DEF PagingMapNewTable
<1>3. /\ bitmap' \subseteq Frames /\ search_hint' \in 0 .. BitmapSize - 1
      /\ bitmap \subseteq bitmap'
  BY <1>2, AllocTypes
<1>4. page_directory' \in [Directories -> Frames \cup {Absent, BootTable}]
  <2>1. page_directory \in [Directories -> Frames \cup {Absent, BootTable}]
    BY StateTypes
  <2> HIDE DEF d
  <2> QED BY <1>2, <2>1
<1>5. UNCHANGED <<caches, regions, owners, panic>> /\ exhausted' \in BOOLEAN
  BY <1>1, FlagTypes, Zenon
<1> QED BY <1>1, <1>3, <1>4, <1>5, MappedAreas

LEMMA PagingMapGivesUpAreas ==
  ASSUME AreaInv, PagingMapGivesUp
  PROVE  AreaInv'
<1> USE AreaParts
<1>1. /\ Mapping /\ AfterMap
      /\ UNCHANGED <<frames, paging, caches, regions, owners, panic>>
      /\ exhausted' = TRUE
  BY Zenon DEF PagingMapGivesUp
<1>2. mapping' = mapping /\ page_directory' = page_directory
  BY <1>1, Zenon DEF paging
<1>3. page_directory' \in [Directories -> Frames \cup {Absent, BootTable}]
  BY <1>2, StateTypes, Zenon
<1>4. UNCHANGED <<caches, regions, owners, panic>> /\ exhausted' \in BOOLEAN
  BY <1>1, Zenon
<1> QED BY <1>1, <1>2, <1>3, <1>4, SameBitmap, MappedAreas

(* One turn of the loops of kfree_large and thread_destroy. *)
LEMMA FreePageAreas ==
  ASSUME AreaInv, FreePage
  PROVE  AreaInv'
<1> USE AreaParts
<1> DEFINE p == call.base + call.i
           f == Physical(p)
<1>1. /\ call.at = "free" /\ call.i < call.pages /\ PmmFree(f)
      /\ mapping' = [mapping EXCEPT ![p] = Unmapped]
      /\ call' = [call EXCEPT !.i = @ + 1]
      /\ UNCHANGED <<page_directory, caches, regions, owners, exhausted, panic>>
  BY Zenon DEF FreePage, At
<1>2. /\ slabs' = slabs /\ free_list' = free_list
      /\ next_large_vaddr' = next_large_vaddr /\ next_stack_vaddr' = next_stack_vaddr
      /\ held' = held /\ blocks' = blocks /\ threads' = threads
  BY <1>1, Zenon DEF caches, regions, owners
<1>3. Stacking \/ Blocking
  BY <1>1 DEF Stacking, Blocking
<1>4. /\ p \in Frames /\ p \in Nat /\ p \in LargeBase .. StackLimit
      /\ Stacking => StackBase <= p
  BY <1>1, <1>3, CallPage
<1>5. mapping \in [Frames -> Frames \cup {Unmapped}]
  BY StateTypes
<1>6. f \in Frames /\ Low(f)
  <2>1. 0 \in Frames /\ Low(0)
    BY Regions, FramesAreNumbers DEF Low
  <2>2. mapping[p] # Unmapped => mapping[p] \in Frames /\ Low(mapping[p])
    BY <1>4, <1>5 DEF LowInv
  <2> QED BY <2>1, <2>2 DEF Physical
<1> HIDE DEF f
<1>7. /\ bitmap' \subseteq Frames /\ search_hint' \in 0 .. BitmapSize - 1
      /\ bitmap' = bitmap \ {f}
  BY <1>1, <1>6, FreeTypes
<1>8. /\ call' \in Calls /\ call'.i = call.i + 1 /\ call'.at = "free"
      /\ call'.cache = call.cache /\ call'.object = call.object /\ call'.base = call.base
      /\ call'.pages = call.pages /\ call'.frame = call.frame
  BY <1>1, CallTypes DEF Calls
<1>9. /\ mapping' \in [Frames -> Frames \cup {Unmapped}] /\ mapping'[p] = Unmapped
      /\ \A q \in Frames : q # p => mapping'[q] = mapping[q]
  <2> HIDE DEF p
  <2> QED BY <1>1, <1>4, <1>5
<1>10. TypeOK'
  <2>1. panic' \in BOOLEAN /\ exhausted' \in BOOLEAN
    BY <1>1, FlagTypes, Zenon
  <2>2. page_directory' = page_directory
    BY <1>1, Zenon
  <2> QED BY <1>2, <1>7, <1>8, <1>9, <2>1, <2>2, Zenon DEF TypeOK
<1>11. LoopInv'
  <2>1. call.i \in Nat /\ call.pages \in Nat /\ call.pages >= 1
    BY <1>1, CallTypes DEF LoopInv, OnPages
  <2> QED BY <1>1, <1>8, <2>1 DEF LoopInv, Growing, Holding, OnPages
<1>12. (Stacking' <=> Stacking) /\ (Blocking' <=> Blocking)
  BY <1>1, <1>8 DEF Stacking, Blocking
<1>13. /\ AllThreads' = AllThreads /\ AllBlocks' = AllBlocks
       /\ Stacking => CallThread' = CallThread
       /\ Blocking => CallBlock' = CallBlock
  BY <1>2, <1>8, <1>12, SameAreas
<1>14. StacksLie'
  <2>1. Stacking' => CallThread' \notin threads'
    BY <1>2, <1>12, <1>13, Zenon DEF StacksLie
  <2>2. next_stack_vaddr' \in Nat /\ next_stack_vaddr <= next_stack_vaddr'
    BY <1>2, StateTypes
  <2> QED BY <1>13, <2>1, <2>2, StacksStay
<1>15. BlocksInv'
  <2>1. Blocking' => CallBlock' \notin blocks'
    BY <1>2, <1>12, <1>13, Zenon DEF BlocksInv
  <2>2. next_large_vaddr' \in Nat /\ next_large_vaddr <= next_large_vaddr'
    BY <1>2, StateTypes
  <2> QED BY <1>13, <2>1, <2>2, BlocksStay
<1>16. \A q \in Frames : q # p /\ OnStack(q) => OnStack(q)'
  <2>1. ASSUME NEW q \in Frames, q # p, InCall(q) PROVE InCall(q)'
    BY <1>1, <1>8, <2>1, CallTypes, FramesAreNumbers DEF InCall
  <2> QED BY <1>2, <1>12, <2>1, Zenon DEF OnStack
<1>17. MappedInv'
  <2>1. ASSUME NEW q \in StackBase .. StackLimit, mapping'[q] # Unmapped PROVE OnStack(q)'
    <3>1. q \in Frames /\ q # p
      BY <1>9, <2>1, FramesAreNumbers, Regions
    <3>2. OnStack(q)
      BY <1>9, <2>1, <3>1, Zenon DEF MappedInv
    <3> QED BY <1>16, <3>1, <3>2
  <2>2. \A q \in Frames : q < LargeBase => mapping'[q] = q \/ mapping'[q] = Unmapped
    <3>1. \A q \in Frames : q < LargeBase => mapping[q] = q \/ mapping[q] = Unmapped
      BY Zenon DEF MappedInv
    <3> QED BY <1>9, <3>1
  <2>3. mapping'[Phantom] = Unmapped
    <3>1. mapping[Phantom] = Unmapped
      BY Zenon DEF MappedInv
    <3> QED BY <1>9, <3>1, PhantomIsHigh
  <2>4. ASSUME NEW s \in SlabFrames' PROVE s < LargeBase /\ mapping'[s] = s
    <3>1. s \in SlabFrames
      BY <1>2, SameSlabs, Zenon
    <3>2. s < LargeBase /\ mapping[s] = s /\ s \in Frames
      BY <3>1, SlabMembers DEF MappedInv
    <3>3. s # p
      BY <1>4, <3>2, Regions, FramesAreNumbers
    <3> QED BY <1>9, <3>2, <3>3
  <2> QED BY <2>1, <2>2, <2>3, <2>4, Zenon DEF MappedInv
<1>18. LowInv'
  <2>1. \A g : Low(g)' <=> Low(g)
    BY Zenon DEF Low
  <2>2. \A g \in Frames : g \notin bitmap' => Low(g)
    BY <1>6, <1>7 DEF LowInv
  <2>3. call'.frame # NoFrame => Low(call'.frame)
    BY <1>8, Zenon DEF LowInv
  <2>4. \A q \in Frames : mapping'[q] # Unmapped => Low(mapping'[q])
    <3>1. \A q \in Frames : mapping[q] # Unmapped => Low(mapping[q])
      BY Zenon DEF LowInv
    <3> QED BY <1>9, <3>1
  <2> QED BY <2>1, <2>2, <2>3, <2>4, Zenon DEF LowInv
<1> QED BY <1>10, <1>11, <1>14, <1>15, <1>17, <1>18, AreaNext

-----------------------------------------------------------------------------
(* The steps on slabs *)

(* thread_create_sized takes its stack, and one page more, at the bump     *)
(* address.                                                                *)
LEMMA StackAdded ==
  ASSUME TypeOK, StacksLie, ~Stacking, Stacking', threads' = threads,
         call'.base = next_stack_vaddr, call'.pages \in Nat, call'.pages >= 1,
         next_stack_vaddr' = next_stack_vaddr + call'.pages + 1
  PROVE  StacksLie'
<1> DEFINE N == next_stack_vaddr
           n == call'.pages
<1>1. N \in Nat /\ StackBase <= N /\ n \in Nat /\ n >= 1 /\ N' = N + n + 1 /\ StackBase \in Nat
  BY StateTypes, Regions
<1> PICK new : new = CallThread'
  BY Zenon
<1>2. new.mem = N /\ new.stack_pages = n
  BY DEF CallThread
<1> HIDE DEF n
<1>3. AllThreads = threads /\ AllThreads' = threads \cup {new}
  BY Zenon DEF AllThreads
<1>4. ASSUME NEW t \in threads
      PROVE  StackArea(t)' /\ AreasApart(t, new) /\ AreasApart(new, t) /\ t # new
  <2>1. StackBase <= t.mem /\ t.stack_pages >= 1 /\ t.mem + t.stack_pages < N
    BY <1>3, Zenon DEF StacksLie, StackArea
  <2>2. t.mem \in Nat /\ t.stack_pages \in Nat
    BY AreaTypes
  <2>3. StackArea(t)'
    BY <1>1, <2>1, <2>2 DEF StackArea
  <2>4. t.mem + t.stack_pages < new.mem /\ t.mem # new.mem
    BY <1>1, <1>2, <2>1, <2>2
  <2> QED BY <2>3, <2>4, Zenon DEF AreasApart
<1>5. StackArea(new)'
  BY <1>1, <1>2 DEF StackArea
<1>6. \A t, u \in threads : t = u \/ AreasApart(t, u)
  BY <1>3, Zenon DEF StacksLie
<1>7. \A t, u : AreasApart(t, u)' <=> AreasApart(t, u)
  BY Zenon DEF AreasApart
<1>8. new \notin threads'
  BY <1>4, Zenon
<1>9. \A t \in AllThreads' : StackArea(t)'
  BY <1>3, <1>4, <1>5, Zenon
<1>10. ASSUME NEW t \in AllThreads', NEW u \in AllThreads', t # u
       PROVE  AreasApart(t, u)
  <2>1. (t \in threads \/ t = new) /\ (u \in threads \/ u = new)
    BY <1>3, Zenon
  <2> QED BY <1>4, <1>6, <1>10, <2>1, Zenon
<1> QED BY <1>7, <1>8, <1>9, <1>10, Zenon DEF StacksLie

LEMMA SlabTakeAreas ==
  ASSUME AreaInv, SlabTake
  PROVE  AreaInv'
<1> USE AreaParts
<1> DEFINE N == next_stack_vaddr
           c == call.cache
<1>1. /\ call.at = "slab_alloc"
      /\ UNCHANGED <<frames, paging, slabs, next_large_vaddr, blocks, threads,
                     exhausted, panic>>
  BY Zenon DEF SlabTake, At
<1>2. PICK k \in FirstWithRoom(c) :
        /\ free_list' = [free_list EXCEPT ![slabs[c][k]] = Tail(@)]
        /\ held' = held \cup {[cache |-> c, slab |-> slabs[c][k],
                               slot |-> Head(free_list[slabs[c][k]])]}
        /\ Deliver([cache |-> c, slab |-> slabs[c][k],
                    slot |-> Head(free_list[slabs[c][k]])])
  BY DEF SlabTake
<1> PICK s : s = slabs[c][k]
  OBVIOUS
<1> PICK o : o = [cache |-> c, slab |-> s, slot |-> Head(free_list[s])]
  OBVIOUS
<1>3. /\ free_list' = [free_list EXCEPT ![s] = Tail(@)] /\ held' = held \cup {o}
      /\ Deliver(o)
  BY <1>2
<1>4. /\ bitmap' = bitmap /\ search_hint' = search_hint
      /\ mapping' = mapping /\ page_directory' = page_directory /\ slabs' = slabs
      /\ next_large_vaddr' = next_large_vaddr /\ blocks' = blocks /\ threads' = threads
      /\ exhausted' = exhausted /\ panic' = panic
  BY <1>1, Zenon DEF frames, paging
<1>5. c \in Caches /\ slabs \in [Caches -> Seq(Frames)] /\ free_list \in [Frames -> Seq(Nat)]
  BY CallTypes, StateTypes
<1>6. s \in Frames /\ free_list[s] # <<>> /\ free_list[s] \in Seq(Nat)
  <2>1. slabs[c] \in Seq(Frames)
    BY <1>5
  <2>2. k \in DOMAIN slabs[c] /\ free_list[slabs[c][k]] # <<>>
    BY <2>1, LenProperties DEF FirstWithRoom
  <2> QED BY <1>5, <2>2, SlabMembers
<1>7. Head(free_list[s]) \in Nat /\ Tail(free_list[s]) \in Seq(Nat)
  BY <1>6, HeadTailProperties
<1>8. o \in Objects
  BY <1>5, <1>6, <1>7 DEF Objects
<1>9. free_list' \in [Frames -> Seq(Nat)]
  BY <1>3, <1>5, <1>6, <1>7
<1>10. /\ call.i = 0 /\ call.pages \in Nat
       /\ N \in StackBase .. StackLimit /\ N \in Nat /\ N \in Frames
       /\ c = ThreadPool => call.pages >= 1 /\ N + call.pages + 1 <= StackLimit
  <2>1. /\ N \in StackBase .. StackLimit /\ N \in Nat
    BY StateTypes
  <2>2. N \in Frames
    BY <2>1, Regions, FramesAreNumbers
  <2> QED BY <1>1, <2>1, <2>2, CallTypes DEF LoopInv, Growing
<1>11. /\ call' \in Calls
       /\ call'.frame # NoFrame => call'.frame = call.frame
       /\ \/ call'.at = "idle" /\ N' = N
          \/ /\ call'.at = "thread" /\ call'.object = o /\ call'.base = N
             /\ call'.pages = call.pages /\ call'.i = 0
             /\ N' = N + call.pages + 1 /\ c = ThreadPool
  <2>1. CASE c \in HeapCaches
    <3>1. call' = Idle /\ N' = N
      BY <1>3, <2>1 DEF Deliver
    <3> QED BY <3>1, IdleTypes
  <2>2. CASE c \notin HeapCaches
    <3>1. /\ call' = [call EXCEPT !.at = "thread", !.object = o, !.base = N]
          /\ N' = N + call.pages + 1
      BY <1>3, <2>2 DEF Deliver
    <3>2. c = ThreadPool
      BY <1>5, <2>2 DEF Caches
    <3> QED BY <1>8, <1>10, <3>1, <3>2, CallTypes DEF Calls
  <2> QED BY <2>1, <2>2
<1>12. N' \in StackBase .. StackLimit /\ N' \in Nat /\ N <= N'
  BY <1>10, <1>11, Regions
<1>13. TypeOK'
  <2>1. held' \subseteq Objects
    BY <1>3, <1>8, StateTypes
  <2> QED BY <1>4, <1>9, <1>11, <1>12, <2>1, Zenon DEF TypeOK
<1>14. LoopInv'
  <2>1. o # NoObject
    BY <1>8, ObjectsExist
  <2> QED BY <1>10, <1>11, <2>1 DEF LoopInv, Growing, Holding, OnPages
<1>15. ~Stacking /\ ~Blocking /\ ~Blocking'
  BY <1>1, <1>11 DEF Stacking, Blocking
<1>16. StacksLie'
  <2>1. CASE call'.at = "idle" /\ N' = N
    <3>1. ~Stacking'
      BY <2>1 DEF Stacking
    <3>2. AllThreads' = AllThreads
      BY <1>4, <1>15, <3>1, Zenon DEF AllThreads
    <3> QED BY <1>12, <3>1, <3>2, StacksStay
  <2>2. CASE /\ call'.at = "thread" /\ call'.base = N /\ call'.pages = call.pages
             /\ N' = N + call.pages + 1 /\ c = ThreadPool
    <3>1. Stacking'
      BY <2>2 DEF Stacking
    <3>2. /\ call'.base = N /\ call'.pages \in Nat /\ call'.pages >= 1
          /\ N' = N + call'.pages + 1
      BY <1>10, <2>2
    <3> QED BY <1>4, <1>15, <3>1, <3>2, StackAdded
  <2> QED BY <1>11, <2>1, <2>2
<1>17. BlocksInv'
  <2>1. AllBlocks' \subseteq AllBlocks
    BY <1>4, <1>15, Zenon DEF AllBlocks
  <2>2. next_large_vaddr' \in Nat /\ next_large_vaddr <= next_large_vaddr'
    BY <1>4, StateTypes
  <2> QED BY <1>15, <2>1, <2>2, BlocksStay
<1>18. MappedInv'
  <2>1. SlabFrames' = SlabFrames
    BY <1>4, SameSlabs
  <2>2. \A p : OnStack(p) => OnStack(p)'
    BY <1>4, <1>15, Zenon DEF OnStack
  <2> QED BY <1>4, <2>1, <2>2, Zenon DEF MappedInv
<1>19. LowInv'
  <2>1. \A f : Low(f)' <=> Low(f)
    BY Zenon DEF Low
  <2>2. call'.frame # NoFrame => Low(call'.frame)
    BY <1>11, Zenon DEF LowInv
  <2> QED BY <1>4, <2>1, <2>2, Zenon DEF LowInv
<1> QED BY <1>13, <1>14, <1>16, <1>17, <1>18, <1>19, AreaNext

LEMMA SlabCreateAreas ==
  ASSUME AreaInv, SlabCreate
  PROVE  AreaInv'
<1> USE AreaParts
<1> DEFINE f == call.frame
           c == call.cache
           m == Capacity[c]
           line == slabs[c]
           new == <<f>> \o line
<1>1. /\ call.at = "slab_create" /\ mapping[f] # Unmapped
      /\ free_list' = [free_list EXCEPT ![f] = [k \in 1 .. m |-> m + 1 - k]]
      /\ slabs' = [slabs EXCEPT ![c] = <<f>> \o @]
      /\ call' = [call EXCEPT !.at = "slab_alloc", !.frame = NoFrame]
      /\ UNCHANGED <<frames, paging, regions, owners, exhausted, panic>>
  BY DEF SlabCreate, At
<1>2. /\ bitmap' = bitmap /\ search_hint' = search_hint
      /\ mapping' = mapping /\ page_directory' = page_directory
      /\ next_large_vaddr' = next_large_vaddr /\ next_stack_vaddr' = next_stack_vaddr
      /\ held' = held /\ blocks' = blocks /\ threads' = threads
      /\ exhausted' = exhausted /\ panic' = panic
  BY <1>1, Zenon DEF frames, paging, regions, owners
<1>3. f \in Frames /\ c \in Caches /\ Low(f)
  BY <1>1, CallTypes DEF LoopInv, Holding, LowInv
<1>4. f < LargeBase /\ mapping[f] = f
  BY <1>1, <1>3 DEF Low, MappedInv
<1>5. free_list' \in [Frames -> Seq(Nat)]
  <2>1. m \in Nat /\ \A k \in 1 .. m : m + 1 - k \in Nat
    BY <1>3, RegionAssumption
  <2> HIDE DEF m
  <2>2. [k \in 1 .. m |-> m + 1 - k] \in Seq(Nat)
    BY <2>1, IsASeq
  <2>3. free_list \in [Frames -> Seq(Nat)]
    BY StateTypes
  <2> QED BY <1>1, <1>3, <2>2, <2>3
<1>6. slabs \in [Caches -> Seq(Frames)] /\ line \in Seq(Frames)
  BY <1>3, StateTypes
<1>7. /\ new \in Seq(Frames) /\ new[1] = f
      /\ \A k \in DOMAIN new : k # 1 => k - 1 \in DOMAIN line /\ new[k] = line[k - 1]
  <2> HIDE DEF f, line
  <2> QED BY <1>3, <1>6, PushSeq
<1>8. /\ slabs' \in [Caches -> Seq(Frames)] /\ slabs'[c] = new
      /\ \A e \in Caches : e # c => slabs'[e] = slabs[e]
  <2>1. slabs' = [slabs EXCEPT ![c] = new]
    BY <1>1
  <2> HIDE DEF new, c
  <2> QED BY <1>3, <1>6, <1>7, <2>1
<1> HIDE DEF new, m
<1>9. ASSUME NEW s \in SlabFrames' PROVE s \in SlabFrames \/ s = f
  <2>1. PICK e \in Caches : \E k \in DOMAIN slabs'[e] : s = slabs'[e][k]
    BY DEF SlabFrames
  <2>2. PICK k \in DOMAIN slabs'[e] : s = slabs'[e][k]
    BY <2>1
  <2>3. CASE e # c
    BY <1>8, <2>2, <2>3, SlabMembers
  <2>4. CASE e = c /\ k # 1
    <3>1. k - 1 \in DOMAIN slabs[c] /\ s = slabs[c][k - 1]
      BY <1>7, <1>8, <2>2, <2>4 DEF line
    <3> QED BY <1>3, <3>1, SlabMembers
  <2>5. CASE e = c /\ k = 1
    BY <1>7, <1>8, <2>2, <2>5
  <2> QED BY <2>3, <2>4, <2>5
<1>10. /\ call' \in Calls /\ call'.frame = NoFrame /\ call'.at = "slab_alloc"
       /\ call'.i = call.i /\ call'.pages = call.pages /\ call'.cache = call.cache
  BY <1>1, CallTypes DEF Calls
<1>11. TypeOK'
  BY <1>2, <1>5, <1>8, <1>10, Zenon DEF TypeOK
<1>12. LoopInv'
  BY <1>1, <1>2, <1>10 DEF LoopInv, Growing, Holding, OnPages
<1>13. ~Stacking /\ ~Blocking /\ ~Stacking' /\ ~Blocking'
  BY <1>1, <1>10 DEF Stacking, Blocking
<1>14. AllThreads' = AllThreads /\ AllBlocks' = AllBlocks
  BY <1>2, <1>13, Zenon DEF AllThreads, AllBlocks
<1>15. StacksLie' /\ BlocksInv'
  <2>1. /\ next_stack_vaddr' \in Nat /\ next_stack_vaddr <= next_stack_vaddr'
        /\ next_large_vaddr' \in Nat /\ next_large_vaddr <= next_large_vaddr'
    BY <1>2, StateTypes
  <2> QED BY <1>13, <1>14, <2>1, StacksStay, BlocksStay
<1>16. MappedInv'
  <2>1. \A p : OnStack(p) => OnStack(p)'
    BY <1>2, <1>13, Zenon DEF OnStack
  <2>2. \A s \in SlabFrames' : s < LargeBase /\ mapping'[s] = s
    BY <1>2, <1>4, <1>9, Zenon DEF MappedInv
  <2> QED BY <1>2, <2>1, <2>2, Zenon DEF MappedInv
<1>17. LowInv'
  BY <1>2, <1>10 DEF LowInv, Low
<1> QED BY <1>11, <1>12, <1>15, <1>16, <1>17, AreaNext

(* slab_free can only release the frame of a slab, which is low. *)
LEMMA SlabFreeAreas ==
  ASSUME TypeOK, MappedInv, LowInv, NEW o \in Objects, SlabFree(o)
  PROVE  /\ bitmap' \subseteq Frames /\ search_hint' \in 0 .. BitmapSize - 1
         /\ slabs' \in [Caches -> Seq(Frames)] /\ free_list' \in [Frames -> Seq(Nat)]
         /\ held' \subseteq Objects /\ SlabFrames' \subseteq SlabFrames
         /\ \A f \in Frames : f \notin bitmap' => Low(f)
<1> DEFINE c == o.cache
           s == o.slab
           list == <<o.slot>> \o free_list[s]
           line == slabs[c]
<1>1. /\ c \in Caches /\ s \in Frames /\ o.slot \in Nat
      /\ slabs \in [Caches -> Seq(Frames)] /\ free_list \in [Frames -> Seq(Nat)]
      /\ free_list[s] \in Seq(Nat) /\ line \in Seq(Frames)
  BY ObjectsExist, StateTypes
<1>2. list \in Seq(Nat)
  <2> HIDE DEF s
  <2> QED BY <1>1, PushSeq
<1>3. held' = held \ {o} /\ held' \subseteq Objects
  BY StateTypes DEF SlabFree
<1>4. CASE /\ free_list' = [free_list EXCEPT ![s] = list]
           /\ UNCHANGED <<frames, slabs>>
  <2>1. free_list' \in [Frames -> Seq(Nat)]
    <3> HIDE DEF list, s
    <3> QED BY <1>1, <1>2, <1>4
  <2>2. slabs' = slabs /\ SlabFrames' = SlabFrames /\ slabs' \in [Caches -> Seq(Frames)]
    BY <1>1, <1>4, SameSlabs
  <2>3. /\ bitmap' \subseteq Frames /\ search_hint' \in 0 .. BitmapSize - 1 /\ bitmap' = bitmap
    BY <1>4, SameBitmap
  <2> QED BY <1>3, <2>1, <2>2, <2>3 DEF LowInv
<1>5. CASE /\ free_list' = [free_list EXCEPT ![s] = <<>>]
           /\ \E k \in DOMAIN line :
                /\ line[k] = s
                /\ slabs' = [slabs EXCEPT ![c] =
                     SubSeq(line, 1, k - 1) \o SubSeq(line, k + 1, Len(line))]
           /\ PmmFree(s)
  <2>1. free_list' \in [Frames -> Seq(Nat)]
    <3>1. <<>> \in Seq(Nat)
      OBVIOUS
    <3> HIDE DEF s
    <3> QED BY <1>1, <1>5, <3>1
  <2>2. PICK k \in DOMAIN line :
          /\ line[k] = s
          /\ slabs' = [slabs EXCEPT ![c] =
               SubSeq(line, 1, k - 1) \o SubSeq(line, k + 1, Len(line))]
    BY <1>5
  <2> PICK old : old = line
    OBVIOUS
  <2> PICK new : new = Without(old, k)
    OBVIOUS
  <2>3. old \in Seq(Frames) /\ k \in DOMAIN old
    BY <1>1
  <2>4. /\ new \in Seq(Frames)
        /\ \A j \in DOMAIN new : \E l \in DOMAIN old : new[j] = old[l]
    <3> HIDE DEF line
    <3>1. /\ new \in Seq(Frames)
          /\ \A j \in DOMAIN new : \/ j < k /\ j \in DOMAIN old /\ new[j] = old[j]
                                   \/ j >= k /\ j + 1 \in DOMAIN old /\ new[j] = old[j + 1]
      BY ONLY <2>3, new = Without(old, k), RemoveSeq
    <3> QED BY <3>1
  <2>5. /\ slabs' \in [Caches -> Seq(Frames)] /\ slabs'[c] = new
        /\ \A e \in Caches : e # c => slabs'[e] = slabs[e]
    <3>1. slabs' = [slabs EXCEPT ![c] = new]
      BY <2>2 DEF Without
    <3> HIDE DEF c, line
    <3> QED BY <1>1, <2>4, <3>1
  <2>6. ASSUME NEW r \in SlabFrames' PROVE r \in SlabFrames
    <3>1. PICK e \in Caches : \E j \in DOMAIN slabs'[e] : r = slabs'[e][j]
      BY DEF SlabFrames
    <3>2. PICK j \in DOMAIN slabs'[e] : r = slabs'[e][j]
      BY <3>1
    <3>3. \E l \in DOMAIN slabs[e] : r = slabs[e][l]
      BY <2>4, <2>5, <3>2
    <3> QED BY <3>3, SlabMembers
  <2>7. s < LargeBase
    <3>1. s \in SlabFrames
      BY <1>1, <2>2, SlabMembers
    <3> QED BY <3>1, Zenon DEF MappedInv
  <2>8. /\ bitmap' \subseteq Frames /\ search_hint' \in 0 .. BitmapSize - 1
        /\ bitmap' = bitmap \ {s}
    BY <1>1, <1>5, FreeTypes
  <2>9. \A f \in Frames : f \notin bitmap' => Low(f)
    BY <2>7, <2>8 DEF LowInv, Low
  <2> QED BY <1>3, <2>1, <2>5, <2>6, <2>8, <2>9
<1> QED BY <1>4, <1>5, Zenon DEF SlabFree

(* What is left of AreaInv when a slab may have gone and the call at most  *)
(* has given its area up.                                                  *)
LEMMA ReleasedAreas ==
  ASSUME AreaInv,
         bitmap' \subseteq Frames, search_hint' \in 0 .. BitmapSize - 1,
         slabs' \in [Caches -> Seq(Frames)], free_list' \in [Frames -> Seq(Nat)],
         held' \subseteq Objects, SlabFrames' \subseteq SlabFrames,
         \A f \in Frames : f \notin bitmap' => Low(f),
         UNCHANGED <<paging, regions, blocks, threads, exhausted, panic>>,
         call' \in Calls, LoopInv', call'.frame # NoFrame => Low(call'.frame),
         ~Stacking' /\ ~Blocking',
         \A p \in StackBase .. StackLimit : OnStack(p) => OnStack(p)'
  PROVE  AreaInv'
<1> USE AreaParts
<1>1. /\ mapping' = mapping /\ page_directory' = page_directory
      /\ next_large_vaddr' = next_large_vaddr /\ next_stack_vaddr' = next_stack_vaddr
      /\ blocks' = blocks /\ threads' = threads
      /\ exhausted' = exhausted /\ panic' = panic
  BY Zenon DEF paging, regions
<1>2. TypeOK'
  BY <1>1, Zenon DEF TypeOK
<1>3. AllThreads' \subseteq AllThreads /\ AllBlocks' \subseteq AllBlocks
  BY <1>1, Zenon DEF AllThreads, AllBlocks
<1>4. StacksLie' /\ BlocksInv'
  <2>1. /\ next_stack_vaddr' \in Nat /\ next_stack_vaddr <= next_stack_vaddr'
        /\ next_large_vaddr' \in Nat /\ next_large_vaddr <= next_large_vaddr'
    BY <1>1, StateTypes
  <2> QED BY <1>3, <2>1, StacksStay, BlocksStay
<1>5. MappedInv'
  BY <1>1, Zenon DEF MappedInv
<1>6. LowInv'
  <2>1. \A g : Low(g)' <=> Low(g)
    BY Zenon DEF Low
  <2> QED BY <1>1, <2>1, Zenon DEF LowInv
<1> QED BY <1>2, <1>4, <1>5, <1>6, AreaNext

LEMMA KfreeAreas ==
  ASSUME AreaInv, Kfree
  PROVE  AreaInv'
<1> USE AreaParts
<1>1. /\ call.at = "idle"
      /\ UNCHANGED <<paging, regions, blocks, threads, call, exhausted, panic>>
  BY Zenon DEF Kfree, At
<1>2. PICK o \in held : SlabFree(o)
  BY Zenon DEF Kfree
<1>3. o \in Objects
  BY StateTypes
<1>4. /\ bitmap' \subseteq Frames /\ search_hint' \in 0 .. BitmapSize - 1
      /\ slabs' \in [Caches -> Seq(Frames)] /\ free_list' \in [Frames -> Seq(Nat)]
      /\ held' \subseteq Objects /\ SlabFrames' \subseteq SlabFrames
      /\ \A f \in Frames : f \notin bitmap' => Low(f)
  BY <1>2, <1>3, SlabFreeAreas
<1>5. call' = call /\ threads' = threads /\ call' \in Calls
  BY <1>1, CallTypes
<1>6. LoopInv'
  BY <1>1, <1>5 DEF LoopInv, Growing, Holding, OnPages
<1>7. ~Stacking /\ ~Stacking' /\ ~Blocking'
  BY <1>1, <1>5 DEF Stacking, Blocking
<1>8. \A p : OnStack(p) => OnStack(p)'
  BY <1>5, <1>7, Zenon DEF OnStack
<1>9. call'.frame # NoFrame => Low(call'.frame)
  BY <1>5, Zenon DEF LowInv
<1> QED BY <1>1, <1>4, <1>5, <1>6, <1>7, <1>8, <1>9, ReleasedAreas

(* At the end of the loop no page of the call is left. *)
LEMMA FreeDoneAreas ==
  ASSUME AreaInv, FreeDone
  PROVE  AreaInv'
<1> USE AreaParts
<1>1. /\ call.at = "free" /\ call.i = call.pages /\ call' = Idle
      /\ UNCHANGED <<paging, regions, blocks, threads, exhausted, panic>>
  BY Zenon DEF FreeDone, At
<1>2. /\ bitmap' \subseteq Frames /\ search_hint' \in 0 .. BitmapSize - 1
      /\ slabs' \in [Caches -> Seq(Frames)] /\ free_list' \in [Frames -> Seq(Nat)]
      /\ held' \subseteq Objects /\ SlabFrames' \subseteq SlabFrames
      /\ \A f \in Frames : f \notin bitmap' => Low(f)
  <2>1. CASE call.object = NoObject
    <3>1. UNCHANGED <<frames, caches, held>>
      BY <2>1, Zenon DEF FreeDone
    <3>2. /\ bitmap' = bitmap /\ search_hint' = search_hint
          /\ slabs' = slabs /\ free_list' = free_list /\ held' = held
      BY <3>1, Zenon DEF frames, caches
    <3>3. SlabFrames' = SlabFrames
      BY <3>2, SameSlabs
    <3> QED BY <3>2, <3>3, StateTypes, Zenon DEF LowInv
  <2>2. CASE call.object # NoObject
    <3>1. SlabFree(call.object)
      BY <2>2, Zenon DEF FreeDone
    <3>2. call.object \in Objects
      BY <2>2, CallTypes
    <3> QED BY <3>1, <3>2, SlabFreeAreas
  <2> QED BY <2>1, <2>2
<1>3. call' \in Calls /\ call'.at = "idle" /\ call'.frame = NoFrame
  BY <1>1, IdleTypes
<1>4. LoopInv'
  BY <1>3 DEF LoopInv, Growing, Holding, OnPages
<1>5. ~Stacking' /\ ~Blocking'
  BY <1>3 DEF Stacking, Blocking
<1>6. ASSUME NEW p \in StackBase .. StackLimit, OnStack(p) PROVE OnStack(p)'
  <2>1. p \in Nat
    BY Regions
  <2>2. ~InCall(p)
    BY <1>1, <2>1, CallTypes DEF InCall
  <2> QED BY <1>1, <1>6, <2>2, Zenon DEF OnStack
<1> QED BY <1>1, <1>2, <1>3, <1>4, <1>5, <1>6, ReleasedAreas

-----------------------------------------------------------------------------
(* The invariant *)

LEMMA InitAreas ==
  ASSUME Init
  PROVE  AreaInv
<1>1. Good
  BY InitGood
<1>2. TypeOK /\ StacksLie /\ BlocksInv
  BY <1>1, GoodParts, StacksOfGood
<1>3. /\ bitmap = Reserved /\ slabs = [c \in Caches |-> <<>>] /\ call = Idle /\ threads = {}
      /\ mapping = [p \in Frames |-> IF DirectoryOf(p) = 0 THEN p ELSE Unmapped]
  BY Zenon DEF Init, Reserved
<1>4. call.at = "idle" /\ call.frame = NoFrame
  BY <1>3, IdleTypes
<1>5. LoopInv
  BY <1>4 DEF LoopInv, Growing, Holding, OnPages
<1>6. \A p \in Frames : mapping[p] # Unmapped => DirectoryOf(p) = 0 /\ mapping[p] = p
  BY <1>3
<1>7. ASSUME NEW p \in Frames, DirectoryOf(p) = 0 PROVE p < LargeBase
  <2>1. p \in Nat /\ p < (DirectoryOf(p) + 1) * TableEntries
    BY Division, Sizes, FramesAreNumbers DEF DirectoryOf
  <2>2. TableEntries \in Nat /\ TableEntries <= LargeBase
    BY RegionAssumption
  <2>3. p < (0 + 1) * TableEntries
    BY <1>7, <2>1
  <2> QED BY <2>1, <2>2, <2>3, Regions
<1>8. \A p \in Frames : mapping[p] # Unmapped => mapping[p] = p /\ p < LargeBase
  BY <1>6, <1>7
<1>9. MappedInv
  <2>1. \A p \in StackBase .. StackLimit : p \in Frames /\ p \in Nat /\ ~(p < LargeBase)
    BY Regions, FramesAreNumbers
  <2>2. \A p \in StackBase .. StackLimit : mapping[p] # Unmapped => OnStack(p)
    BY <1>8, <2>1
  <2>3. \A p \in Frames : p < LargeBase => mapping[p] = p \/ mapping[p] = Unmapped
    BY <1>8
  <2>4. Phantom \in Frames /\ ~(Phantom < LargeBase)
    BY PhantomIsHigh, Regions
  <2>5. mapping[Phantom] = Unmapped
    BY <1>8, <2>4
  <2>6. SlabFrames = {}
    BY <1>3 DEF SlabFrames
  <2> QED BY <2>2, <2>3, <2>5, <2>6 DEF MappedInv
<1>10. LowInv
  <2>1. \A f \in Frames : f \notin bitmap => f < LargeBase
    BY <1>3, RamIsLow
  <2> QED BY <1>4, <1>8, <2>1 DEF LowInv, Low
<1> QED BY <1>2, <1>5, <1>9, <1>10, Zenon DEF AreaInv

LEMMA AreaStep ==
  ASSUME AreaInv, [Next]_vars
  PROVE  AreaInv'
<1>1. CASE UNCHANGED vars
  <2>1. /\ UNCHANGED <<frames, paging, caches, regions, owners, call>>
        /\ exhausted' = exhausted /\ panic' = panic
    BY <1>1, Zenon DEF vars
  <2>2. exhausted' \in BOOLEAN /\ panic' \in BOOLEAN
    BY <2>1, AreaParts, FlagTypes
  <2> QED BY <2>1, <2>2, HaltAreas
<1>2. ASSUME SlabFault \/ LargeFault \/ ThreadFault PROVE AreaInv'
  BY <1>2, FaultAreas, Zenon DEF SlabFault, LargeFault, ThreadFault
<1>3. ASSUME PagingMap \/ PagingMapNewTable \/ PagingMapGivesUp PROVE AreaInv'
  BY <1>3, PagingMapAreas, PagingMapNewTableAreas, PagingMapGivesUpAreas, Zenon
<1>4. ASSUME SlabTake \/ SlabGrow \/ SlabRefuse \/ SlabCreate \/ Kmalloc \/ Kfree PROVE AreaInv'
  BY <1>4, SlabTakeAreas, SlabGrowAreas, SlabRefuseAreas, SlabCreateAreas, KmallocAreas,
     KfreeAreas, Zenon
<1>5. ASSUME KmallocLarge \/ LargePage \/ LargeRefuse \/ LargeDone \/ KfreeLarge PROVE AreaInv'
  BY <1>5, KmallocLargeAreas, LargePageAreas, LargeRefuseAreas, LargeDoneAreas,
     KfreeLargeAreas, Zenon
<1>6. ASSUME \/ ThreadCreate \/ StackPage \/ StackPhantom \/ ThreadReady
             \/ ThreadDestroy \/ FreePage \/ FreeDone
      PROVE  AreaInv'
  BY <1>6, ThreadCreateAreas, StackPageAreas, StackPhantomAreas, ThreadReadyAreas,
     ThreadDestroyAreas, FreePageAreas, FreeDoneAreas, Zenon
<1> QED BY <1>1, <1>2, <1>3, <1>4, <1>5, <1>6, Zenon DEF Next

(* Where stacks, blocks and slabs lie and what is mapped there, whatever   *)
(* fails: the invariant of paging_map, unmap and the two bump addresses.   *)
THEOREM AreaInvariant == Spec => []AreaInv
<1>1. Init => AreaInv
  BY InitAreas
<1>2. AreaInv /\ [Next]_vars => AreaInv'
  BY AreaStep
<1> QED BY <1>1, <1>2, PTL DEF Spec

(* Every variable stays within its type: no index leaves the bitmap, and   *)
(* the bump addresses of large blocks and stacks stay in their regions.    *)
THEOREM Types == Spec => []TypeOK
<1>1. AreaInv => TypeOK
  BY AreaParts
<1> QED BY <1>1, AreaInvariant, PTL

-----------------------------------------------------------------------------
(* What follows from it *)

(* A page next to a stack is on no stack. *)
LEMMA BesideStack ==
  ASSUME AreaInv, NEW t \in threads, NEW p \in StackBase .. StackLimit,
         p = t.mem + t.stack_pages \/ p = t.mem - 1
  PROVE  mapping[p] = Unmapped
<1> USE AreaParts
<1>1. t \in AllThreads /\ t.mem \in Nat /\ t.stack_pages \in Nat /\ p \in Nat
  BY AreaTypes, Regions DEF AllThreads
<1>2. ASSUME NEW u \in AllThreads PROVE ~(u.mem <= p /\ p < u.mem + u.stack_pages)
  <2>1. u.mem \in Nat /\ u.stack_pages \in Nat
    BY AreaTypes
  <2>2. CASE u = t
    BY <1>1, <2>2
  <2>3. CASE u # t
    <3>1. AreasApart(t, u)
      BY <1>1, <2>3, Zenon DEF StacksLie
    <3>2. t.mem + t.stack_pages < u.mem \/ u.mem + u.stack_pages < t.mem
      BY <3>1, Zenon DEF AreasApart
    <3> QED BY <1>1, <2>1, <3>2
  <2> QED BY <2>2, <2>3
<1>3. \A u \in threads : ~(u.mem <= p /\ p < u.mem + u.stack_pages)
  BY <1>2, Zenon DEF AllThreads
<1>4. ASSUME Stacking PROVE ~InCall(p)
  <2>1. ~(call.base <= p /\ p < call.base + call.pages)
    <3>1. CallThread \in AllThreads
      BY <1>4, Zenon DEF AllThreads
    <3> QED BY <1>2, <3>1 DEF CallThread
  <2>2. call.i <= call.pages
    BY <1>4 DEF LoopInv, OnPages, Stacking
  <2> QED BY <1>1, <2>1, <2>2, CallTypes DEF InCall
<1>5. ~OnStack(p)
  BY <1>3, <1>4, Zenon DEF OnStack
<1> QED BY <1>5, Zenon DEF MappedInv

(* The guard page of thread_create_sized: whatever was mapped, or failed   *)
(* to be, the pages on either side of a stack are not mapped, so a stack   *)
(* that overflows, or is read beyond its top, faults and does not reach    *)
(* the stack of another thread.                                            *)
THEOREM StacksAreGuarded == Spec => []GuardPages
<1>1. ASSUME AreaInv PROVE GuardPages
  <2> USE <1>1, AreaParts
  <2> SUFFICES ASSUME NEW t \in threads
               PROVE  /\ mapping[t.mem + t.stack_pages] = Unmapped
                      /\ t.mem # StackBase => mapping[t.mem - 1] = Unmapped
    BY DEF GuardPages
  <2>1. t.mem \in Nat /\ t.stack_pages \in Nat
    BY AreaTypes
  <2>2. StackBase <= t.mem /\ t.mem + t.stack_pages < next_stack_vaddr /\ t.stack_pages >= 1
    BY Zenon DEF StacksLie, StackArea, AllThreads
  <2>3. next_stack_vaddr \in StackBase .. StackLimit
    BY StateTypes
  <2>4. t.mem + t.stack_pages \in StackBase .. StackLimit
    BY <2>1, <2>2, <2>3, Regions
  <2>5. t.mem # StackBase => t.mem - 1 \in StackBase .. StackLimit
    BY <2>1, <2>2, <2>3, Regions
  <2> QED BY <2>4, <2>5, BesideStack
<1> QED BY <1>1, AreaInvariant, PTL

(* A live page is that of a slab, below the regions, or lies in them. *)
LEMMA WhereLive ==
  ASSUME AreaInv, NEW p \in LivePages
  PROVE  /\ p \in Frames
         /\ \/ p \in SlabFrames /\ p < LargeBase /\ mapping[p] = p
            \/ /\ LargeBase <= p
               /\ \/ \E b \in blocks : b.base <= p /\ p < b.base + b.pages
                  \/ \E t \in threads : t.mem <= p /\ p < t.mem + t.stack_pages
<1> USE AreaParts
<1>1. CASE p \in SlabFrames
  <2>1. p \in Frames
    BY <1>1, SlabMembers
  <2> QED BY <1>1, <2>1, Zenon DEF MappedInv
<1>2. ASSUME NEW b \in blocks, p \in Pages(b.base, b.pages)
      PROVE  p \in Frames /\ LargeBase <= p /\ b.base <= p /\ p < b.base + b.pages
  <2>1. p \in LargeBase .. StackBase - 1 /\ p \in Frames
    BY <1>2, LiveAreas
  <2>2. b.base \in Nat /\ b.pages \in Nat
    BY AreaTypes
  <2> QED BY <1>2, <2>1, <2>2, Regions DEF Pages
<1>3. ASSUME NEW t \in threads, p \in Pages(t.mem, t.stack_pages)
      PROVE  p \in Frames /\ LargeBase <= p /\ t.mem <= p /\ p < t.mem + t.stack_pages
  <2>1. p \in StackBase .. StackLimit /\ p \in Frames
    BY <1>3, LiveAreas
  <2>2. t.mem \in Nat /\ t.stack_pages \in Nat
    BY AreaTypes
  <2> QED BY <1>3, <2>1, <2>2, Regions DEF Pages
<1>4. \/ p \in SlabFrames
      \/ \E b \in blocks : p \in Pages(b.base, b.pages)
      \/ \E t \in threads : p \in Pages(t.mem, t.stack_pages)
  BY DEF LivePages
<1> QED BY <1>1, <1>2, <1>3, <1>4

(* The page a loop is at belongs to nobody else. *)
LEMMA LoopPageIsNotLive ==
  ASSUME AreaInv, Stacking \/ Blocking, call.i < call.pages
  PROVE  call.base + call.i \notin LivePages
<1> USE AreaParts
<1> PICK q : q = call.base + call.i
  OBVIOUS
<1>1. /\ q \in Nat /\ q \in LargeBase .. StackLimit
      /\ \A t \in threads : ~(t.mem <= q /\ q < t.mem + t.stack_pages)
      /\ \A b \in blocks : ~(b.base <= q /\ q < b.base + b.pages)
  BY CallPage
<1>2. ~(q < LargeBase)
  BY <1>1, Regions
<1> QED BY <1>1, <1>2, WhereLive

(* paging_map may be told to map the page of a slab, but then to itself. *)
LEMMA MappedLive ==
  ASSUME AreaInv, Mapping, NEW p \in LivePages,
         \/ mapping' = mapping
         \/ /\ mapping' = [mapping EXCEPT ![PageToMap] = call.frame]
            /\ DirectoryOf(PageToMap) < RecursiveIndex
  PROVE  mapping'[p] = mapping[p]
<1> USE AreaParts
<1>1. mapping \in [Frames -> Frames \cup {Unmapped}] /\ p \in Frames /\ PageToMap \in Frames
  BY StateTypes, WhereLive, MapTarget
<1>2. CASE mapping' = mapping
  BY <1>2
<1>3. CASE p # PageToMap
  BY <1>1, <1>3
<1>4. CASE call.at = "map_slab" /\ DirectoryOf(PageToMap) < RecursiveIndex /\ p = PageToMap
           /\ mapping' = [mapping EXCEPT ![PageToMap] = call.frame]
  <2>1. p = call.frame /\ Low(p)
    BY <1>4, MapTarget
  <2>2. p # Phantom
    BY <1>4, PhantomIsHigh
  <2>3. p < LargeBase
    BY <2>1, <2>2 DEF Low
  <2>4. mapping[p] = p
    BY <1>1, <2>3, WhereLive, FramesAreNumbers, Regions
  <2> QED BY <1>1, <1>4, <2>1, <2>4
<1>5. CASE call.at # "map_slab" /\ p = PageToMap
  BY <1>5, MapTarget, LoopPageIsNotLive
<1> QED BY <1>2, <1>3, <1>4, <1>5

LEMMA LiveUntouched ==
  ASSUME AreaInv, [Next]_vars, NEW p \in LivePages
  PROVE  mapping'[p] = mapping[p]
<1>1. ASSUME PagingMap PROVE mapping'[p] = mapping[p]
  <2>1. /\ Mapping
        /\ mapping' = IF DirectoryOf(PageToMap) >= RecursiveIndex THEN mapping
                      ELSE [mapping EXCEPT ![PageToMap] = call.frame]
    BY <1>1, Zenon DEF PagingMap
  <2>2. DirectoryOf(PageToMap) \in Nat /\ RecursiveIndex \in Int
    <3>1. PageToMap \in Nat
      BY <2>1, MapTarget, FramesAreNumbers
    <3>2. /\ PageToMap \div TableEntries \in Nat
          /\ FrameCount \div TableEntries \in Nat
      BY <3>1, Division, Sizes
    <3> QED BY <3>2, Sizes DEF DirectoryOf
  <2>3. \/ mapping' = mapping
        \/ /\ mapping' = [mapping EXCEPT ![PageToMap] = call.frame]
           /\ DirectoryOf(PageToMap) < RecursiveIndex
    BY <2>1, <2>2
  <2> QED BY <2>1, <2>3, MappedLive
<1>2. ASSUME PagingMapNewTable PROVE mapping'[p] = mapping[p]
  BY <1>2, MappedLive DEF PagingMapNewTable
<1>3. ASSUME FreePage PROVE mapping'[p] = mapping[p]
  <2>1. /\ call.at = "free" /\ call.i < call.pages
        /\ mapping' = [mapping EXCEPT ![call.base + call.i] = Unmapped]
    BY <1>3, Zenon DEF FreePage, At
  <2>2. p # call.base + call.i
    BY <2>1, LoopPageIsNotLive DEF Stacking, Blocking
  <2>3. mapping \in [Frames -> Frames \cup {Unmapped}] /\ p \in Frames
    BY AreaParts, StateTypes, WhereLive
  <2> QED BY <2>1, <2>2, <2>3
<1>4. ASSUME UNCHANGED paging PROVE mapping'[p] = mapping[p]
  <2>1. mapping' = mapping
    BY <1>4, Zenon DEF paging
  <2> QED BY <2>1
<1>5. UNCHANGED vars => UNCHANGED paging
  BY Zenon DEF vars
<1>6. PagingMapGivesUp => UNCHANGED paging
  BY Zenon DEF PagingMapGivesUp
<1>7. SlabTake \/ SlabGrow \/ SlabRefuse \/ SlabCreate => UNCHANGED paging
  BY Zenon DEF SlabTake, SlabGrow, SlabRefuse, SlabCreate
<1>8. SlabFault \/ LargeFault \/ ThreadFault => UNCHANGED paging
  BY Zenon DEF SlabFault, LargeFault, ThreadFault, PageFault
<1>9. Kmalloc \/ Kfree \/ KmallocLarge \/ LargePage \/ LargeRefuse \/ LargeDone \/ KfreeLarge
        => UNCHANGED paging
  BY Zenon DEF Kmalloc, Kfree, KmallocLarge, LargePage, LargeRefuse, LargeDone, KfreeLarge
<1>10. ThreadCreate \/ StackPage \/ StackPhantom \/ ThreadReady \/ ThreadDestroy \/ FreeDone
         => UNCHANGED paging
  BY Zenon DEF ThreadCreate, StackPage, StackPhantom, ThreadReady, ThreadDestroy, FreeDone
<1> QED
  BY <1>1, <1>2, <1>3, <1>4, <1>5, <1>6, <1>7, <1>8, <1>9, <1>10, Zenon DEF Next

(* No call changes what is behind a page that stays in use: not the        *)
(* mapping of a slab under its own number, nor the unmapping of one block  *)
(* or stack next to another, also after a failure went unnoticed.          *)
THEOREM LiveMappingsStay == Spec => MappingsStay
<1>1. ASSUME AreaInv, [Next]_vars
      PROVE  [\A p \in LivePages \cap LivePages' : mapping'[p] = mapping[p]]_vars
  BY <1>1, LiveUntouched
<1> QED BY <1>1, AreaInvariant, PTL DEF Spec, MappingsStay

=============================================================================
