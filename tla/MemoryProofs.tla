---------------------------- MODULE MemoryProofs ----------------------------
(***************************************************************************)
(* Proofs about Memory, for every size of the address space and its        *)
(* regions, every memory map below the large region, any caches and any    *)
(* order of calls, each of which may run out of frames at any point.       *)
(***************************************************************************)
EXTENDS Memory, SequenceTheorems, FiniteSetTheorems, TLAPS

-----------------------------------------------------------------------------
(* The inductive invariant *)

(* The call in progress has a thread, or a large block, that is not in     *)
(* `threads` or `blocks` yet, or not any more.                             *)
Stacking == \/ call.at \in {"thread", "map_thread"}
            \/ call.at = "free" /\ call.object # NoObject
Blocking == \/ call.at \in {"large", "map_large"}
            \/ call.at = "free" /\ call.object = NoObject

CallThread == [header |-> call.object, mem |-> call.base, stack_pages |-> call.pages]
CallBlock == [base |-> call.base, pages |-> call.pages]

AllThreads == threads \cup {t \in {CallThread} : Stacking}
AllBlocks == blocks \cup {b \in {CallBlock} : Blocking}

(* The pages of the call that are mapped: those done so far when it takes  *)
(* frames, those still to do when it gives them back.                      *)
InCall(p) == IF call.at = "free" THEN call.base + call.i <= p /\ p < call.base + call.pages
                                 ELSE call.base <= p /\ p < call.base + call.i

OnStack(p) == \/ \E t \in threads : t.mem <= p /\ p < t.mem + t.stack_pages
              \/ Stacking /\ InCall(p)
InBlock(p) == \/ \E b \in blocks : b.base <= p /\ p < b.base + b.pages
              \/ Blocking /\ InCall(p)

Growing == {"slab_alloc", "map_slab", "slab_create"}
Holding == {"map_slab", "slab_create", "map_thread", "map_large"}
OnPages == {"thread", "map_thread", "large", "map_large", "free"}

CallInv ==
  /\ call.frame # NoFrame <=> call.at \in Holding
  /\ call.at \in Growing => call.i = 0
  /\ call.at \in Growing /\ call.cache = ThreadPool =>
       call.pages >= 1 /\ next_stack_vaddr + call.pages + 1 <= StackLimit
  /\ call.at \in OnPages => call.pages >= 1 /\ call.i <= call.pages
  /\ call.at \in {"map_thread", "map_large"} => call.i < call.pages
  /\ call.at = "slab_create" => mapping[call.frame] = call.frame

(* Threads, their guard pages included, and blocks lie apart below the two *)
(* bump addresses.                                                         *)
StackOf(t) == /\ t.header \in held /\ t.header.cache = ThreadPool
              /\ StackBase <= t.mem /\ t.stack_pages >= 1
              /\ t.mem + t.stack_pages < next_stack_vaddr
StacksApart(t, u) ==
  /\ t.header # u.header
  /\ t.mem + t.stack_pages < u.mem \/ u.mem + u.stack_pages < t.mem

(* The part of it that does not depend on who holds the headers.           *)
StackArea(t) == /\ StackBase <= t.mem /\ t.stack_pages >= 1
                /\ t.mem + t.stack_pages < next_stack_vaddr
AreasApart(t, u) == t.mem + t.stack_pages < u.mem \/ u.mem + u.stack_pages < t.mem

StacksLie ==
  /\ \A t \in AllThreads : StackArea(t)
  /\ \A t, u \in AllThreads : t = u \/ AreasApart(t, u)
  /\ Stacking => CallThread \notin threads

ThreadsInv ==
  /\ \A t \in AllThreads : StackOf(t)
  /\ \A t, u \in AllThreads : t = u \/ StacksApart(t, u)
  /\ Stacking => CallThread \notin threads

BlockBelow(b) == /\ LargeBase <= b.base /\ b.pages >= 1
                 /\ b.base + b.pages <= next_large_vaddr
BlocksApart(b, d) == b.base + b.pages <= d.base \/ d.base + d.pages <= b.base

BlocksInv ==
  /\ \A b \in AllBlocks : BlockBelow(b)
  /\ \A b, d \in AllBlocks : b = d \/ BlocksApart(b, d)
  /\ Blocking => CallBlock \notin blocks

(* Exactly the pages of stacks are mapped in their region; blocks are      *)
(* mapped, and nothing ahead of the call and of the bump address is.       *)
BackedInv ==
  /\ \A p \in StackBase .. StackLimit : mapping[p] # Unmapped <=> OnStack(p)
  /\ \A p \in Frames : InBlock(p) => mapping[p] # Unmapped
  /\ \A p \in LargeBase .. StackBase - 1 : mapping[p] # Unmapped => p < next_large_vaddr
  /\ call.at \in {"large", "map_large"} =>
       \A p \in Frames : call.base + call.i <= p /\ p < call.base + call.pages =>
         mapping[p] = Unmapped
  /\ \A s \in SlabFrames : mapping[s] = s

(* Who holds frames: page tables, slabs, pages of the regions, the call;   *)
(* each frame handed out has one holder.                                   *)
Tables == {page_directory[d] : d \in Directories} \cap Frames
Backed == {p \in LargeBase .. StackLimit : mapping[p] # Unmapped}
PageFrames == {mapping[p] : p \in Backed}
InHand == {call.frame} \ {NoFrame}

Partition(T, S, P, H, B) ==
  /\ T \cap S = {} /\ T \cap P = {} /\ T \cap H = {}
  /\ S \cap P = {} /\ S \cap H = {} /\ P \cap H = {}
  /\ T \cup S \cup P \cup H = B

TablesOnce == \A d, e \in Directories :
  page_directory[d] \in Frames /\ page_directory[d] = page_directory[e] => d = e
SlabsOnce == \A c, e \in Caches : \A k \in DOMAIN slabs[c] : \A l \in DOMAIN slabs[e] :
  slabs[c][k] = slabs[e][l] => c = e /\ k = l
PagesOnce == \A p, q \in Backed : mapping[p] = mapping[q] => p = q

OwnersInv ==
  /\ TablesOnce /\ SlabsOnce /\ PagesOnce
  /\ Partition(Tables, SlabFrames, PageFrames, InHand, bitmap \ Reserved)
  /\ Reserved \subseteq bitmap

(* Each slab, by its place in the list of its cache: a slab that is wholly *)
(* free is the first, and its cache is being served.                       *)
Taken(c, s) == {o.slot : o \in {x \in held : x.cache = c /\ x.slab = s}}

Exact(c, list, taken) ==
  /\ \A i, j \in DOMAIN list : list[i] = list[j] => i = j
  /\ {list[i] : i \in DOMAIN list} = (1 .. Capacity[c]) \ taken

ListsExact == \A c \in Caches : \A k \in DOMAIN slabs[c] :
  Exact(c, free_list[slabs[c][k]], Taken(c, slabs[c][k]))
FreshFirst == \A c \in Caches : \A k \in DOMAIN slabs[c] :
  Taken(c, slabs[c][k]) = {} => call.at = "slab_alloc" /\ call.cache = c /\ k = 1
HeldInSlabs == \A o \in held : /\ o.slot \in 1 .. Capacity[o.cache]
                               /\ \E k \in DOMAIN slabs[o.cache] : slabs[o.cache][k] = o.slab

SlabInv == ListsExact /\ FreshFirst /\ HeldInSlabs

Good == /\ TypeOK /\ ~panic /\ CallInv /\ ThreadsInv /\ BlocksInv
        /\ BackedInv /\ OwnersInv /\ SlabInv
IInv == ~exhausted => Good

-----------------------------------------------------------------------------
(* The address space *)

LEMMA Division ==
  ASSUME NEW a \in Nat, NEW b \in Nat \ {0}
  PROVE  /\ a \div b \in Nat
         /\ (a \div b) * b <= a
         /\ a < ((a \div b) + 1) * b
  OBVIOUS

LEMMA Factors ==
  ASSUME NEW a \in Int, NEW b \in Int, NEW c \in Nat \ {0}, a * c < b * c
  PROVE  a < b
  OBVIOUS

LEMMA Sizes ==
  /\ FrameCount \in Nat /\ TableEntries \in Nat \ {0}
  /\ FrameCount = (FrameCount \div TableEntries) * TableEntries
  /\ RecursiveIndex = FrameCount \div TableEntries - 1
  /\ RecursiveIndex * TableEntries = FrameCount - TableEntries
<1>1. FrameCount \in Nat
  BY BitmapAssumption DEF FrameCount
<1>2. TableEntries \in Nat \ {0} /\ FrameCount % TableEntries = 0
  BY RegionAssumption
<1>3. FrameCount = TableEntries * (FrameCount \div TableEntries) + (FrameCount % TableEntries)
  BY <1>1, <1>2
<1>4. FrameCount = (FrameCount \div TableEntries) * TableEntries
  BY <1>1, <1>2, <1>3
<1> QED BY <1>1, <1>2, <1>4 DEF RecursiveIndex

LEMMA Regions ==
  /\ LargeBase \in Nat \ {0} /\ LargeEnd \in Nat /\ StackBase \in Nat /\ StackLimit \in Nat
  /\ LargeBase <= LargeEnd /\ LargeEnd <= StackBase /\ StackBase <= StackLimit
  /\ StackLimit < FrameCount /\ FrameCount \in Nat
<1>1. /\ LargeEnd \in Nat /\ StackBase \in Nat /\ StackLimit \in Nat
      /\ LargeBase \in Nat /\ TableEntries \in Nat \ {0} /\ TableEntries <= LargeBase
      /\ LargeBase <= LargeEnd /\ LargeEnd <= StackBase /\ StackBase <= StackLimit
      /\ StackLimit <= RecursiveIndex * TableEntries
  BY RegionAssumption
<1> QED BY <1>1, Sizes

LEMMA FramesAreNumbers ==
  /\ Frames \subseteq Nat /\ NoFrame \notin Frames /\ Unmapped \notin Frames
  /\ Absent \notin Frames /\ BootTable \notin Frames
  /\ \A p \in 0 .. StackLimit : p \in Frames
  BY Regions DEF Frames, NoFrame, Unmapped, Absent, BootTable

(* What the regions need lies below the recursive entry. *)
LEMMA Directory ==
  ASSUME NEW p \in Nat, p < StackLimit
  PROVE  DirectoryOf(p) \in Directories /\ DirectoryOf(p) < RecursiveIndex
<1> DEFINE d == DirectoryOf(p)
<1>1. d \in Nat /\ d * TableEntries <= p
  BY Division, Sizes DEF DirectoryOf
<1>2. StackLimit \in Nat /\ StackLimit <= RecursiveIndex * TableEntries
  BY RegionAssumption
<1>3. d * TableEntries < RecursiveIndex * TableEntries
  BY <1>1, <1>2, Sizes
<1>4. RecursiveIndex \in Int
  BY Division, Sizes
<1>5. d < RecursiveIndex
  <2> HIDE DEF d
  <2> QED BY <1>1, <1>3, <1>4, Factors, Sizes
<1> QED BY <1>1, <1>4, <1>5 DEF Directories, RecursiveIndex

(* Whatever is handed out lies below the regions. *)
LEMMA RamIsLow ==
  ASSUME NEW f \in Frames \ Reserved
  PROVE  f < LargeBase
<1>1. PICK e \in MemoryMap : e.available /\ f \in FreeRegion(e.addr, e.len)
  BY DEF Reserved, InitialBitmap
<1>2. e.addr \in Nat /\ e.len \in Nat /\ e.addr + e.len <= LargeBase * PageSize
  BY <1>1, LowMemory, RegionAssumption
<1> DEFINE end == e.addr + e.len
           top == end \div PageSize
<1>3. end \in Nat /\ PageSize \in Nat \ {0} /\ f \in Nat /\ LargeBase \in Nat
  BY <1>2, BitmapAssumption, FramesAreNumbers, RegionAssumption
<1>4. f < top
  BY <1>1 DEF FreeRegion
<1>5. top \in Nat /\ top * PageSize <= end
  <2> HIDE DEF end
  <2> QED BY <1>3, Division
<1>6. end <= LargeBase * PageSize
  BY <1>2
<1> HIDE DEF top, end
<1>7. top * PageSize < (LargeBase + 1) * PageSize
  BY <1>3, <1>5, <1>6
<1>8. top < LargeBase + 1
  BY <1>3, <1>5, <1>7, Factors
<1> QED BY <1>3, <1>4, <1>5, <1>8

LEMMA FoundIsFree ==
  ASSUME NEW f \in Found(bitmap, search_hint)
  PROVE  f \in Frames /\ f \notin bitmap
  BY DEF Found

LEMMA WordOfFrame ==
  ASSUME NEW f \in Frames
  PROVE  Word(f) \in 0 .. BitmapSize - 1
<1>1. /\ f \in Nat /\ BitmapSize \in Nat \ {0} /\ WordBits \in Nat \ {0}
      /\ f < BitmapSize * WordBits
  BY BitmapAssumption DEF Frames, FrameCount
<1>2. Word(f) \in Nat /\ Word(f) * WordBits <= f
  BY <1>1, Division DEF Word
<1>3. Word(f) * WordBits < BitmapSize * WordBits
  BY <1>1, <1>2
<1>4. Word(f) < BitmapSize
  BY <1>1, <1>2, <1>3, Factors
<1> QED BY <1>1, <1>2, <1>4

-----------------------------------------------------------------------------
(* Types, one fact at a time *)

LEMMA CallTypes ==
  ASSUME TypeOK
  PROVE  /\ call \in Calls
         /\ call.cache \in Caches /\ call.object \in Objects \cup {NoObject}
         /\ call.base \in Frames /\ call.base \in Nat
         /\ call.pages \in Nat /\ call.i \in Nat
         /\ call.frame \in Frames \cup {NoFrame}
         /\ call.at \in {"idle", "slab_alloc", "map_slab", "slab_create", "thread",
                         "map_thread", "large", "map_large", "free"}
<1>1. call \in Calls
  BY Zenon DEF TypeOK
<1> QED BY <1>1, FramesAreNumbers DEF Calls

LEMMA StateTypes ==
  ASSUME TypeOK
  PROVE  /\ bitmap \subseteq Frames /\ search_hint \in 0 .. BitmapSize - 1
         /\ page_directory \in [Directories -> Frames \cup {Absent, BootTable}]
         /\ mapping \in [Frames -> Frames \cup {Unmapped}]
         /\ slabs \in [Caches -> Seq(Frames)] /\ free_list \in [Frames -> Seq(Nat)]
         /\ next_large_vaddr \in LargeBase .. LargeEnd /\ next_large_vaddr \in Nat
         /\ next_stack_vaddr \in StackBase .. StackLimit /\ next_stack_vaddr \in Nat
         /\ held \subseteq Objects /\ blocks \subseteq Blocks
         /\ threads \subseteq [header : Objects, mem : Frames, stack_pages : Nat]
<1>1. /\ bitmap \subseteq Frames /\ search_hint \in 0 .. BitmapSize - 1
      /\ page_directory \in [Directories -> Frames \cup {Absent, BootTable}]
      /\ mapping \in [Frames -> Frames \cup {Unmapped}]
      /\ slabs \in [Caches -> Seq(Frames)] /\ free_list \in [Frames -> Seq(Nat)]
      /\ next_large_vaddr \in LargeBase .. LargeEnd
      /\ next_stack_vaddr \in StackBase .. StackLimit
      /\ held \subseteq Objects /\ blocks \subseteq Blocks
      /\ threads \subseteq [header : Objects, mem : Frames, stack_pages : Nat]
  BY Zenon DEF TypeOK
<1>2. next_large_vaddr \in Nat /\ next_stack_vaddr \in Nat
  BY <1>1, Regions
<1> QED BY <1>1, <1>2, Zenon

LEMMA AreaTypes ==
  ASSUME TypeOK
  PROVE  /\ \A t \in threads : /\ t.mem \in Nat /\ t.stack_pages \in Nat /\ t.header \in Objects
                               /\ t = [header |-> t.header, mem |-> t.mem,
                                       stack_pages |-> t.stack_pages]
         /\ \A t \in AllThreads : t.mem \in Nat /\ t.stack_pages \in Nat
         /\ \A b \in blocks : /\ b.base \in Nat /\ b.pages \in Nat
                              /\ b = [base |-> b.base, pages |-> b.pages]
         /\ \A b \in AllBlocks : b.base \in Nat /\ b.pages \in Nat
<1>1. \A t \in threads : /\ t.mem \in Nat /\ t.stack_pages \in Nat /\ t.header \in Objects
                         /\ t = [header |-> t.header, mem |-> t.mem,
                                 stack_pages |-> t.stack_pages]
  BY StateTypes, FramesAreNumbers
<1>2. \A b \in blocks : /\ b.base \in Nat /\ b.pages \in Nat
                        /\ b = [base |-> b.base, pages |-> b.pages]
  BY StateTypes, FramesAreNumbers DEF Blocks
<1>3. /\ CallThread.mem \in Nat /\ CallThread.stack_pages \in Nat
      /\ CallBlock.base \in Nat /\ CallBlock.pages \in Nat
  BY CallTypes DEF CallThread, CallBlock
<1> QED BY <1>1, <1>2, <1>3 DEF AllThreads, AllBlocks

LEMMA GoodParts ==
  ASSUME Good
  PROVE  /\ TypeOK /\ ~panic /\ CallInv /\ ThreadsInv /\ BlocksInv
         /\ BackedInv /\ OwnersInv /\ SlabInv
  BY Zenon DEF Good

-----------------------------------------------------------------------------
(* What a step leaves as it was *)

LEMMA SameAreas ==
  ASSUME threads' = threads, blocks' = blocks,
         Stacking' <=> Stacking, Blocking' <=> Blocking,
         Stacking \/ Blocking =>
           /\ call'.object = call.object
           /\ call'.base = call.base /\ call'.pages = call.pages
  PROVE  /\ AllThreads' = AllThreads /\ AllBlocks' = AllBlocks
         /\ Stacking => CallThread' = CallThread
         /\ Blocking => CallBlock' = CallBlock
<1>1. Stacking => CallThread' = CallThread
  BY Zenon DEF CallThread
<1>2. Blocking => CallBlock' = CallBlock
  BY Zenon DEF CallBlock
<1>3. AllThreads' = AllThreads
  BY <1>1, Zenon DEF AllThreads
<1>4. AllBlocks' = AllBlocks
  BY <1>2, Zenon DEF AllBlocks
<1> QED BY <1>1, <1>2, <1>3, <1>4, Zenon

LEMMA ThreadsStay ==
  ASSUME TypeOK, ThreadsInv, AllThreads' \subseteq AllThreads,
         \A t \in AllThreads' : t.header \in held',
         next_stack_vaddr' \in Nat, next_stack_vaddr <= next_stack_vaddr',
         Stacking' => CallThread' \notin threads'
  PROVE  ThreadsInv'
<1>1. \A t \in AllThreads : StackOf(t)
  BY Zenon DEF ThreadsInv
<1>2. ASSUME NEW t \in AllThreads' PROVE StackOf(t)'
  <2>1. /\ t.header.cache = ThreadPool /\ StackBase <= t.mem /\ t.stack_pages >= 1
        /\ t.mem + t.stack_pages < next_stack_vaddr
    BY <1>1, Zenon DEF StackOf
  <2>2. t.mem \in Nat /\ t.stack_pages \in Nat /\ next_stack_vaddr \in Nat
    BY AreaTypes, StateTypes, Zenon
  <2>3. t.mem + t.stack_pages < next_stack_vaddr'
    BY <2>1, <2>2
  <2> QED BY <2>1, <2>3, Zenon DEF StackOf
<1>3. \A t, u \in AllThreads' : t = u \/ StacksApart(t, u)
  BY Zenon DEF ThreadsInv
<1>4. \A t, u : StacksApart(t, u)' <=> StacksApart(t, u)
  BY Zenon DEF StacksApart
<1> QED BY <1>2, <1>3, <1>4, Zenon DEF ThreadsInv

LEMMA BlocksStay ==
  ASSUME TypeOK, BlocksInv, AllBlocks' \subseteq AllBlocks,
         next_large_vaddr' \in Nat, next_large_vaddr <= next_large_vaddr',
         Blocking' => CallBlock' \notin blocks'
  PROVE  BlocksInv'
<1>1. \A b \in AllBlocks : BlockBelow(b)
  BY Zenon DEF BlocksInv
<1>2. ASSUME NEW b \in AllBlocks' PROVE BlockBelow(b)'
  <2>1. /\ LargeBase <= b.base /\ b.pages >= 1
        /\ b.base + b.pages <= next_large_vaddr
    BY <1>1, Zenon DEF BlockBelow
  <2>2. b.base \in Nat /\ b.pages \in Nat /\ next_large_vaddr \in Nat
    BY AreaTypes, StateTypes, Zenon
  <2>3. b.base + b.pages <= next_large_vaddr'
    BY <2>1, <2>2
  <2> QED BY <2>1, <2>3, Zenon DEF BlockBelow
<1>3. \A b, d \in AllBlocks' : b = d \/ BlocksApart(b, d)
  BY Zenon DEF BlocksInv
<1>4. \A b, d : BlocksApart(b, d)' <=> BlocksApart(b, d)
  BY Zenon DEF BlocksApart
<1> QED BY <1>2, <1>3, <1>4, Zenon DEF BlocksInv

LEMMA SamePages ==
  ASSUME threads' = threads, blocks' = blocks,
         Stacking' <=> Stacking, Blocking' <=> Blocking,
         Stacking \/ Blocking =>
           /\ call'.at = "free" <=> call.at = "free"
           /\ call'.base = call.base /\ call'.pages = call.pages /\ call'.i = call.i
  PROVE  \A p : (OnStack(p)' <=> OnStack(p)) /\ (InBlock(p)' <=> InBlock(p))
<1>1. ASSUME Stacking \/ Blocking, NEW p PROVE InCall(p)' <=> InCall(p)
  BY <1>1 DEF InCall
<1>2. ASSUME NEW p PROVE OnStack(p)' <=> OnStack(p)
  BY <1>1, Zenon DEF OnStack
<1>3. ASSUME NEW p PROVE InBlock(p)' <=> InBlock(p)
  BY <1>1, Zenon DEF InBlock
<1> QED BY <1>2, <1>3, Zenon

LEMMA BackedStay ==
  ASSUME BackedInv, mapping' = mapping,
         \A p : OnStack(p)' <=> OnStack(p), \A p : InBlock(p)' => InBlock(p),
         SlabFrames' \subseteq SlabFrames,
         next_large_vaddr' = next_large_vaddr,
         call'.at \in {"large", "map_large"} =>
           /\ call.at \in {"large", "map_large"}
           /\ call'.base = call.base /\ call'.pages = call.pages /\ call'.i = call.i
  PROVE  BackedInv'
<1>1. \A p \in StackBase .. StackLimit : mapping'[p] # Unmapped <=> OnStack(p)'
  BY Zenon DEF BackedInv
<1>2. \A p \in Frames : InBlock(p)' => mapping'[p] # Unmapped
  BY Zenon DEF BackedInv
<1>3. \A p \in LargeBase .. StackBase - 1 : mapping'[p] # Unmapped => p < next_large_vaddr'
  BY Zenon DEF BackedInv
<1>4. call'.at \in {"large", "map_large"} =>
       \A p \in Frames : call'.base + call'.i <= p /\ p < call'.base + call'.pages =>
         mapping'[p] = Unmapped
  BY Zenon DEF BackedInv
<1>5. \A s \in SlabFrames' : mapping'[s] = s
  BY Zenon DEF BackedInv
<1> QED BY <1>1, <1>2, <1>3, <1>4, <1>5, Zenon DEF BackedInv

LEMMA SameTables ==
  ASSUME page_directory' = page_directory
  PROVE  Tables' = Tables /\ (TablesOnce <=> TablesOnce')
<1>1. Tables' = Tables
  BY Zenon DEF Tables
<1>2. TablesOnce <=> TablesOnce'
  BY Zenon DEF TablesOnce
<1> QED BY <1>1, <1>2, Zenon

LEMMA SameSlabs ==
  ASSUME slabs' = slabs
  PROVE  SlabFrames' = SlabFrames /\ (SlabsOnce <=> SlabsOnce')
<1>1. SlabFrames' = SlabFrames
  BY DEF SlabFrames
<1>2. SlabsOnce <=> SlabsOnce'
  BY DEF SlabsOnce
<1> QED BY <1>1, <1>2, Zenon

LEMMA SamePageFrames ==
  ASSUME \A p \in LargeBase .. StackLimit : mapping'[p] = mapping[p]
  PROVE  /\ Backed' = Backed /\ PageFrames' = PageFrames
         /\ PagesOnce <=> PagesOnce'
<1>1. Backed' = Backed
  BY Zenon DEF Backed
<1>2. Backed \subseteq LargeBase .. StackLimit
  BY Zenon DEF Backed
<1>3. PageFrames' = PageFrames
  BY <1>1, <1>2 DEF PageFrames
<1>4. PagesOnce <=> PagesOnce'
  BY <1>1, <1>2, Zenon DEF PagesOnce
<1> QED BY <1>1, <1>3, <1>4, Zenon

LEMMA OwnersParts ==
  ASSUME OwnersInv
  PROVE  /\ TablesOnce /\ SlabsOnce /\ PagesOnce
         /\ Partition(Tables, SlabFrames, PageFrames, InHand, bitmap \ Reserved)
         /\ Reserved \subseteq bitmap
  BY Zenon DEF OwnersInv

LEMMA ReservedStays == Reserved' = Reserved
  BY Zenon DEF Reserved

LEMMA OwnersStay ==
  ASSUME OwnersInv, page_directory' = page_directory, slabs' = slabs,
         \A p \in LargeBase .. StackLimit : mapping'[p] = mapping[p],
         InHand' = InHand, bitmap' = bitmap
  PROVE  OwnersInv'
<1>1. Tables' = Tables /\ SlabFrames' = SlabFrames /\ PageFrames' = PageFrames
  BY SameTables, SameSlabs, SamePageFrames, Zenon
<1>2. TablesOnce' /\ SlabsOnce' /\ PagesOnce'
  BY SameTables, SameSlabs, SamePageFrames, OwnersParts, Zenon
<1>3. Partition(Tables, SlabFrames, PageFrames, InHand, bitmap \ Reserved)
  BY OwnersParts
<1>4. Partition(Tables, SlabFrames, PageFrames, InHand, bitmap \ Reserved)'
  BY <1>1, <1>3, ReservedStays, Zenon DEF Partition
<1>5. (Reserved \subseteq bitmap)'
  BY OwnersParts, ReservedStays, Zenon
<1> QED BY <1>2, <1>4, <1>5, Zenon DEF OwnersInv

LEMMA FrameTaken ==
  ASSUME OwnersInv, page_directory' = page_directory, slabs' = slabs,
         mapping' = mapping,
         NEW f, f \notin bitmap, bitmap' = bitmap \cup {f}, InHand = {}, InHand' = {f}
  PROVE  OwnersInv'
<1>1. Tables' = Tables /\ SlabFrames' = SlabFrames /\ PageFrames' = PageFrames
  BY SameTables, SameSlabs, SamePageFrames, Zenon
<1>2. TablesOnce' /\ SlabsOnce' /\ PagesOnce'
  BY SameTables, SameSlabs, SamePageFrames, OwnersParts, Zenon
<1>3. /\ Partition(Tables, SlabFrames, PageFrames, InHand, bitmap \ Reserved)
      /\ Reserved \subseteq bitmap
  BY OwnersParts
<1>4. Partition(Tables, SlabFrames, PageFrames, InHand', bitmap' \ Reserved)
  BY <1>3 DEF Partition
<1>5. Partition(Tables, SlabFrames, PageFrames, InHand, bitmap \ Reserved)'
  BY <1>1, <1>4, ReservedStays, Zenon DEF Partition
<1>6. (Reserved \subseteq bitmap)'
  BY <1>3, ReservedStays, Zenon
<1> QED BY <1>2, <1>5, <1>6, Zenon DEF OwnersInv

(* A slab that is wholly free would be found. *)
LEMMA NoEmptySlab ==
  ASSUME TypeOK, SlabInv, call.at # "slab_alloc" \/ FirstWithRoom(call.cache) = {},
         NEW c \in Caches, NEW k \in DOMAIN slabs[c]
  PROVE  Taken(c, slabs[c][k]) # {}
<1>1. CASE call.at # "slab_alloc"
  BY <1>1, Zenon DEF SlabInv, FreshFirst
<1>2. CASE FirstWithRoom(call.cache) = {}
  <2> SUFFICES ASSUME Taken(c, slabs[c][k]) = {} PROVE FALSE
    OBVIOUS
  <2> DEFINE s == slabs[c][k]
  <2>1. c = call.cache /\ k = 1
    BY Zenon DEF SlabInv, FreshFirst
  <2>2. {free_list[s][i] : i \in DOMAIN free_list[s]} = (1 .. Capacity[c]) \ Taken(c, s)
    BY Zenon DEF SlabInv, ListsExact, Exact
  <2>3. 1 \in 1 .. Capacity[c]
    BY RegionAssumption
  <2>4. free_list[s] # <<>>
    BY <2>2, <2>3
  <2>5. 1 \in 1 .. Len(slabs[c])
    BY <2>1, StateTypes
  <2>6. 1 \in FirstWithRoom(c)
    BY <2>1, <2>4, <2>5 DEF FirstWithRoom
  <2> QED BY <1>2, <2>1, <2>6
<1> QED BY <1>1, <1>2

LEMMA SlabsStay ==
  ASSUME TypeOK, SlabInv, call.at # "slab_alloc" \/ FirstWithRoom(call.cache) = {},
         slabs' = slabs, free_list' = free_list, held' = held
  PROVE  SlabInv'
<1>1. \A c, s : Taken(c, s)' = Taken(c, s)
  BY Zenon DEF Taken
<1>2. \A c \in Caches : \A k \in DOMAIN slabs[c] : Taken(c, slabs[c][k]) # {}
  BY NoEmptySlab, Zenon
<1>3. FreshFirst'
  BY <1>1, <1>2 DEF FreshFirst
<1>4. ListsExact'
  <2> SUFFICES ASSUME NEW c \in Caches, NEW k \in DOMAIN slabs[c]
               PROVE  Exact(c, free_list'[slabs[c][k]], Taken(c, slabs[c][k])')
    BY DEF ListsExact
  <2> QED BY <1>1, Zenon DEF SlabInv, ListsExact
<1>5. HeldInSlabs'
  BY DEF SlabInv, HeldInSlabs
<1> QED BY <1>3, <1>4, <1>5, Zenon DEF SlabInv

(* A step that changes no page, no list and no owner. *)
LEMMA Quiet ==
  ASSUME Good, UNCHANGED <<paging, caches, regions, owners>>,
         Stacking' <=> Stacking, Blocking' <=> Blocking,
         Stacking \/ Blocking =>
           /\ call'.at = "free" <=> call.at = "free"
           /\ call'.object = call.object /\ call'.base = call.base
           /\ call'.pages = call.pages /\ call'.i = call.i,
         call.at # "slab_alloc" \/ FirstWithRoom(call.cache) = {}
  PROVE  ThreadsInv' /\ BlocksInv' /\ BackedInv' /\ SlabInv'
<1> USE GoodParts
<1>1. /\ mapping' = mapping /\ page_directory' = page_directory
      /\ slabs' = slabs /\ free_list' = free_list
      /\ next_large_vaddr' = next_large_vaddr /\ next_stack_vaddr' = next_stack_vaddr
      /\ held' = held /\ blocks' = blocks /\ threads' = threads
  BY Zenon DEF paging, caches, regions, owners
<1>2. /\ AllThreads' = AllThreads /\ AllBlocks' = AllBlocks
      /\ Stacking => CallThread' = CallThread
      /\ Blocking => CallBlock' = CallBlock
  BY <1>1, SameAreas
<1>3. ThreadsInv'
  <2>1. /\ next_stack_vaddr' \in Nat /\ next_stack_vaddr <= next_stack_vaddr'
    BY <1>1, StateTypes
  <2>2. \A t \in AllThreads' : t.header \in held'
    BY <1>1, <1>2, Zenon DEF ThreadsInv, StackOf
  <2>3. Stacking' => CallThread' \notin threads'
    BY <1>1, <1>2, Zenon DEF ThreadsInv
  <2> QED BY <1>2, <2>1, <2>2, <2>3, ThreadsStay
<1>4. BlocksInv'
  <2>1. /\ next_large_vaddr' \in Nat /\ next_large_vaddr <= next_large_vaddr'
    BY <1>1, StateTypes
  <2>2. Blocking' => CallBlock' \notin blocks'
    BY <1>1, <1>2, Zenon DEF BlocksInv
  <2> QED BY <1>2, <2>1, <2>2, BlocksStay
<1>5. BackedInv'
  <2>1. \A p : (OnStack(p)' <=> OnStack(p)) /\ (InBlock(p)' <=> InBlock(p))
    BY <1>1, SamePages
  <2>2. SlabFrames' = SlabFrames
    BY <1>1, SameSlabs
  <2>3. call'.at \in {"large", "map_large"} =>
           /\ call.at \in {"large", "map_large"}
           /\ call'.base = call.base /\ call'.pages = call.pages /\ call'.i = call.i
    BY DEF Blocking
  <2> QED BY <1>1, <2>1, <2>2, <2>3, BackedStay
<1>6. SlabInv'
  BY <1>1, SlabsStay
<1> QED BY <1>3, <1>4, <1>5, <1>6, Zenon

LEMMA AllocTypes ==
  ASSUME TypeOK, NEW f \in Frames, PmmAlloc(f)
  PROVE  /\ bitmap' \subseteq Frames /\ search_hint' \in 0 .. BitmapSize - 1
         /\ f \notin bitmap /\ bitmap' = bitmap \cup {f}
<1>1. f \notin bitmap /\ bitmap' = bitmap \cup {f} /\ search_hint' = Word(f)
  BY FoundIsFree DEF PmmAlloc
<1>2. Word(f) \in 0 .. BitmapSize - 1
  BY WordOfFrame
<1>3. bitmap \subseteq Frames
  BY StateTypes
<1> QED BY <1>1, <1>2, <1>3

LEMMA FreeTypes ==
  ASSUME TypeOK, NEW f \in Frames, PmmFree(f)
  PROVE  /\ bitmap' \subseteq Frames /\ search_hint' \in 0 .. BitmapSize - 1
         /\ bitmap' = bitmap \ {f}
<1>1. /\ bitmap' = bitmap \ {f}
      /\ search_hint' = IF Word(f) < search_hint THEN Word(f) ELSE search_hint
  BY DEF PmmFree
<1>2. Word(f) \in 0 .. BitmapSize - 1 /\ search_hint \in 0 .. BitmapSize - 1
  BY WordOfFrame, StateTypes
<1>3. bitmap \subseteq Frames
  BY StateTypes
<1> QED BY <1>1, <1>2, <1>3

LEMMA IdleTypes ==
  /\ Idle \in Calls /\ Idle.at = "idle" /\ Idle.object = NoObject /\ Idle.frame = NoFrame
  /\ Idle.i = 0 /\ Idle.pages = 0 /\ Idle.cache = ThreadPool
<1>1. ThreadPool \in Caches
  BY DEF Caches
<1>2. 0 \in Frames
  BY Regions, FramesAreNumbers
<1> QED BY <1>1, <1>2 DEF Idle, Calls

LEMMA QuietTypes ==
  ASSUME TypeOK, UNCHANGED <<paging, caches, regions, owners, exhausted, panic>>,
         bitmap' \subseteq Frames, search_hint' \in 0 .. BitmapSize - 1, call' \in Calls
  PROVE  TypeOK' /\ (~panic => ~panic')
<1>1. /\ mapping' = mapping /\ page_directory' = page_directory
      /\ slabs' = slabs /\ free_list' = free_list
      /\ next_large_vaddr' = next_large_vaddr /\ next_stack_vaddr' = next_stack_vaddr
      /\ held' = held /\ blocks' = blocks /\ threads' = threads
  BY Zenon DEF paging, caches, regions, owners
<1>2. (exhausted' <=> exhausted) /\ (panic' <=> panic) /\ exhausted' = exhausted /\ panic' = panic
  BY Zenon
<1>3. TypeOK'
  BY <1>1, <1>2, Zenon DEF TypeOK
<1> QED BY <1>2, <1>3, Zenon

LEMMA SameBitmap ==
  ASSUME TypeOK, UNCHANGED frames
  PROVE  /\ bitmap' \subseteq Frames /\ search_hint' \in 0 .. BitmapSize - 1
         /\ bitmap' = bitmap /\ search_hint' = search_hint
<1>1. bitmap' = bitmap /\ search_hint' = search_hint
  BY Zenon DEF frames
<1> QED BY <1>1, StateTypes

LEMMA GoodNext ==
  ASSUME TypeOK', ~panic', CallInv', ThreadsInv', BlocksInv', BackedInv', OwnersInv', SlabInv'
  PROVE  Good'
  BY Zenon DEF Good

-----------------------------------------------------------------------------
(* The steps: those that only move the call along *)

LEMMA KmallocKeeps ==
  ASSUME Good, Kmalloc
  PROVE  Good'
<1> USE GoodParts
<1>1. PICK c \in HeapCaches : call' = [Idle EXCEPT !.at = "slab_alloc", !.cache = c]
  BY Zenon DEF Kmalloc
<1>2. /\ call.at = "idle"
      /\ UNCHANGED <<frames, paging, caches, regions, owners, exhausted, panic>>
  BY Zenon DEF Kmalloc, At
<1>3. call' \in Calls /\ call'.frame = NoFrame /\ call'.at = "slab_alloc" /\ call'.i = 0
      /\ call'.cache = c /\ c \in Caches
  BY <1>1, IdleTypes DEF Calls, Caches
<1>4. TypeOK' /\ ~panic'
  BY <1>2, <1>3, SameBitmap, QuietTypes
<1>5. CallInv'
  <2>1. c # ThreadPool
    BY RegionAssumption
  <2> QED BY <1>3, <2>1 DEF CallInv, Growing, Holding, OnPages
<1>6. ThreadsInv' /\ BlocksInv' /\ BackedInv' /\ SlabInv'
  <2>1. ~Stacking /\ ~Blocking /\ ~Stacking' /\ ~Blocking'
    BY <1>2, <1>3 DEF Stacking, Blocking
  <2> QED BY <1>2, <2>1, Quiet
<1>7. OwnersInv'
  <2>1. InHand = {}
    BY <1>2 DEF CallInv, Holding, InHand
  <2>2. InHand' = {}
    BY <1>3 DEF InHand
  <2> QED BY <1>2, <2>1, <2>2, OwnersStay, SameBitmap DEF paging, caches
<1> QED BY <1>4, <1>5, <1>6, <1>7, GoodNext

LEMMA ThreadCreateKeeps ==
  ASSUME Good, ThreadCreate
  PROVE  Good'
<1> USE GoodParts
<1>1. PICK n \in StackSizes :
        /\ next_stack_vaddr + n + 1 <= StackLimit
        /\ call' = [Idle EXCEPT !.at = "slab_alloc", !.cache = ThreadPool, !.pages = n]
  BY Zenon DEF ThreadCreate
<1>2. /\ call.at = "idle"
      /\ UNCHANGED <<frames, paging, caches, regions, owners, exhausted, panic>>
  BY Zenon DEF ThreadCreate, At
<1>3. n \in Nat /\ n >= 1
  BY RegionAssumption
<1>4. call' \in Calls /\ call'.frame = NoFrame /\ call'.at = "slab_alloc" /\ call'.i = 0
      /\ call'.pages = n
  BY <1>1, <1>3, IdleTypes DEF Calls, Caches
<1>5. TypeOK' /\ ~panic'
  BY <1>2, <1>4, SameBitmap, QuietTypes
<1>6. CallInv'
  <2>1. next_stack_vaddr' = next_stack_vaddr
    BY <1>2, Zenon DEF regions
  <2> QED BY <1>1, <1>3, <1>4, <2>1 DEF CallInv, Growing, Holding, OnPages
<1>7. ThreadsInv' /\ BlocksInv' /\ BackedInv' /\ SlabInv'
  <2>1. ~Stacking /\ ~Blocking /\ ~Stacking' /\ ~Blocking'
    BY <1>2, <1>4 DEF Stacking, Blocking
  <2> QED BY <1>2, <2>1, Quiet
<1>8. OwnersInv'
  <2>1. InHand = {}
    BY <1>2 DEF CallInv, Holding, InHand
  <2>2. InHand' = {}
    BY <1>4 DEF InHand
  <2> QED BY <1>2, <2>1, <2>2, OwnersStay, SameBitmap DEF paging, caches
<1> QED BY <1>5, <1>6, <1>7, <1>8, GoodNext

LEMMA SlabGrowKeeps ==
  ASSUME Good, SlabGrow
  PROVE  Good'
<1> USE GoodParts
<1>1. PICK f \in Frames :
        PmmAlloc(f) /\ call' = [call EXCEPT !.at = "map_slab", !.frame = f]
  BY Zenon DEF SlabGrow
<1>2. /\ call.at = "slab_alloc" /\ FirstWithRoom(call.cache) = {}
      /\ UNCHANGED <<paging, caches, regions, owners, exhausted, panic>>
  BY Zenon DEF SlabGrow, At
<1>3. /\ call' \in Calls /\ call'.frame = f /\ call'.at = "map_slab" /\ f # NoFrame
      /\ call'.i = call.i /\ call'.pages = call.pages /\ call'.cache = call.cache
  BY <1>1, CallTypes, FramesAreNumbers DEF Calls
<1>4. TypeOK' /\ ~panic'
  BY <1>1, <1>2, <1>3, AllocTypes, QuietTypes
<1>5. CallInv'
  <2>1. next_stack_vaddr' = next_stack_vaddr
    BY <1>2, Zenon DEF regions
  <2> QED BY <1>2, <1>3, <2>1 DEF CallInv, Growing, Holding, OnPages
<1>6. ThreadsInv' /\ BlocksInv' /\ BackedInv' /\ SlabInv'
  <2>1. ~Stacking /\ ~Blocking /\ ~Stacking' /\ ~Blocking'
    BY <1>2, <1>3 DEF Stacking, Blocking
  <2> QED BY <1>2, <2>1, Quiet
<1>7. OwnersInv'
  <2>1. InHand = {}
    BY <1>2 DEF CallInv, Holding, InHand
  <2>2. InHand' = {f}
    BY <1>3 DEF InHand
  <2> QED BY <1>1, <1>2, <2>1, <2>2, FrameTaken, AllocTypes DEF paging, caches
<1> QED BY <1>4, <1>5, <1>6, <1>7, GoodNext

LEMMA SlabRefuseKeeps ==
  ASSUME Good, SlabRefuse
  PROVE  Good'
<1> USE GoodParts
<1>1. /\ call.at = "slab_alloc" /\ FirstWithRoom(call.cache) = {} /\ call' = Idle
      /\ UNCHANGED <<frames, paging, caches, regions, owners, exhausted, panic>>
  BY Zenon DEF SlabRefuse, At
<1>2. call' \in Calls /\ call'.frame = NoFrame /\ call'.at = "idle"
  BY <1>1, IdleTypes
<1>3. TypeOK' /\ ~panic'
  BY <1>1, <1>2, SameBitmap, QuietTypes
<1>4. CallInv'
  BY <1>2 DEF CallInv, Growing, Holding, OnPages
<1>5. ThreadsInv' /\ BlocksInv' /\ BackedInv' /\ SlabInv'
  <2>1. ~Stacking /\ ~Blocking /\ ~Stacking' /\ ~Blocking'
    BY <1>1, <1>2 DEF Stacking, Blocking
  <2> QED BY <1>1, <2>1, Quiet
<1>6. OwnersInv'
  <2>1. InHand = {}
    BY <1>1 DEF CallInv, Holding, InHand
  <2>2. InHand' = {}
    BY <1>2 DEF InHand
  <2> QED BY <1>1, <2>1, <2>2, OwnersStay, SameBitmap DEF paging, caches
<1> QED BY <1>3, <1>4, <1>5, <1>6, GoodNext

LEMMA LargePageKeeps ==
  ASSUME Good, LargePage
  PROVE  Good'
<1> USE GoodParts
<1>1. PICK f \in Frames :
        PmmAlloc(f) /\ call' = [call EXCEPT !.at = "map_large", !.frame = f]
  BY Zenon DEF LargePage
<1>2. /\ call.at = "large" /\ call.i < call.pages
      /\ UNCHANGED <<paging, caches, regions, owners, exhausted, panic>>
  BY Zenon DEF LargePage, At
<1>3. /\ call' \in Calls /\ call'.frame = f /\ call'.at = "map_large" /\ f # NoFrame
      /\ call'.i = call.i /\ call'.pages = call.pages /\ call'.base = call.base
      /\ call'.object = call.object
  BY <1>1, CallTypes, FramesAreNumbers DEF Calls
<1>4. TypeOK' /\ ~panic'
  BY <1>1, <1>2, <1>3, AllocTypes, QuietTypes
<1>5. CallInv'
  BY <1>2, <1>3 DEF CallInv, Growing, Holding, OnPages
<1>6. ThreadsInv' /\ BlocksInv' /\ BackedInv' /\ SlabInv'
  <2>1. ~Stacking /\ Blocking /\ ~Stacking' /\ Blocking'
    BY <1>2, <1>3 DEF Stacking, Blocking
  <2> QED BY <1>2, <1>3, <2>1, Quiet
<1>7. OwnersInv'
  <2>1. InHand = {}
    BY <1>2 DEF CallInv, Holding, InHand
  <2>2. InHand' = {f}
    BY <1>3 DEF InHand
  <2> QED BY <1>1, <1>2, <2>1, <2>2, FrameTaken, AllocTypes DEF paging, caches
<1> QED BY <1>4, <1>5, <1>6, <1>7, GoodNext

LEMMA StackPageKeeps ==
  ASSUME Good, StackPage
  PROVE  Good'
<1> USE GoodParts
<1>1. PICK f \in Frames :
        PmmAlloc(f) /\ call' = [call EXCEPT !.at = "map_thread", !.frame = f]
  BY Zenon DEF StackPage
<1>2. /\ call.at = "thread" /\ call.i < call.pages
      /\ UNCHANGED <<paging, caches, regions, owners, exhausted, panic>>
  BY Zenon DEF StackPage, At
<1>3. /\ call' \in Calls /\ call'.frame = f /\ call'.at = "map_thread" /\ f # NoFrame
      /\ call'.i = call.i /\ call'.pages = call.pages /\ call'.base = call.base
      /\ call'.object = call.object
  BY <1>1, CallTypes, FramesAreNumbers DEF Calls
<1>4. TypeOK' /\ ~panic'
  BY <1>1, <1>2, <1>3, AllocTypes, QuietTypes
<1>5. CallInv'
  BY <1>2, <1>3 DEF CallInv, Growing, Holding, OnPages
<1>6. ThreadsInv' /\ BlocksInv' /\ BackedInv' /\ SlabInv'
  <2>1. Stacking /\ ~Blocking /\ Stacking' /\ ~Blocking'
    BY <1>2, <1>3 DEF Stacking, Blocking
  <2> QED BY <1>2, <1>3, <2>1, Quiet
<1>7. OwnersInv'
  <2>1. InHand = {}
    BY <1>2 DEF CallInv, Holding, InHand
  <2>2. InHand' = {f}
    BY <1>3 DEF InHand
  <2> QED BY <1>1, <1>2, <2>1, <2>2, FrameTaken, AllocTypes DEF paging, caches
<1> QED BY <1>4, <1>5, <1>6, <1>7, GoodNext

(* A block given up half way: its pages stay mapped, and theirs is the     *)
(* address range.                                                          *)
LEMMA LargeRefuseKeeps ==
  ASSUME Good, LargeRefuse
  PROVE  Good'
<1> USE GoodParts
<1>1. /\ call.at = "large" /\ call' = Idle
      /\ UNCHANGED <<frames, paging, caches, regions, owners, exhausted, panic>>
  BY Zenon DEF LargeRefuse, At
<1>2. call' \in Calls /\ call'.frame = NoFrame /\ call'.at = "idle"
  BY <1>1, IdleTypes
<1>3. TypeOK' /\ ~panic'
  BY <1>1, <1>2, SameBitmap, QuietTypes
<1>4. CallInv'
  BY <1>2 DEF CallInv, Growing, Holding, OnPages
<1>5. /\ mapping' = mapping /\ page_directory' = page_directory
      /\ slabs' = slabs /\ free_list' = free_list
      /\ next_large_vaddr' = next_large_vaddr /\ next_stack_vaddr' = next_stack_vaddr
      /\ held' = held /\ blocks' = blocks /\ threads' = threads
  BY <1>1, Zenon DEF paging, caches, regions, owners
<1>6. ~Stacking /\ ~Stacking' /\ ~Blocking'
  BY <1>1, <1>2 DEF Stacking, Blocking
<1>7. ThreadsInv'
  <2>1. AllThreads' = AllThreads
    BY <1>5, <1>6, Zenon DEF AllThreads
  <2>2. \A t \in AllThreads' : t.header \in held'
    BY <1>5, <2>1, Zenon DEF ThreadsInv, StackOf
  <2>3. next_stack_vaddr' \in Nat /\ next_stack_vaddr <= next_stack_vaddr'
    BY <1>5, StateTypes
  <2> QED BY <1>6, <2>1, <2>2, <2>3, ThreadsStay
<1>8. BlocksInv'
  <2>1. AllBlocks' \subseteq AllBlocks
    BY <1>5, <1>6, Zenon DEF AllBlocks
  <2>2. next_large_vaddr' \in Nat /\ next_large_vaddr <= next_large_vaddr'
    BY <1>5, StateTypes
  <2> QED BY <1>6, <2>1, <2>2, BlocksStay
<1>9. BackedInv'
  <2>1. \A p : OnStack(p)' <=> OnStack(p)
    BY <1>5, <1>6, Zenon DEF OnStack
  <2>2. \A p : InBlock(p)' => InBlock(p)
    BY <1>5, <1>6, Zenon DEF InBlock
  <2>3. SlabFrames' = SlabFrames
    BY <1>5, SameSlabs
  <2> QED BY <1>2, <1>5, <2>1, <2>2, <2>3, BackedStay
<1>10. OwnersInv'
  <2>1. InHand = {}
    BY <1>1 DEF CallInv, Holding, InHand
  <2>2. InHand' = {}
    BY <1>2 DEF InHand
  <2> QED BY <1>1, <1>5, <2>1, <2>2, OwnersStay, SameBitmap
<1>11. SlabInv'
  BY <1>1, <1>5, SlabsStay
<1> QED BY <1>3, <1>4, <1>7, <1>8, <1>9, <1>10, <1>11, GoodNext

-----------------------------------------------------------------------------
(* The steps that begin or end the life of a block *)

(* The types after a step that changes neither frames, pages nor lists. *)
LEMMA OwnerTypes ==
  ASSUME TypeOK, UNCHANGED <<frames, paging, caches, held, exhausted, panic>>,
         next_large_vaddr' \in LargeBase .. LargeEnd,
         next_stack_vaddr' \in StackBase .. StackLimit,
         blocks' \subseteq Blocks,
         threads' \subseteq [header : Objects, mem : Frames, stack_pages : Nat],
         call' \in Calls
  PROVE  TypeOK' /\ (~panic => ~panic')
<1>1. /\ bitmap' = bitmap /\ search_hint' = search_hint
      /\ mapping' = mapping /\ page_directory' = page_directory
      /\ slabs' = slabs /\ free_list' = free_list
      /\ held' = held /\ exhausted' = exhausted /\ panic' = panic
  BY Zenon DEF frames, paging, caches
<1>2. (exhausted' <=> exhausted) /\ (panic' <=> panic)
  BY Zenon
<1>3. TypeOK'
  BY <1>1, <1>2, Zenon DEF TypeOK
<1> QED BY <1>2, <1>3, Zenon

LEMMA BlockAdded ==
  ASSUME TypeOK, BlocksInv, ~Blocking, Blocking', blocks' = blocks,
         call'.base = next_large_vaddr, call'.pages \in Nat, call'.pages >= 1,
         next_large_vaddr' = next_large_vaddr + call'.pages
  PROVE  BlocksInv'
<1> DEFINE L == next_large_vaddr
           n == call'.pages
<1>1. L \in Nat /\ LargeBase <= L /\ n \in Nat /\ n >= 1 /\ L' = L + n /\ LargeBase \in Nat
  BY StateTypes, Regions
<1> PICK new : new = CallBlock'
  BY Zenon
<1>2. new.base = L /\ new.pages = n
  BY DEF CallBlock
<1> HIDE DEF n
<1>3. AllBlocks = blocks /\ AllBlocks' = blocks \cup {new}
  BY Zenon DEF AllBlocks
<1>4. ASSUME NEW b \in blocks
      PROVE  BlockBelow(b)' /\ BlocksApart(b, new) /\ BlocksApart(new, b) /\ b # new
  <2>1. LargeBase <= b.base /\ b.pages >= 1 /\ b.base + b.pages <= L
    BY <1>3, Zenon DEF BlocksInv, BlockBelow
  <2>2. b.base \in Nat /\ b.pages \in Nat
    BY AreaTypes
  <2>3. BlockBelow(b)'
    BY <1>1, <2>1, <2>2 DEF BlockBelow
  <2>4. b.base + b.pages <= new.base /\ b.base # new.base
    BY <1>1, <1>2, <2>1, <2>2
  <2> QED BY <2>3, <2>4, Zenon DEF BlocksApart
<1>5. BlockBelow(new)'
  BY <1>1, <1>2 DEF BlockBelow
<1>6. \A b, d \in blocks : b = d \/ BlocksApart(b, d)
  BY <1>3, Zenon DEF BlocksInv
<1>7. \A b, d : BlocksApart(b, d)' <=> BlocksApart(b, d)
  BY Zenon DEF BlocksApart
<1>8. new \notin blocks'
  BY <1>4, Zenon
<1>9. \A b \in AllBlocks' : BlockBelow(b)'
  BY <1>3, <1>4, <1>5, Zenon
<1>10. ASSUME NEW b \in AllBlocks', NEW d \in AllBlocks', b # d
       PROVE  BlocksApart(b, d)
  <2>1. (b \in blocks \/ b = new) /\ (d \in blocks \/ d = new)
    BY <1>3, Zenon
  <2> QED BY <1>4, <1>6, <1>10, <2>1, Zenon
<1> QED BY <1>7, <1>8, <1>9, <1>10, Zenon DEF BlocksInv

LEMMA KmallocLargeKeeps ==
  ASSUME Good, KmallocLarge
  PROVE  Good'
<1> USE GoodParts
<1>1. PICK n \in LargeSizes :
        /\ next_large_vaddr + n <= LargeEnd
        /\ next_large_vaddr' = next_large_vaddr + n
        /\ call' = [Idle EXCEPT !.at = "large", !.base = next_large_vaddr, !.pages = n]
  BY Zenon DEF KmallocLarge
<1>2. /\ call.at = "idle"
      /\ UNCHANGED <<frames, paging, caches, next_stack_vaddr, owners, exhausted, panic>>
  BY Zenon DEF KmallocLarge, At
<1>3. /\ mapping' = mapping /\ page_directory' = page_directory
      /\ slabs' = slabs /\ free_list' = free_list
      /\ next_stack_vaddr' = next_stack_vaddr
      /\ held' = held /\ blocks' = blocks /\ threads' = threads
  BY <1>2, Zenon DEF paging, caches, owners
<1> DEFINE L == next_large_vaddr
<1>4. /\ n \in Nat /\ n >= 1 /\ L \in Nat /\ L' = L + n /\ L' \in LargeBase .. LargeEnd
      /\ L >= LargeBase /\ L + n <= StackBase
  <2>1. n \in Nat \ {0}
    BY RegionAssumption
  <2>2. L \in LargeBase .. LargeEnd /\ L \in Nat
    BY StateTypes
  <2> QED BY <1>1, <2>1, <2>2, Regions
<1>5. L \in Frames /\ \A p \in L .. L + n - 1 : p \in Frames
  BY <1>4, FramesAreNumbers, Regions
<1>6. /\ call' \in Calls /\ call'.frame = NoFrame /\ call'.at = "large" /\ call'.i = 0
      /\ call'.base = L /\ call'.pages = n
  BY <1>1, <1>4, <1>5, IdleTypes DEF Calls
<1>7. TypeOK' /\ ~panic'
  <2>1. next_stack_vaddr' \in StackBase .. StackLimit
    BY <1>3, StateTypes
  <2>2. /\ blocks' \subseteq Blocks
        /\ threads' \subseteq [header : Objects, mem : Frames, stack_pages : Nat]
    BY <1>3, StateTypes, Zenon
  <2>3. UNCHANGED <<frames, paging, caches, held, exhausted, panic>>
    BY <1>2, <1>3, Zenon
  <2> QED BY <1>4, <1>6, <2>1, <2>2, <2>3, OwnerTypes
<1>8. CallInv'
  BY <1>4, <1>6 DEF CallInv, Growing, Holding, OnPages
<1>9. ~Stacking /\ ~Blocking /\ ~Stacking' /\ Blocking'
  BY <1>2, <1>6 DEF Stacking, Blocking
<1>10. ThreadsInv'
  <2>1. AllThreads' = AllThreads
    BY <1>3, <1>9, Zenon DEF AllThreads
  <2>2. \A t \in AllThreads' : t.header \in held'
    BY <1>3, <2>1, Zenon DEF ThreadsInv, StackOf
  <2>3. next_stack_vaddr' \in Nat /\ next_stack_vaddr <= next_stack_vaddr'
    BY <1>3, StateTypes
  <2> QED BY <1>9, <2>1, <2>2, <2>3, ThreadsStay
<1>11. BlocksInv'
  BY <1>2, <1>3, <1>4, <1>6, <1>9, BlockAdded
<1>12. BackedInv'
  <2>1. \A p : OnStack(p)' <=> OnStack(p)
    BY <1>3, <1>9, Zenon DEF OnStack
  <2>2. \A p \in Frames : InBlock(p)' => InBlock(p)
    <3>1. \A p \in Frames : ~(InCall(p)')
      BY <1>4, <1>6, FramesAreNumbers DEF InCall
    <3> QED BY <1>3, <3>1, Zenon DEF InBlock
  <2>3. \A p \in StackBase .. StackLimit : mapping'[p] # Unmapped <=> OnStack(p)'
    BY <1>3, <2>1, Zenon DEF BackedInv
  <2>4. \A p \in Frames : InBlock(p)' => mapping'[p] # Unmapped
    BY <1>3, <2>2, Zenon DEF BackedInv
  <2>5. \A p \in LargeBase .. StackBase - 1 : mapping[p] # Unmapped => p < L
    BY Zenon DEF BackedInv
  <2>6. \A p \in LargeBase .. StackBase - 1 : mapping'[p] # Unmapped => p < L'
    BY <1>3, <1>4, <2>5, Regions
  <2>7. \A p \in Frames : call'.base + call'.i <= p /\ p < call'.base + call'.pages =>
          mapping'[p] = Unmapped
    BY <1>3, <1>4, <1>6, <2>5, FramesAreNumbers, Regions
  <2>8. \A s \in SlabFrames' : mapping'[s] = s
    BY <1>3, SameSlabs, Zenon DEF BackedInv
  <2> QED BY <2>3, <2>4, <2>6, <2>7, <2>8, Zenon DEF BackedInv
<1>13. OwnersInv'
  <2>1. InHand = {}
    BY <1>2 DEF CallInv, Holding, InHand
  <2>2. InHand' = {}
    BY <1>6 DEF InHand
  <2> QED BY <1>2, <1>3, <2>1, <2>2, OwnersStay, SameBitmap
<1>14. SlabInv'
  BY <1>2, <1>3, SlabsStay
<1> QED BY <1>7, <1>8, <1>10, <1>11, <1>12, <1>13, <1>14, GoodNext

LEMMA LargeDoneKeeps ==
  ASSUME Good, LargeDone
  PROVE  Good'
<1> USE GoodParts
<1>1. /\ call.at = "large" /\ call.i = call.pages /\ call' = Idle
      /\ blocks' = blocks \cup {[base |-> call.base, pages |-> call.pages]}
      /\ UNCHANGED <<frames, paging, caches, regions, held, threads, exhausted, panic>>
  BY Zenon DEF LargeDone, At
<1>2. call' \in Calls /\ call'.frame = NoFrame /\ call'.at = "idle"
  BY <1>1, IdleTypes
<1>3. /\ mapping' = mapping /\ page_directory' = page_directory
      /\ slabs' = slabs /\ free_list' = free_list
      /\ next_large_vaddr' = next_large_vaddr /\ next_stack_vaddr' = next_stack_vaddr
      /\ held' = held /\ threads' = threads
  BY <1>1, Zenon DEF paging, caches, regions
<1>4. blocks' = blocks \cup {CallBlock} /\ CallBlock \in Blocks
  BY <1>1, CallTypes DEF CallBlock, Blocks
<1>5. TypeOK' /\ ~panic'
  <2>1. /\ blocks' \subseteq Blocks
        /\ threads' \subseteq [header : Objects, mem : Frames, stack_pages : Nat]
    BY <1>3, <1>4, StateTypes, Zenon
  <2>2. /\ next_large_vaddr' \in LargeBase .. LargeEnd
        /\ next_stack_vaddr' \in StackBase .. StackLimit
    BY <1>3, StateTypes, Zenon
  <2>3. UNCHANGED <<frames, paging, caches, held, exhausted, panic>>
    BY <1>1, Zenon
  <2> QED BY <1>2, <2>1, <2>2, <2>3, OwnerTypes
<1>6. CallInv'
  BY <1>2 DEF CallInv, Growing, Holding, OnPages
<1>7. ~Stacking /\ Blocking /\ ~Stacking' /\ ~Blocking'
  BY <1>1, <1>2 DEF Stacking, Blocking
<1>8. ThreadsInv'
  <2>1. AllThreads' = AllThreads
    BY <1>3, <1>7, Zenon DEF AllThreads
  <2>2. \A t \in AllThreads' : t.header \in held'
    BY <1>3, <2>1, Zenon DEF ThreadsInv, StackOf
  <2>3. next_stack_vaddr' \in Nat /\ next_stack_vaddr <= next_stack_vaddr'
    BY <1>3, StateTypes
  <2> QED BY <1>7, <2>1, <2>2, <2>3, ThreadsStay
<1>9. BlocksInv'
  <2>1. AllBlocks' \subseteq AllBlocks
    BY <1>4, <1>7, Zenon DEF AllBlocks
  <2>2. next_large_vaddr' \in Nat /\ next_large_vaddr <= next_large_vaddr'
    BY <1>3, StateTypes
  <2> QED BY <1>7, <2>1, <2>2, BlocksStay
<1>10. BackedInv'
  <2>1. \A p : OnStack(p)' <=> OnStack(p)
    BY <1>3, <1>7, Zenon DEF OnStack
  <2>2. ASSUME NEW p, InBlock(p)' PROVE InBlock(p)
    <3>1. PICK b \in blocks' : b.base <= p /\ p < b.base + b.pages
      BY <1>7, <2>2, Zenon DEF InBlock
    <3>2. CASE b = CallBlock
      BY <1>1, <1>7, <3>1, <3>2 DEF CallBlock, InBlock, InCall
    <3> QED BY <1>4, <3>1, <3>2, Zenon DEF InBlock
  <2>3. SlabFrames' = SlabFrames
    BY <1>3, SameSlabs
  <2> QED BY <1>2, <1>3, <2>1, <2>2, <2>3, BackedStay
<1>11. OwnersInv'
  <2>1. InHand = {}
    BY <1>1 DEF CallInv, Holding, InHand
  <2>2. InHand' = {}
    BY <1>2 DEF InHand
  <2> QED BY <1>1, <1>3, <2>1, <2>2, OwnersStay, SameBitmap
<1>12. SlabInv'
  BY <1>1, <1>3, SlabsStay
<1> QED BY <1>5, <1>6, <1>8, <1>9, <1>10, <1>11, <1>12, GoodNext

LEMMA KfreeLargeKeeps ==
  ASSUME Good, KfreeLarge
  PROVE  Good'
<1> USE GoodParts
<1>1. PICK b \in blocks :
        /\ blocks' = blocks \ {b}
        /\ call' = [Idle EXCEPT !.at = "free", !.base = b.base, !.pages = b.pages]
  BY Zenon DEF KfreeLarge
<1>2. /\ call.at = "idle"
      /\ UNCHANGED <<frames, paging, caches, regions, held, threads, exhausted, panic>>
  BY Zenon DEF KfreeLarge, At
<1>3. /\ mapping' = mapping /\ page_directory' = page_directory
      /\ slabs' = slabs /\ free_list' = free_list
      /\ next_large_vaddr' = next_large_vaddr /\ next_stack_vaddr' = next_stack_vaddr
      /\ held' = held /\ threads' = threads
  BY <1>2, Zenon DEF paging, caches, regions
<1>4. /\ b.base \in Frames /\ b.base \in Nat /\ b.pages \in Nat
      /\ b = [base |-> b.base, pages |-> b.pages]
  BY StateTypes, FramesAreNumbers DEF Blocks
<1>5. /\ call' \in Calls /\ call'.frame = NoFrame /\ call'.at = "free" /\ call'.i = 0
      /\ call'.base = b.base /\ call'.pages = b.pages /\ call'.object = NoObject
  BY <1>1, <1>4, IdleTypes DEF Calls
<1>6. CallBlock' = b
  BY <1>4, <1>5 DEF CallBlock
<1>7. TypeOK' /\ ~panic'
  <2>1. /\ blocks' \subseteq Blocks
        /\ threads' \subseteq [header : Objects, mem : Frames, stack_pages : Nat]
    BY <1>1, <1>3, StateTypes, Zenon
  <2>2. /\ next_large_vaddr' \in LargeBase .. LargeEnd
        /\ next_stack_vaddr' \in StackBase .. StackLimit
    BY <1>3, StateTypes, Zenon
  <2>3. UNCHANGED <<frames, paging, caches, held, exhausted, panic>>
    BY <1>2, Zenon
  <2> QED BY <1>5, <2>1, <2>2, <2>3, OwnerTypes
<1>8. ~Stacking /\ ~Blocking /\ ~Stacking' /\ Blocking'
  BY <1>2, <1>5 DEF Stacking, Blocking
<1>9. b \in AllBlocks
  BY Zenon DEF AllBlocks
<1>10. CallInv'
  <2>1. b.pages >= 1
    BY <1>9, Zenon DEF BlocksInv, BlockBelow
  <2> QED BY <1>4, <1>5, <2>1 DEF CallInv, Growing, Holding, OnPages
<1>11. ThreadsInv'
  <2>1. AllThreads' = AllThreads
    BY <1>3, <1>8, Zenon DEF AllThreads
  <2>2. \A t \in AllThreads' : t.header \in held'
    BY <1>3, <2>1, Zenon DEF ThreadsInv, StackOf
  <2>3. next_stack_vaddr' \in Nat /\ next_stack_vaddr <= next_stack_vaddr'
    BY <1>3, StateTypes
  <2> QED BY <1>8, <2>1, <2>2, <2>3, ThreadsStay
<1>12. BlocksInv'
  <2>1. AllBlocks' \subseteq AllBlocks
    BY <1>1, <1>6, <1>8, Zenon DEF AllBlocks
  <2>2. next_large_vaddr' \in Nat /\ next_large_vaddr <= next_large_vaddr'
    BY <1>3, StateTypes
  <2>3. CallBlock' \notin blocks'
    BY <1>1, <1>6, Zenon
  <2> QED BY <2>1, <2>2, <2>3, BlocksStay
<1>13. BackedInv'
  <2>1. \A p : OnStack(p)' <=> OnStack(p)
    BY <1>3, <1>8, Zenon DEF OnStack
  <2>2. ASSUME NEW p, InBlock(p)' PROVE InBlock(p)
    <3>1. (\E d \in blocks' : d.base <= p /\ p < d.base + d.pages) \/ InCall(p)'
      BY <2>2, Zenon DEF InBlock
    <3>2. CASE InCall(p)'
      <4>1. b.base + 0 <= p /\ p < b.base + b.pages
        BY <1>5, <3>2, Zenon DEF InCall
      <4> QED BY <1>4, <4>1 DEF InBlock
    <3> QED BY <1>1, <3>1, <3>2, Zenon DEF InBlock
  <2>3. SlabFrames' = SlabFrames
    BY <1>3, SameSlabs
  <2> QED BY <1>3, <1>5, <2>1, <2>2, <2>3, BackedStay
<1>14. OwnersInv'
  <2>1. InHand = {}
    BY <1>2 DEF CallInv, Holding, InHand
  <2>2. InHand' = {}
    BY <1>5 DEF InHand
  <2> QED BY <1>2, <1>3, <2>1, <2>2, OwnersStay, SameBitmap
<1>15. SlabInv'
  BY <1>2, <1>3, SlabsStay
<1> QED BY <1>7, <1>10, <1>11, <1>12, <1>13, <1>14, <1>15, GoodNext

-----------------------------------------------------------------------------
(* The steps that begin or end the life of a thread *)

LEMMA ObjectsExist ==
  ASSUME NEW o \in Objects
  PROVE  /\ o # NoObject
         /\ o.cache \in Caches /\ o.slab \in Frames /\ o.slot \in Nat
         /\ o = [cache |-> o.cache, slab |-> o.slab, slot |-> o.slot]
<1>1. /\ o.cache \in Caches /\ o.slab \in Frames /\ o.slot \in Nat
      /\ o = [cache |-> o.cache, slab |-> o.slab, slot |-> o.slot]
  BY DEF Objects
<1>2. "slab" \in DOMAIN o /\ "slab" \notin DOMAIN NoObject
  BY DEF Objects, NoObject
<1> QED BY <1>1, <1>2

LEMMA ThreadReadyKeeps ==
  ASSUME Good, ThreadReady
  PROVE  Good'
<1> USE GoodParts
<1>1. /\ call.at = "thread" /\ call.i = call.pages /\ call' = Idle
      /\ threads' = threads \cup {[header |-> call.object, mem |-> call.base,
                                   stack_pages |-> call.pages]}
      /\ UNCHANGED <<frames, paging, caches, regions, held, blocks, exhausted, panic>>
  BY Zenon DEF ThreadReady, At
<1>2. call' \in Calls /\ call'.frame = NoFrame /\ call'.at = "idle"
  BY <1>1, IdleTypes
<1>3. /\ mapping' = mapping /\ page_directory' = page_directory
      /\ slabs' = slabs /\ free_list' = free_list
      /\ next_large_vaddr' = next_large_vaddr /\ next_stack_vaddr' = next_stack_vaddr
      /\ held' = held /\ blocks' = blocks
  BY <1>1, Zenon DEF paging, caches, regions
<1>4. Stacking /\ ~Blocking /\ ~Stacking' /\ ~Blocking'
  BY <1>1, <1>2 DEF Stacking, Blocking
<1>5. /\ threads' = threads \cup {CallThread}
      /\ CallThread \in [header : Objects, mem : Frames, stack_pages : Nat]
  <2>1. CallThread \in AllThreads
    BY <1>4, Zenon DEF AllThreads
  <2>2. CallThread.header \in held
    BY <2>1, Zenon DEF ThreadsInv, StackOf
  <2>3. call.object \in Objects
    BY <2>2, StateTypes DEF CallThread
  <2> QED BY <1>1, <2>3, CallTypes DEF CallThread
<1>6. TypeOK' /\ ~panic'
  <2>1. /\ blocks' \subseteq Blocks
        /\ threads' \subseteq [header : Objects, mem : Frames, stack_pages : Nat]
    BY <1>3, <1>5, StateTypes, Zenon
  <2>2. /\ next_large_vaddr' \in LargeBase .. LargeEnd
        /\ next_stack_vaddr' \in StackBase .. StackLimit
    BY <1>3, StateTypes, Zenon
  <2>3. UNCHANGED <<frames, paging, caches, held, exhausted, panic>>
    BY <1>1, Zenon
  <2> QED BY <1>2, <2>1, <2>2, <2>3, OwnerTypes
<1>7. CallInv'
  BY <1>2 DEF CallInv, Growing, Holding, OnPages
<1>8. ThreadsInv'
  <2>1. AllThreads' = AllThreads
    BY <1>4, <1>5, Zenon DEF AllThreads
  <2>2. \A t \in AllThreads' : t.header \in held'
    BY <1>3, <2>1, Zenon DEF ThreadsInv, StackOf
  <2>3. next_stack_vaddr' \in Nat /\ next_stack_vaddr <= next_stack_vaddr'
    BY <1>3, StateTypes
  <2> QED BY <1>4, <2>1, <2>2, <2>3, ThreadsStay
<1>9. BlocksInv'
  <2>1. AllBlocks' \subseteq AllBlocks
    BY <1>3, <1>4, Zenon DEF AllBlocks
  <2>2. next_large_vaddr' \in Nat /\ next_large_vaddr <= next_large_vaddr'
    BY <1>3, StateTypes
  <2> QED BY <1>4, <2>1, <2>2, BlocksStay
<1>10. BackedInv'
  <2>1. ASSUME NEW p
        PROVE  InCall(p) <=> (CallThread.mem <= p /\ p < CallThread.mem + CallThread.stack_pages)
    BY <1>1 DEF InCall, CallThread
  <2>2. ASSUME NEW p PROVE OnStack(p)' <=> OnStack(p)
    BY <1>4, <1>5, <2>1, Zenon DEF OnStack
  <2>3. \A p : InBlock(p)' => InBlock(p)
    BY <1>3, <1>4, Zenon DEF InBlock
  <2>4. SlabFrames' = SlabFrames
    BY <1>3, SameSlabs
  <2> QED BY <1>2, <1>3, <2>2, <2>3, <2>4, BackedStay
<1>11. OwnersInv'
  <2>1. InHand = {}
    BY <1>1 DEF CallInv, Holding, InHand
  <2>2. InHand' = {}
    BY <1>2 DEF InHand
  <2> QED BY <1>1, <1>3, <2>1, <2>2, OwnersStay, SameBitmap
<1>12. SlabInv'
  BY <1>1, <1>3, SlabsStay
<1> QED BY <1>6, <1>7, <1>8, <1>9, <1>10, <1>11, <1>12, GoodNext

LEMMA ThreadDestroyKeeps ==
  ASSUME Good, ThreadDestroy
  PROVE  Good'
<1> USE GoodParts
<1>1. PICK t \in threads :
        /\ threads' = threads \ {t}
        /\ call' = [Idle EXCEPT !.at = "free", !.object = t.header,
                                !.base = t.mem, !.pages = t.stack_pages]
  BY Zenon DEF ThreadDestroy
<1>2. /\ call.at = "idle"
      /\ UNCHANGED <<frames, paging, caches, regions, held, blocks, exhausted, panic>>
  BY Zenon DEF ThreadDestroy, At
<1>3. /\ mapping' = mapping /\ page_directory' = page_directory
      /\ slabs' = slabs /\ free_list' = free_list
      /\ next_large_vaddr' = next_large_vaddr /\ next_stack_vaddr' = next_stack_vaddr
      /\ held' = held /\ blocks' = blocks
  BY <1>2, Zenon DEF paging, caches, regions
<1>4. /\ t.mem \in Frames /\ t.mem \in Nat /\ t.stack_pages \in Nat
      /\ t.header \in Objects /\ t.header # NoObject
      /\ t = [header |-> t.header, mem |-> t.mem, stack_pages |-> t.stack_pages]
  BY StateTypes, FramesAreNumbers, ObjectsExist
<1>5. /\ call' \in Calls /\ call'.frame = NoFrame /\ call'.at = "free" /\ call'.i = 0
      /\ call'.base = t.mem /\ call'.pages = t.stack_pages /\ call'.object = t.header
  BY <1>1, <1>4, IdleTypes DEF Calls
<1>6. CallThread' = t
  BY <1>4, <1>5 DEF CallThread
<1>7. TypeOK' /\ ~panic'
  <2>1. /\ blocks' \subseteq Blocks
        /\ threads' \subseteq [header : Objects, mem : Frames, stack_pages : Nat]
    BY <1>1, <1>3, StateTypes, Zenon
  <2>2. /\ next_large_vaddr' \in LargeBase .. LargeEnd
        /\ next_stack_vaddr' \in StackBase .. StackLimit
    BY <1>3, StateTypes, Zenon
  <2>3. UNCHANGED <<frames, paging, caches, held, exhausted, panic>>
    BY <1>2, Zenon
  <2> QED BY <1>5, <2>1, <2>2, <2>3, OwnerTypes
<1>8. ~Stacking /\ ~Blocking /\ Stacking' /\ ~Blocking'
  BY <1>2, <1>4, <1>5 DEF Stacking, Blocking
<1>9. t \in AllThreads
  BY Zenon DEF AllThreads
<1>10. CallInv'
  <2>1. t.stack_pages >= 1
    BY <1>9, Zenon DEF ThreadsInv, StackOf
  <2> QED BY <1>4, <1>5, <2>1 DEF CallInv, Growing, Holding, OnPages
<1>11. ThreadsInv'
  <2>1. AllThreads' \subseteq AllThreads
    BY <1>1, <1>6, <1>8, Zenon DEF AllThreads
  <2>2. \A u \in AllThreads' : u.header \in held'
    BY <1>3, <2>1, Zenon DEF ThreadsInv, StackOf
  <2>3. next_stack_vaddr' \in Nat /\ next_stack_vaddr <= next_stack_vaddr'
    BY <1>3, StateTypes
  <2>4. CallThread' \notin threads'
    BY <1>1, <1>6, Zenon
  <2> QED BY <2>1, <2>2, <2>3, <2>4, ThreadsStay
<1>12. BlocksInv'
  <2>1. AllBlocks' \subseteq AllBlocks
    BY <1>3, <1>8, Zenon DEF AllBlocks
  <2>2. next_large_vaddr' \in Nat /\ next_large_vaddr <= next_large_vaddr'
    BY <1>3, StateTypes
  <2> QED BY <1>8, <2>1, <2>2, BlocksStay
<1>13. BackedInv'
  <2>1. ASSUME NEW p
        PROVE  InCall(p)' <=> (t.mem <= p /\ p < t.mem + t.stack_pages)
    BY <1>4, <1>5 DEF InCall
  <2>2. ASSUME NEW p PROVE OnStack(p)' <=> OnStack(p)
    BY <1>1, <1>8, <2>1, Zenon DEF OnStack
  <2>3. \A p : InBlock(p)' => InBlock(p)
    BY <1>3, <1>8, Zenon DEF InBlock
  <2>4. SlabFrames' = SlabFrames
    BY <1>3, SameSlabs
  <2> QED BY <1>3, <1>5, <2>2, <2>3, <2>4, BackedStay
<1>14. OwnersInv'
  <2>1. InHand = {}
    BY <1>2 DEF CallInv, Holding, InHand
  <2>2. InHand' = {}
    BY <1>5 DEF InHand
  <2> QED BY <1>2, <1>3, <2>1, <2>2, OwnersStay, SameBitmap
<1>15. SlabInv'
  BY <1>2, <1>3, SlabsStay
<1> QED BY <1>7, <1>10, <1>11, <1>12, <1>13, <1>14, <1>15, GoodNext

-----------------------------------------------------------------------------
(* The steps that map or unmap a page *)

(* Whoever holds a frame holds one that was handed out. *)
LEMMA HoldersAreLow ==
  ASSUME TypeOK, OwnersInv,
         NEW f \in Tables \cup SlabFrames \cup PageFrames \cup InHand
  PROVE  f \in Frames /\ f \in bitmap /\ f \notin Reserved /\ f < LargeBase
<1>1. f \in bitmap \ Reserved
  BY OwnersParts DEF Partition
<1>2. f \in Frames
  BY <1>1, StateTypes
<1> QED BY <1>1, <1>2, RamIsLow

LEMMA StacksOfGood ==
  ASSUME ThreadsInv
  PROVE  StacksLie
  BY Zenon DEF ThreadsInv, StackOf, StacksApart, StacksLie, StackArea, AreasApart

LEMMA CallArea ==
  ASSUME StacksLie, BlocksInv, Stacking \/ Blocking
  PROVE  /\ Stacking => /\ CallThread \in AllThreads /\ call.base >= StackBase
                        /\ call.base + call.pages < next_stack_vaddr
         /\ Blocking => /\ CallBlock \in AllBlocks /\ call.base >= LargeBase
                        /\ call.base + call.pages <= next_large_vaddr
         /\ ~(Stacking /\ Blocking)
<1>1. Stacking => CallThread \in AllThreads
  BY Zenon DEF AllThreads
<1>2. Blocking => CallBlock \in AllBlocks
  BY Zenon DEF AllBlocks
<1>3. Stacking => StackArea(CallThread)
  BY <1>1, Zenon DEF StacksLie
<1>4. Blocking => BlockBelow(CallBlock)
  BY <1>2, Zenon DEF BlocksInv
<1>5. Stacking => call.base >= StackBase /\ call.base + call.pages < next_stack_vaddr
  BY <1>3 DEF StackArea, CallThread
<1>6. Blocking => call.base >= LargeBase /\ call.base + call.pages <= next_large_vaddr
  BY <1>4 DEF BlockBelow, CallBlock
<1>7. ~(Stacking /\ Blocking)
  BY DEF Stacking, Blocking
<1> QED BY <1>1, <1>2, <1>5, <1>6, <1>7

(* The page a loop has come to belongs to nobody else. *)
LEMMA CallPage ==
  ASSUME TypeOK, StacksLie, BlocksInv, Stacking \/ Blocking, call.i < call.pages,
         NEW p, p = call.base + call.i
  PROVE  /\ p \in Frames /\ p \in Nat /\ p \in LargeBase .. StackLimit
         /\ Stacking => StackBase <= p /\ p < StackLimit
         /\ Blocking => p < StackBase /\ p < next_large_vaddr
         /\ \A t \in threads : ~(t.mem <= p /\ p < t.mem + t.stack_pages)
         /\ \A b \in blocks : ~(b.base <= p /\ p < b.base + b.pages)
<1>1. call.base \in Nat /\ call.i \in Nat /\ call.pages \in Nat
  BY CallTypes
<1>2. /\ next_large_vaddr \in LargeBase .. LargeEnd /\ next_large_vaddr \in Nat
      /\ next_stack_vaddr \in StackBase .. StackLimit /\ next_stack_vaddr \in Nat
  BY StateTypes
<1>3. Stacking => StackBase <= p /\ p < StackLimit /\ p < next_stack_vaddr
  BY <1>1, <1>2, CallArea, Regions
<1>4. Blocking => LargeBase <= p /\ p < StackBase /\ p < next_large_vaddr
  BY <1>1, <1>2, CallArea, Regions
<1>5. p \in Frames /\ p \in Nat /\ p \in LargeBase .. StackLimit
  BY <1>1, <1>3, <1>4, Regions, FramesAreNumbers
<1>6. ASSUME NEW t \in threads PROVE ~(t.mem <= p /\ p < t.mem + t.stack_pages)
  <2>1. t \in AllThreads
    BY Zenon DEF AllThreads
  <2>2. t.mem >= StackBase /\ t.mem \in Nat /\ t.stack_pages \in Nat
    BY <2>1, AreaTypes DEF StacksLie, StackArea
  <2>3. CASE Blocking
    BY <1>4, <1>5, <2>2, <2>3, Regions
  <2>4. CASE Stacking
    <3>1. CallThread \in AllThreads /\ CallThread # t
      BY <2>4, CallArea, Zenon DEF StacksLie
    <3>2. AreasApart(t, CallThread)
      BY <2>1, <3>1, Zenon DEF StacksLie
    <3>3. t.mem + t.stack_pages < call.base \/ call.base + call.pages < t.mem
      BY <3>2 DEF AreasApart, CallThread
    <3> QED BY <1>1, <2>2, <3>3
  <2> QED BY <2>3, <2>4
<1>7. ASSUME NEW b \in blocks PROVE ~(b.base <= p /\ p < b.base + b.pages)
  <2>1. b \in AllBlocks
    BY Zenon DEF AllBlocks
  <2>2. b.base + b.pages <= next_large_vaddr /\ b.base \in Nat /\ b.pages \in Nat
    BY <2>1, AreaTypes DEF BlocksInv, BlockBelow
  <2>3. CASE Stacking
    BY <1>2, <1>3, <1>5, <2>2, <2>3, Regions
  <2>4. CASE Blocking
    <3>1. CallBlock \in AllBlocks /\ CallBlock # b
      BY <2>4, CallArea, Zenon DEF BlocksInv
    <3>2. BlocksApart(b, CallBlock)
      BY <2>1, <3>1, Zenon DEF BlocksInv
    <3>3. b.base + b.pages <= call.base \/ call.base + call.pages <= b.base
      BY <3>2 DEF BlocksApart, CallBlock
    <3> QED BY <1>1, <2>2, <3>3
  <2> QED BY <2>3, <2>4
<1> QED BY <1>3, <1>4, <1>5, <1>6, <1>7

LEMMA PageRemoved ==
  ASSUME TypeOK, NEW p \in Backed, PagesOnce,
         mapping' = [mapping EXCEPT ![p] = Unmapped]
  PROVE  /\ Backed' = Backed \ {p} /\ PageFrames' = PageFrames \ {mapping[p]}
         /\ PagesOnce'
<1>1. /\ mapping \in [Frames -> Frames \cup {Unmapped}]
      /\ LargeBase .. StackLimit \subseteq Frames
  BY StateTypes, FramesAreNumbers, Regions
<1>2. \A q \in LargeBase .. StackLimit :
        mapping'[q] = IF q = p THEN Unmapped ELSE mapping[q]
  BY <1>1
<1>3. p \in LargeBase .. StackLimit /\ Backed \subseteq LargeBase .. StackLimit
  BY Zenon DEF Backed
<1>4. Backed' = Backed \ {p}
  BY <1>2, <1>3 DEF Backed
<1>5. \A q \in Backed' : mapping'[q] = mapping[q] /\ q \in Backed
  BY <1>2, <1>3, <1>4
<1>6. \A q \in Backed : q # p => mapping[q] # mapping[p]
  BY Zenon DEF PagesOnce
<1>7. PagesOnce'
  BY <1>5, Zenon DEF PagesOnce
<1>8. PageFrames' = {mapping[q] : q \in Backed'}
  BY <1>5 DEF PageFrames
<1>9. PageFrames' = PageFrames \ {mapping[p]}
  BY <1>4, <1>6, <1>8 DEF PageFrames
<1> QED BY <1>4, <1>7, <1>9

LEMMA PageAdded ==
  ASSUME TypeOK, NEW p \in LargeBase .. StackLimit, mapping[p] = Unmapped, PagesOnce,
         NEW f \in Frames, f \notin PageFrames,
         mapping' = [mapping EXCEPT ![p] = f]
  PROVE  /\ Backed' = Backed \cup {p} /\ PageFrames' = PageFrames \cup {f}
         /\ PagesOnce'
<1>1. /\ mapping \in [Frames -> Frames \cup {Unmapped}]
      /\ LargeBase .. StackLimit \subseteq Frames /\ f # Unmapped
  BY StateTypes, FramesAreNumbers, Regions
<1>2. \A q \in LargeBase .. StackLimit :
        mapping'[q] = IF q = p THEN f ELSE mapping[q]
  BY <1>1
<1>3. p \notin Backed /\ Backed \subseteq LargeBase .. StackLimit
  BY Zenon DEF Backed
<1>4. Backed' = Backed \cup {p}
  BY <1>1, <1>2, <1>3 DEF Backed
<1>5. mapping'[p] = f /\ \A q \in Backed : mapping'[q] = mapping[q] /\ mapping[q] # f
  <2>1. \A q \in Backed : mapping[q] # f
    BY DEF PageFrames
  <2> QED BY <1>2, <1>3, <2>1
<1>6. PagesOnce'
  <2> SUFFICES ASSUME NEW q \in Backed', NEW r \in Backed', mapping'[q] = mapping'[r]
               PROVE  q = r
    BY Zenon DEF PagesOnce
  <2>1. (q \in Backed \/ q = p) /\ (r \in Backed \/ r = p)
    BY <1>4
  <2> QED BY <1>5, <2>1, Zenon DEF PagesOnce
<1>7. PageFrames' = {mapping'[q] : q \in Backed \cup {p}}
  BY <1>4, Zenon DEF PageFrames
<1>8. PageFrames' = PageFrames \cup {f}
  BY <1>5, <1>7 DEF PageFrames
<1> QED BY <1>4, <1>6, <1>8

LEMMA FreePageKeeps ==
  ASSUME Good, FreePage
  PROVE  Good'
<1> USE GoodParts
<1> DEFINE p == call.base + call.i
           f == mapping[p]
<1>1. /\ call.at = "free" /\ call.i < call.pages
      /\ PmmFree(Physical(p))
      /\ mapping' = [mapping EXCEPT ![p] = Unmapped]
      /\ call' = [call EXCEPT !.i = @ + 1]
      /\ UNCHANGED <<page_directory, caches, regions, owners, exhausted, panic>>
  BY Zenon DEF FreePage, At
<1>2. /\ page_directory' = page_directory
      /\ slabs' = slabs /\ free_list' = free_list
      /\ next_large_vaddr' = next_large_vaddr /\ next_stack_vaddr' = next_stack_vaddr
      /\ held' = held /\ blocks' = blocks /\ threads' = threads
  BY <1>1, Zenon DEF caches, regions, owners
<1>3. /\ call' \in Calls /\ call'.frame = call.frame /\ call'.at = "free"
      /\ call'.base = call.base /\ call'.pages = call.pages /\ call'.object = call.object
      /\ call'.i = call.i + 1 /\ call'.cache = call.cache
  BY <1>1, CallTypes DEF Calls
<1>4. /\ Stacking \/ Blocking
      /\ Stacking' <=> Stacking
      /\ Blocking' <=> Blocking
  BY <1>1, <1>3 DEF Stacking, Blocking
<1>5. /\ p \in Frames /\ p \in Nat /\ p \in LargeBase .. StackLimit
      /\ Stacking => StackBase <= p /\ p < StackLimit
      /\ Blocking => p < StackBase /\ p < next_large_vaddr
      /\ \A t \in threads : ~(t.mem <= p /\ p < t.mem + t.stack_pages)
      /\ \A b \in blocks : ~(b.base <= p /\ p < b.base + b.pages)
  <2> HIDE DEF p
  <2> QED BY <1>1, <1>4, StacksOfGood, CallPage DEF p
<1>6. call.base \in Nat /\ call.i \in Nat /\ call.pages \in Nat
  BY CallTypes
<1>7. /\ mapping \in [Frames -> Frames \cup {Unmapped}] /\ p \in DOMAIN mapping
      /\ \A q \in Frames : mapping'[q] = IF q = p THEN Unmapped ELSE mapping[q]
  BY <1>1, <1>5, StateTypes
<1>8. InCall(p)
  BY <1>1, <1>6 DEF InCall
<1>9. f # Unmapped /\ f \in Frames /\ Physical(p) = f /\ p \in Backed
  <2>1. f # Unmapped
    <3>1. CASE Stacking
      <4>1. OnStack(p) /\ p \in StackBase .. StackLimit
        BY <1>5, <1>8, <3>1, Regions DEF OnStack
      <4> QED BY <4>1, Zenon DEF BackedInv
    <3>2. CASE Blocking
      <4>1. InBlock(p)
        BY <1>8, <3>2, Zenon DEF InBlock
      <4> QED BY <1>5, <4>1, Zenon DEF BackedInv
    <3> QED BY <1>4, <3>1, <3>2
  <2>2. p \in Backed
    BY <1>5, <2>1, Zenon DEF Backed
  <2> QED BY <1>5, <1>7, <2>1, <2>2 DEF Physical
<1> HIDE DEF p, f
<1>10. /\ bitmap' \subseteq Frames /\ search_hint' \in 0 .. BitmapSize - 1
       /\ bitmap' = bitmap \ {f}
  BY <1>1, <1>9, FreeTypes
<1>11. TypeOK' /\ ~panic'
  <2>1. mapping' \in [Frames -> Frames \cup {Unmapped}]
    BY <1>1, <1>7
  <2>2. panic' = panic /\ exhausted' = exhausted
    BY <1>1, Zenon
  <2>3. TypeOK'
    BY <1>2, <1>3, <1>10, <2>1, <2>2, Zenon DEF TypeOK
  <2> QED BY <2>2, <2>3, Zenon
<1>12. CallInv'
  BY <1>1, <1>3, <1>6 DEF CallInv, Growing, Holding, OnPages
<1>13. /\ AllThreads' = AllThreads /\ AllBlocks' = AllBlocks
       /\ Stacking => CallThread' = CallThread
       /\ Blocking => CallBlock' = CallBlock
  BY <1>2, <1>3, <1>4, SameAreas
<1>14. ThreadsInv'
  <2>1. \A t \in AllThreads' : t.header \in held'
    BY <1>2, <1>13, Zenon DEF ThreadsInv, StackOf
  <2>2. next_stack_vaddr' \in Nat /\ next_stack_vaddr <= next_stack_vaddr'
    BY <1>2, StateTypes
  <2>3. Stacking' => CallThread' \notin threads'
    BY <1>2, <1>4, <1>13, Zenon DEF ThreadsInv
  <2> QED BY <1>13, <2>1, <2>2, <2>3, ThreadsStay
<1>15. BlocksInv'
  <2>1. next_large_vaddr' \in Nat /\ next_large_vaddr <= next_large_vaddr'
    BY <1>2, StateTypes
  <2>2. Blocking' => CallBlock' \notin blocks'
    BY <1>2, <1>4, <1>13, Zenon DEF BlocksInv
  <2> QED BY <1>13, <2>1, <2>2, BlocksStay
<1>16. BackedInv'
  <2>1. ASSUME NEW q \in Nat PROVE InCall(q)' <=> InCall(q) /\ q # p
    BY <1>1, <1>3, <1>6 DEF InCall, p
  <2>2. ASSUME NEW q \in Nat PROVE OnStack(q)' <=> OnStack(q) /\ (q # p \/ ~Stacking)
    BY <1>2, <1>4, <1>5, <2>1, Zenon DEF OnStack
  <2>3. ASSUME NEW q \in Nat, InBlock(q)' PROVE InBlock(q) /\ q # p
    BY <1>2, <1>4, <1>5, <2>1, <2>3, Zenon DEF InBlock
  <2>4. ASSUME NEW q \in StackBase .. StackLimit
        PROVE  mapping'[q] # Unmapped <=> OnStack(q)'
    <3>1. q \in Nat /\ q \in Frames
      BY Regions, FramesAreNumbers
    <3>2. mapping[q] # Unmapped <=> OnStack(q)
      BY Zenon DEF BackedInv
    <3>3. q = p => Stacking
      BY <1>4, <1>5, Regions
    <3> QED BY <1>7, <2>2, <3>1, <3>2, <3>3, Zenon
  <2>5. \A q \in Frames : InBlock(q)' => mapping'[q] # Unmapped
    <3>1. \A q \in Frames : InBlock(q) => mapping[q] # Unmapped
      BY Zenon DEF BackedInv
    <3> QED BY <1>7, <2>3, <3>1, FramesAreNumbers
  <2>6. \A q \in LargeBase .. StackBase - 1 : mapping'[q] # Unmapped => q < next_large_vaddr'
    <3>1. \A q \in LargeBase .. StackBase - 1 : mapping[q] # Unmapped => q < next_large_vaddr
      BY Zenon DEF BackedInv
    <3>2. \A q \in LargeBase .. StackBase - 1 : q \in Frames
      BY Regions, FramesAreNumbers
    <3> QED BY <1>2, <1>7, <3>1, <3>2
  <2>7. \A s \in SlabFrames' : mapping'[s] = s
    <3>1. ASSUME NEW s \in SlabFrames PROVE s \in Frames /\ s # p
      BY <1>5, HoldersAreLow, Regions, FramesAreNumbers
    <3>2. \A s \in SlabFrames : mapping[s] = s
      BY Zenon DEF BackedInv
    <3>3. SlabFrames' = SlabFrames
      BY <1>2, SameSlabs
    <3> QED BY <1>7, <3>1, <3>2, <3>3
  <2>8. call'.at \notin {"large", "map_large"}
    BY <1>3
  <2> QED BY <2>4, <2>5, <2>6, <2>7, <2>8, Zenon DEF BackedInv
<1>17. OwnersInv'
  <2>1. /\ PageFrames' = PageFrames \ {f} /\ PagesOnce'
    BY <1>1, <1>9, PageRemoved, OwnersParts DEF f
  <2>2. /\ Tables' = Tables /\ SlabFrames' = SlabFrames /\ TablesOnce' /\ SlabsOnce'
    BY <1>2, SameTables, SameSlabs, OwnersParts, Zenon
  <2>3. InHand' = InHand
    BY <1>3, Zenon DEF InHand
  <2>4. f \in PageFrames /\ f \notin Reserved
    <3>1. f \in PageFrames
      BY <1>9 DEF PageFrames, f
    <3> QED BY <3>1, HoldersAreLow
  <2>5. /\ Partition(Tables, SlabFrames, PageFrames, InHand, bitmap \ Reserved)
        /\ Reserved \subseteq bitmap
    BY OwnersParts
  <2>6. Partition(Tables, SlabFrames, PageFrames \ {f}, InHand, (bitmap \ {f}) \ Reserved)
    BY <2>4, <2>5 DEF Partition
  <2>7. Partition(Tables, SlabFrames, PageFrames, InHand, bitmap \ Reserved)'
    BY <1>10, <2>1, <2>2, <2>3, <2>6, ReservedStays, Zenon DEF Partition
  <2>8. (Reserved \subseteq bitmap)'
    BY <1>10, <2>4, <2>5, ReservedStays
  <2> QED BY <2>1, <2>2, <2>7, <2>8, Zenon DEF OwnersInv
<1>18. SlabInv'
  BY <1>1, <1>2, SlabsStay
<1> QED BY <1>11, <1>12, <1>14, <1>15, <1>16, <1>17, <1>18, GoodNext

(* paging_map, once there is a table: for a slab ... *)
LEMMA SlabMapped ==
  ASSUME Good, call.at = "map_slab", mapping' = [mapping EXCEPT ![PageToMap] = call.frame],
         AfterMap, UNCHANGED <<caches, regions, owners>>
  PROVE  /\ PageToMap \in Nat /\ PageToMap < StackLimit
         /\ mapping' \in [Frames -> Frames \cup {Unmapped}] /\ call' \in Calls
         /\ CallInv' /\ ThreadsInv' /\ BlocksInv' /\ BackedInv' /\ SlabInv'
         /\ PageFrames' = PageFrames /\ PagesOnce' /\ InHand' = InHand
<1> USE GoodParts
<1> DEFINE f == call.frame
<1>1. /\ slabs' = slabs /\ free_list' = free_list
      /\ next_large_vaddr' = next_large_vaddr /\ next_stack_vaddr' = next_stack_vaddr
      /\ held' = held /\ blocks' = blocks /\ threads' = threads
  BY Zenon DEF caches, regions, owners
<1>2. /\ f # NoFrame /\ f \in Frames /\ f \in InHand /\ PageToMap = f
  BY CallTypes DEF CallInv, Holding, InHand, PageToMap
<1>3. f \in Nat /\ f < LargeBase
  BY <1>2, HoldersAreLow, FramesAreNumbers
<1>4. call' = [call EXCEPT !.at = "slab_create"]
  BY DEF AfterMap
<1>5. /\ call' \in Calls /\ call'.frame = f /\ call'.at = "slab_create"
      /\ call'.i = call.i /\ call'.pages = call.pages /\ call'.cache = call.cache
  BY <1>4, CallTypes DEF Calls
<1>6. /\ mapping \in [Frames -> Frames \cup {Unmapped}]
      /\ mapping' \in [Frames -> Frames \cup {Unmapped}]
      /\ mapping'[f] = f
      /\ \A q \in Frames : q # f => mapping'[q] = mapping[q]
  BY <1>2, StateTypes
<1>7. \A q \in LargeBase .. StackLimit : mapping'[q] = mapping[q] /\ q \in Frames
  BY <1>3, <1>6, Regions, FramesAreNumbers
<1> HIDE DEF f
<1>8. CallInv'
  <2>1. /\ call.i = 0
        /\ call.cache = ThreadPool => /\ call.pages >= 1
                                      /\ next_stack_vaddr + call.pages + 1 <= StackLimit
    BY DEF CallInv, Growing
  <2> QED BY <1>1, <1>2, <1>5, <1>6, <2>1 DEF CallInv, Growing, Holding, OnPages
<1>9. ~Stacking /\ ~Blocking /\ ~Stacking' /\ ~Blocking'
  BY <1>5 DEF Stacking, Blocking
<1>10. AllThreads' = AllThreads /\ AllBlocks' = AllBlocks
  BY <1>1, <1>9, SameAreas
<1>11. ThreadsInv'
  <2>1. \A t \in AllThreads' : t.header \in held'
    BY <1>1, <1>10, Zenon DEF ThreadsInv, StackOf
  <2>2. next_stack_vaddr' \in Nat /\ next_stack_vaddr <= next_stack_vaddr'
    BY <1>1, StateTypes
  <2> QED BY <1>9, <1>10, <2>1, <2>2, ThreadsStay
<1>12. BlocksInv'
  <2>1. next_large_vaddr' \in Nat /\ next_large_vaddr <= next_large_vaddr'
    BY <1>1, StateTypes
  <2> QED BY <1>9, <1>10, <2>1, BlocksStay
<1>13. BackedInv'
  <2>1. \A p : (OnStack(p)' <=> OnStack(p)) /\ (InBlock(p)' <=> InBlock(p))
    BY <1>1, <1>9, SamePages
  <2>2. ASSUME NEW q \in StackBase .. StackLimit
        PROVE  mapping'[q] # Unmapped <=> OnStack(q)'
    <3>1. mapping[q] # Unmapped <=> OnStack(q)
      BY Zenon DEF BackedInv
    <3>2. mapping'[q] = mapping[q]
      BY <1>7, Regions
    <3> QED BY <2>1, <3>1, <3>2, Zenon
  <2>3. ASSUME NEW q \in Frames, InBlock(q)' PROVE mapping'[q] # Unmapped
    <3>1. mapping[q] # Unmapped
      BY <2>1, <2>3, Zenon DEF BackedInv
    <3> QED BY <1>2, <1>6, <3>1, FramesAreNumbers
  <2>4. \A q \in LargeBase .. StackBase - 1 : mapping'[q] # Unmapped => q < next_large_vaddr'
    <3>1. \A q \in LargeBase .. StackBase - 1 : mapping[q] # Unmapped => q < next_large_vaddr
      BY Zenon DEF BackedInv
    <3> QED BY <1>1, <1>7, <3>1, Regions
  <2>5. \A s \in SlabFrames' : mapping'[s] = s
    <3>1. \A s \in SlabFrames : mapping[s] = s /\ s \in Frames
      BY HoldersAreLow DEF BackedInv
    <3>2. SlabFrames' = SlabFrames
      BY <1>1, SameSlabs
    <3> QED BY <1>6, <3>1, <3>2, Zenon
  <2>6. call'.at \notin {"large", "map_large"}
    BY <1>5
  <2> QED BY <2>2, <2>3, <2>4, <2>5, <2>6, Zenon DEF BackedInv
<1>14. PageFrames' = PageFrames /\ PagesOnce'
  BY <1>7, SamePageFrames, OwnersParts, Zenon
<1>15. InHand' = InHand
  BY <1>5 DEF InHand, f
<1>16. SlabInv'
  BY <1>1, SlabsStay
<1>17. PageToMap \in Nat /\ PageToMap < StackLimit
  BY <1>2, <1>3, Regions
<1> QED BY <1>5, <1>6, <1>8, <1>11, <1>12, <1>13, <1>14, <1>15, <1>16, <1>17

LEMMA CallAdvances ==
  ASSUME NEW c \in Calls
  PROVE  [c EXCEPT !.i = @ + 1] \in Calls
<1>1. c.i + 1 \in Nat
  BY DEF Calls
<1> QED BY <1>1 DEF Calls

(* ... and for the page of a stack or of a large block *)
LEMMA AreaMapped ==
  ASSUME Good, call.at \in {"map_thread", "map_large"},
         mapping' = [mapping EXCEPT ![PageToMap] = call.frame],
         AfterMap, UNCHANGED <<caches, regions, owners>>
  PROVE  /\ PageToMap \in Nat /\ PageToMap < StackLimit
         /\ mapping' \in [Frames -> Frames \cup {Unmapped}] /\ call' \in Calls
         /\ CallInv' /\ ThreadsInv' /\ BlocksInv' /\ BackedInv' /\ SlabInv'
         /\ PageFrames' = PageFrames \cup {call.frame} /\ PagesOnce'
         /\ InHand = {call.frame} /\ InHand' = {}
<1> USE GoodParts
<1> DEFINE f == call.frame
           p == call.base + call.i
<1>1. /\ slabs' = slabs /\ free_list' = free_list
      /\ next_large_vaddr' = next_large_vaddr /\ next_stack_vaddr' = next_stack_vaddr
      /\ held' = held /\ blocks' = blocks /\ threads' = threads
  BY Zenon DEF caches, regions, owners
<1>2. /\ f # NoFrame /\ f \in Frames /\ InHand = {f} /\ PageToMap = p
      /\ f # Unmapped
  BY CallTypes, FramesAreNumbers DEF CallInv, Holding, InHand, PageToMap
<1>3. /\ call.base \in Nat /\ call.i \in Nat /\ call.pages \in Nat
      /\ call.i < call.pages /\ call.pages >= 1
  BY CallTypes DEF CallInv, OnPages
<1>4. /\ call' \in Calls /\ call'.frame = NoFrame
      /\ call.at = "map_thread" => call'.at = "thread"
      /\ call.at = "map_large" => call'.at = "large"
      /\ call'.i = call.i + 1 /\ call'.pages = call.pages /\ call'.base = call.base
      /\ call'.object = call.object
  <2>1. CASE call.at = "map_thread"
    <3>1. call' = [call EXCEPT !.at = "thread", !.i = @ + 1, !.frame = NoFrame]
      BY <2>1 DEF AfterMap
    <3>2. /\ call \in Calls /\ call.i \in Nat
      BY CallTypes
    <3>3. /\ call'.at = "thread" /\ call'.i = call.i + 1 /\ call'.frame = NoFrame
          /\ call'.pages = call.pages /\ call'.base = call.base
          /\ call'.object = call.object
      BY <3>1, <3>2 DEF Calls
    <3>4. [call EXCEPT !.at = "thread", !.frame = NoFrame] \in Calls
      BY <3>2 DEF Calls
    <3>5. call' = [[call EXCEPT !.at = "thread", !.frame = NoFrame] EXCEPT !.i = @ + 1]
      BY <3>1, <3>2 DEF Calls
    <3>6. call' \in Calls
      BY <3>4, <3>5, CallAdvances
    <3> QED BY <2>1, <3>3, <3>6
  <2>2. CASE call.at = "map_large"
    <3>1. call' = [call EXCEPT !.at = "large", !.i = @ + 1, !.frame = NoFrame]
      BY <2>2 DEF AfterMap
    <3>2. /\ call \in Calls /\ call.i \in Nat
      BY CallTypes
    <3>3. /\ call'.at = "large" /\ call'.i = call.i + 1 /\ call'.frame = NoFrame
          /\ call'.pages = call.pages /\ call'.base = call.base
          /\ call'.object = call.object
      BY <3>1, <3>2 DEF Calls
    <3>4. [call EXCEPT !.at = "large", !.frame = NoFrame] \in Calls
      BY <3>2 DEF Calls
    <3>5. call' = [[call EXCEPT !.at = "large", !.frame = NoFrame] EXCEPT !.i = @ + 1]
      BY <3>1, <3>2 DEF Calls
    <3>6. call' \in Calls
      BY <3>4, <3>5, CallAdvances
    <3> QED BY <2>2, <3>3, <3>6
  <2> QED BY <2>1, <2>2
<1>5. InHand' = {}
  BY <1>4 DEF InHand
<1>6. /\ Stacking \/ Blocking
      /\ Stacking' <=> Stacking
      /\ Blocking' <=> Blocking
      /\ Stacking <=> call.at = "map_thread"
      /\ Blocking <=> call.at = "map_large"
  BY <1>4 DEF Stacking, Blocking
<1>7. /\ p \in Frames /\ p \in Nat /\ p \in LargeBase .. StackLimit
      /\ Stacking => StackBase <= p /\ p < StackLimit
      /\ Blocking => p < StackBase /\ p < next_large_vaddr
      /\ \A t \in threads : ~(t.mem <= p /\ p < t.mem + t.stack_pages)
      /\ \A b \in blocks : ~(b.base <= p /\ p < b.base + b.pages)
  <2> HIDE DEF p
  <2> QED BY <1>3, <1>6, StacksOfGood, CallPage DEF p
<1>8. /\ mapping \in [Frames -> Frames \cup {Unmapped}]
      /\ mapping' \in [Frames -> Frames \cup {Unmapped}]
      /\ \A q \in Frames : mapping'[q] = IF q = p THEN f ELSE mapping[q]
  BY <1>2, <1>7, StateTypes
<1>9. ~InCall(p)
  BY <1>3 DEF InCall
<1>10. mapping[p] = Unmapped
  <2>1. CASE Stacking
    <3>1. ~Blocking /\ p \in StackBase .. StackLimit
      BY <1>7, <2>1, StacksOfGood, CallArea, Regions
    <3>2. ~OnStack(p)
      BY <1>7, <1>9, Zenon DEF OnStack
    <3> QED BY <3>1, <3>2, Zenon DEF BackedInv
  <2>2. CASE Blocking
    <3>1. call.at = "map_large"
      BY <1>6, <2>2
    <3>2. call.base + call.i <= p /\ p < call.base + call.pages
      BY <1>3
    <3> HIDE DEF p
    <3> QED BY <1>7, <3>1, <3>2 DEF BackedInv
  <2> QED BY <1>6, <2>1, <2>2
<1>11. ASSUME NEW q \in Nat PROVE InCall(q)' <=> InCall(q) \/ q = p
  BY <1>3, <1>4 DEF InCall
<1> HIDE DEF p, f
<1>12. CallInv'
  BY <1>3, <1>4 DEF CallInv, Growing, Holding, OnPages
<1>13. /\ AllThreads' = AllThreads /\ AllBlocks' = AllBlocks
       /\ Stacking => CallThread' = CallThread
       /\ Blocking => CallBlock' = CallBlock
  BY <1>1, <1>4, <1>6, SameAreas
<1>14. ThreadsInv'
  <2>1. \A t \in AllThreads' : t.header \in held'
    BY <1>1, <1>13, Zenon DEF ThreadsInv, StackOf
  <2>2. next_stack_vaddr' \in Nat /\ next_stack_vaddr <= next_stack_vaddr'
    BY <1>1, StateTypes
  <2>3. Stacking' => CallThread' \notin threads'
    BY <1>1, <1>6, <1>13, Zenon DEF ThreadsInv
  <2> QED BY <1>13, <2>1, <2>2, <2>3, ThreadsStay
<1>15. BlocksInv'
  <2>1. next_large_vaddr' \in Nat /\ next_large_vaddr <= next_large_vaddr'
    BY <1>1, StateTypes
  <2>2. Blocking' => CallBlock' \notin blocks'
    BY <1>1, <1>6, <1>13, Zenon DEF BlocksInv
  <2> QED BY <1>13, <2>1, <2>2, BlocksStay
<1>16. BackedInv'
  <2>1. ASSUME NEW q \in Nat PROVE OnStack(q)' <=> OnStack(q) \/ (q = p /\ Stacking)
    BY <1>1, <1>6, <1>11, Zenon DEF OnStack
  <2>2. ASSUME NEW q \in Nat, InBlock(q)' PROVE InBlock(q) \/ q = p
    BY <1>1, <1>6, <1>11, <2>2, Zenon DEF InBlock
  <2>3. ASSUME NEW q \in StackBase .. StackLimit
        PROVE  mapping'[q] # Unmapped <=> OnStack(q)'
    <3>1. q \in Nat /\ q \in Frames
      BY Regions, FramesAreNumbers
    <3>2. mapping[q] # Unmapped <=> OnStack(q)
      BY Zenon DEF BackedInv
    <3>3. q = p => Stacking
      BY <1>6, <1>7, Regions
    <3>4. q = p => mapping'[q] # Unmapped /\ OnStack(q)'
      BY <1>2, <1>8, <2>1, <3>1, <3>3
    <3>5. q # p => mapping'[q] = mapping[q] /\ (OnStack(q)' <=> OnStack(q))
      BY <1>8, <2>1, <3>1
    <3> QED BY <3>2, <3>4, <3>5, Zenon
  <2>4. ASSUME NEW q \in Frames, InBlock(q)' PROVE mapping'[q] # Unmapped
    <3>1. InBlock(q) => mapping[q] # Unmapped
      BY Zenon DEF BackedInv
    <3> QED BY <1>2, <1>8, <2>2, <2>4, <3>1, FramesAreNumbers
  <2>5. \A q \in LargeBase .. StackBase - 1 : mapping'[q] # Unmapped => q < next_large_vaddr'
    <3>1. \A q \in LargeBase .. StackBase - 1 : mapping[q] # Unmapped => q < next_large_vaddr
      BY Zenon DEF BackedInv
    <3>2. \A q \in LargeBase .. StackBase - 1 : q \in Frames /\ (q = p => q < next_large_vaddr)
      BY <1>6, <1>7, Regions, FramesAreNumbers
    <3> QED BY <1>1, <1>8, <3>1, <3>2
  <2>6. ASSUME call'.at \in {"large", "map_large"}, NEW q \in Frames,
               call'.base + call'.i <= q, q < call'.base + call'.pages
        PROVE  mapping'[q] = Unmapped
    <3>1. call.at = "map_large"
      BY <1>4, <2>6
    <3>2. call.base + call.i <= q /\ q < call.base + call.pages /\ q # p
      BY <1>3, <1>4, <2>6, FramesAreNumbers DEF p
    <3>3. mapping[q] = Unmapped
      BY <3>1, <3>2 DEF BackedInv
    <3> QED BY <1>8, <3>2, <3>3
  <2>7. \A s \in SlabFrames' : mapping'[s] = s
    <3>1. ASSUME NEW s \in SlabFrames PROVE s \in Frames /\ s # p
      BY <1>7, HoldersAreLow, Regions, FramesAreNumbers
    <3>2. \A s \in SlabFrames : mapping[s] = s
      BY Zenon DEF BackedInv
    <3>3. SlabFrames' = SlabFrames
      BY <1>1, SameSlabs
    <3> QED BY <1>8, <3>1, <3>2, <3>3
  <2> QED BY <2>3, <2>4, <2>5, <2>6, <2>7, Zenon DEF BackedInv
<1>17. PageFrames' = PageFrames \cup {f} /\ PagesOnce'
  <2>1. f \notin PageFrames
    BY <1>2, OwnersParts DEF Partition
  <2>2. mapping' = [mapping EXCEPT ![p] = f]
    BY <1>2 DEF f
  <2> QED BY <1>2, <1>7, <1>10, <2>1, <2>2, PageAdded, OwnersParts
<1>18. SlabInv'
  <2>1. call.at # "slab_alloc"
    OBVIOUS
  <2> QED BY <1>1, <2>1, SlabsStay
<1>19. PageToMap \in Nat /\ PageToMap < StackLimit
  BY <1>2, <1>6, <1>7, Regions
<1> QED BY <1>2, <1>4, <1>5, <1>8, <1>12, <1>14, <1>15, <1>16, <1>17, <1>18, <1>19 DEF f

LEMMA OwnersNext ==
  ASSUME TablesOnce', SlabsOnce', PagesOnce',
         Partition(Tables', SlabFrames', PageFrames', InHand', bitmap' \ Reserved),
         Reserved \subseteq bitmap'
  PROVE  OwnersInv'
<1>1. Partition(Tables, SlabFrames, PageFrames, InHand, bitmap \ Reserved)'
  BY ReservedStays, Zenon DEF Partition
<1>2. (Reserved \subseteq bitmap)'
  BY ReservedStays, Zenon
<1> QED BY <1>1, <1>2, Zenon DEF OwnersInv

LEMMA PageToMapIsLow ==
  ASSUME Good, Mapping
  PROVE  /\ PageToMap \in Nat /\ PageToMap < StackLimit /\ PageToMap \in Frames
         /\ DirectoryOf(PageToMap) \in Directories
         /\ DirectoryOf(PageToMap) < RecursiveIndex
<1> USE GoodParts
<1>1. PageToMap \in Nat /\ PageToMap < StackLimit
  <2>1. CASE call.at = "map_slab"
    <3>1. PageToMap = call.frame /\ call.frame \in InHand
      BY <2>1 DEF CallInv, Holding, InHand, PageToMap
    <3>2. call.frame \in Frames /\ call.frame < LargeBase
      BY <3>1, HoldersAreLow
    <3>3. call.frame \in Nat
      BY <3>2, FramesAreNumbers
    <3>4. LargeBase \in Nat /\ StackLimit \in Nat /\ LargeBase <= StackLimit
      BY Regions
    <3>5. call.frame < StackLimit
      BY <3>2, <3>3, <3>4
    <3> QED BY <3>1, <3>3, <3>5, Zenon
  <2>2. CASE call.at \in {"map_thread", "map_large"}
    <3>1. PageToMap = call.base + call.i /\ call.i < call.pages
      BY <2>2 DEF PageToMap, CallInv
    <3>2. Stacking \/ Blocking
      BY <2>2 DEF Stacking, Blocking
    <3>3. /\ PageToMap \in Nat
          /\ Stacking => PageToMap < StackLimit
          /\ Blocking => PageToMap < StackBase
      BY <3>1, <3>2, StacksOfGood, CallPage
    <3> QED BY <3>2, <3>3, Regions
  <2> QED BY <2>1, <2>2 DEF Mapping
<1>2. PageToMap \in Frames
  BY <1>1, FramesAreNumbers, Regions
<1> QED BY <1>1, <1>2, Directory

(* Both, whatever happens to the table: what is left to show is who owns   *)
(* the frames.                                                             *)
LEMMA PageMapped ==
  ASSUME Good, Mapping, mapping' = [mapping EXCEPT ![PageToMap] = call.frame],
         AfterMap, UNCHANGED <<caches, regions, owners>>
  PROVE  /\ mapping' \in [Frames -> Frames \cup {Unmapped}] /\ call' \in Calls
         /\ CallInv' /\ ThreadsInv' /\ BlocksInv' /\ BackedInv' /\ SlabInv'
         /\ PagesOnce'
         /\ \A T, B : Partition(T, SlabFrames, PageFrames, InHand, B) =>
                        Partition(T, SlabFrames', PageFrames', InHand', B)
         /\ SlabsOnce'
<1> USE GoodParts
<1>1. SlabFrames' = SlabFrames /\ SlabsOnce'
  BY SameSlabs, OwnersParts DEF caches
<1>2. CASE call.at = "map_slab"
  BY <1>1, <1>2, SlabMapped, Zenon
<1>3. CASE call.at \in {"map_thread", "map_large"}
  <2>1. /\ PageFrames' = PageFrames \cup {call.frame}
        /\ InHand = {call.frame} /\ InHand' = {}
    BY <1>3, AreaMapped, Zenon
  <2>2. \A T, B : Partition(T, SlabFrames, PageFrames, InHand, B) =>
                    Partition(T, SlabFrames', PageFrames', InHand', B)
    BY <1>1, <2>1 DEF Partition
  <2> QED BY <1>1, <1>3, <2>2, AreaMapped, Zenon
<1> QED BY <1>2, <1>3 DEF Mapping

LEMMA PagingMapKeeps ==
  ASSUME Good, PagingMap
  PROVE  Good'
<1> USE GoodParts
<1>1. /\ Mapping /\ AfterMap
      /\ UNCHANGED <<frames, page_directory, caches, regions, owners, exhausted, panic>>
      /\ mapping' = IF DirectoryOf(PageToMap) >= RecursiveIndex THEN mapping
                    ELSE [mapping EXCEPT ![PageToMap] = call.frame]
  BY Zenon DEF PagingMap
<1>2. mapping' = [mapping EXCEPT ![PageToMap] = call.frame]
  <2>1. DirectoryOf(PageToMap) < RecursiveIndex /\ DirectoryOf(PageToMap) \in Int
        /\ RecursiveIndex \in Int
    BY <1>1, PageToMapIsLow, Division, Sizes DEF Directories
  <2>2. ~(DirectoryOf(PageToMap) >= RecursiveIndex)
    BY <2>1
  <2> QED BY <1>1, <2>2, Zenon
<1>3. /\ mapping' \in [Frames -> Frames \cup {Unmapped}] /\ call' \in Calls
      /\ CallInv' /\ ThreadsInv' /\ BlocksInv' /\ BackedInv' /\ SlabInv'
      /\ PagesOnce' /\ SlabsOnce'
      /\ \A T, B : Partition(T, SlabFrames, PageFrames, InHand, B) =>
                     Partition(T, SlabFrames', PageFrames', InHand', B)
  BY <1>1, <1>2, PageMapped, Zenon
<1>4. /\ bitmap' = bitmap /\ search_hint' = search_hint /\ page_directory' = page_directory
      /\ panic' = panic /\ exhausted' = exhausted
  BY <1>1, Zenon DEF frames
<1>5. TypeOK' /\ ~panic'
  <2>1. /\ slabs' = slabs /\ free_list' = free_list
        /\ next_large_vaddr' = next_large_vaddr /\ next_stack_vaddr' = next_stack_vaddr
        /\ held' = held /\ blocks' = blocks /\ threads' = threads
    BY <1>1, Zenon DEF caches, regions, owners
  <2>2. TypeOK'
    BY <1>3, <1>4, <2>1, Zenon DEF TypeOK
  <2> QED BY <1>4, <2>2, Zenon
<1>6. OwnersInv'
  <2>1. Tables' = Tables /\ TablesOnce'
    BY <1>4, SameTables, OwnersParts, Zenon
  <2>2. /\ Partition(Tables, SlabFrames, PageFrames, InHand, bitmap \ Reserved)
        /\ Reserved \subseteq bitmap
    BY OwnersParts
  <2>3. Partition(Tables', SlabFrames', PageFrames', InHand', bitmap' \ Reserved)
    BY <1>3, <1>4, <2>1, <2>2, Zenon
  <2>4. Reserved \subseteq bitmap'
    BY <1>4, <2>2, Zenon
  <2> QED BY <1>3, <2>1, <2>3, <2>4, OwnersNext
<1> QED BY <1>3, <1>5, <1>6, GoodNext

LEMMA PagingMapNewTableKeeps ==
  ASSUME Good, PagingMapNewTable
  PROVE  Good'
<1> USE GoodParts
<1> DEFINE d == DirectoryOf(PageToMap)
<1>1. /\ Mapping /\ AfterMap
      /\ UNCHANGED <<caches, regions, owners, exhausted, panic>>
      /\ mapping' = [mapping EXCEPT ![PageToMap] = call.frame]
  BY Zenon DEF PagingMapNewTable
<1>2. PICK f \in Frames :
        PmmAlloc(f) /\ page_directory' = [page_directory EXCEPT ![d] = f]
  BY Zenon DEF PagingMapNewTable
<1>3. /\ mapping' \in [Frames -> Frames \cup {Unmapped}] /\ call' \in Calls
      /\ CallInv' /\ ThreadsInv' /\ BlocksInv' /\ BackedInv' /\ SlabInv'
      /\ PagesOnce' /\ SlabsOnce'
      /\ \A T, B : Partition(T, SlabFrames, PageFrames, InHand, B) =>
                     Partition(T, SlabFrames', PageFrames', InHand', B)
  BY <1>1, PageMapped, Zenon
<1>4. /\ bitmap' \subseteq Frames /\ search_hint' \in 0 .. BitmapSize - 1
      /\ f \notin bitmap /\ bitmap' = bitmap \cup {f}
  BY <1>2, AllocTypes
<1>5. d \in Directories /\ page_directory[d] = Absent
  <2>1. d \in Directories
    BY <1>1, PageToMapIsLow
  <2>2. page_directory[d] = Absent
    BY Zenon DEF PagingMapNewTable
  <2> QED BY <2>1, <2>2
<1> HIDE DEF d
<1>6. /\ page_directory \in [Directories -> Frames \cup {Absent, BootTable}]
      /\ page_directory' \in [Directories -> Frames \cup {Absent, BootTable}]
      /\ page_directory'[d] = f
      /\ \A e \in Directories : e # d => page_directory'[e] = page_directory[e]
  BY <1>2, <1>5, StateTypes
<1>7. TypeOK' /\ ~panic'
  <2>1. /\ slabs' = slabs /\ free_list' = free_list
        /\ next_large_vaddr' = next_large_vaddr /\ next_stack_vaddr' = next_stack_vaddr
        /\ held' = held /\ blocks' = blocks /\ threads' = threads
        /\ panic' = panic /\ exhausted' = exhausted
    BY <1>1, Zenon DEF caches, regions, owners
  <2>2. TypeOK'
    BY <1>3, <1>4, <1>6, <2>1, Zenon DEF TypeOK
  <2> QED BY <2>1, <2>2, Zenon
<1>8. OwnersInv'
  <2>1. /\ Partition(Tables, SlabFrames, PageFrames, InHand, bitmap \ Reserved)
        /\ Reserved \subseteq bitmap /\ TablesOnce
    BY OwnersParts
  <2>2. f \notin Tables
    BY <1>4, <2>1 DEF Partition
  <2>3. Tables' = Tables \cup {f}
    BY <1>5, <1>6, FramesAreNumbers DEF Tables
  <2>4. TablesOnce'
    <3>1. \A e \in Directories : page_directory[e] # f
      BY <2>2 DEF Tables
    <3> QED BY <1>5, <1>6, <2>1, <3>1 DEF TablesOnce
  <2>5. Partition(Tables \cup {f}, SlabFrames, PageFrames, InHand, bitmap' \ Reserved)
    BY <1>4, <2>1 DEF Partition
  <2>6. Partition(Tables', SlabFrames', PageFrames', InHand', bitmap' \ Reserved)
    BY <1>3, <2>3, <2>5, Zenon
  <2>7. Reserved \subseteq bitmap'
    BY <1>4, <2>1
  <2> QED BY <1>3, <2>4, <2>6, <2>7, OwnersNext
<1> QED BY <1>3, <1>7, <1>8, GoodNext

-----------------------------------------------------------------------------
(* Lists of slabs and of free objects *)

LEMMA PushSeq ==
  ASSUME NEW S, NEW s \in Seq(S), NEW x \in S
  PROVE  /\ <<x>> \o s \in Seq(S) /\ Len(<<x>> \o s) = Len(s) + 1
         /\ DOMAIN (<<x>> \o s) = 1 .. Len(s) + 1
         /\ (<<x>> \o s)[1] = x
         /\ \A k \in 1 .. Len(s) : (<<x>> \o s)[k + 1] = s[k]
         /\ \A k \in DOMAIN (<<x>> \o s) : k # 1 => /\ k - 1 \in DOMAIN s
                                                    /\ (<<x>> \o s)[k] = s[k - 1]
<1>1. <<x>> \in Seq(S) /\ Len(<<x>>) = 1 /\ <<x>>[1] = x
  OBVIOUS
<1>2. Len(s) \in Nat /\ DOMAIN s = 1 .. Len(s)
  BY LenProperties
<1> DEFINE r == <<x>> \o s
<1>3. /\ r \in Seq(S) /\ Len(r) = 1 + Len(s)
      /\ \A i \in 1 .. 1 + Len(s) : r[i] = IF i <= 1 THEN <<x>>[i] ELSE s[i - 1]
  BY <1>1, ConcatProperties
<1>4. DOMAIN r = 1 .. Len(r)
  BY <1>3, LenProperties
<1> HIDE DEF r
<1>5. r[1] = x
  BY <1>1, <1>2, <1>3
<1>6. \A k \in 1 .. Len(s) : r[k + 1] = s[k]
  BY <1>2, <1>3
<1>7. \A k \in DOMAIN r : k # 1 => k - 1 \in DOMAIN s /\ r[k] = s[k - 1]
  BY <1>2, <1>3, <1>4
<1>8. Len(r) = Len(s) + 1 /\ DOMAIN r = 1 .. Len(s) + 1
  BY <1>2, <1>3, <1>4
<1> QED BY <1>3, <1>5, <1>6, <1>7, <1>8 DEF r

LEMMA Offsets ==
  ASSUME NEW j \in Nat, NEW k \in Nat, NEW n \in Nat, 1 <= k, k <= n, k <= j, j <= n - 1
  PROVE  /\ j - (k - 1) \in 1 .. n - k /\ k + (j - (k - 1)) = j + 1
         /\ (k - 1) + (n - k) = n - 1 /\ ~(j <= k - 1) /\ j \in 1 .. n - 1
  OBVIOUS

(* What slab_free leaves of a list when it unlinks the slab at place k. *)
Without(s, k) == SubSeq(s, 1, k - 1) \o SubSeq(s, k + 1, Len(s))

LEMMA RemoveSeq ==
  ASSUME NEW S, NEW s \in Seq(S), NEW k \in DOMAIN s, NEW r, r = Without(s, k)
  PROVE  /\ r \in Seq(S) /\ DOMAIN r = 1 .. Len(s) - 1
         /\ \A j \in DOMAIN r : \/ j < k /\ j \in DOMAIN s /\ r[j] = s[j]
                                \/ j >= k /\ j + 1 \in DOMAIN s /\ r[j] = s[j + 1]
         /\ \A j \in DOMAIN s : j # k => \E l \in DOMAIN r : r[l] = s[j]
<1> DEFINE a == SubSeq(s, 1, k - 1)
           b == SubSeq(s, k + 1, Len(s))
<1>1. /\ Len(s) \in Nat /\ DOMAIN s = 1 .. Len(s) /\ k \in 1 .. Len(s)
      /\ \A i \in 1 .. Len(s) : s[i] \in S
  BY LenProperties
<1>2. /\ a \in Seq(S) /\ Len(a) = k - 1 /\ \A i \in 1 .. k - 1 : a[i] = s[i]
  <2>1. 1 \in Int /\ k - 1 \in Int /\ \A i \in 1 .. k - 1 : s[i] \in S
    BY <1>1
  <2>2. /\ SubSeq(s, 1, k - 1) \in Seq(S)
        /\ Len(SubSeq(s, 1, k - 1)) = IF 1 <= k - 1 THEN k - 1 - 1 + 1 ELSE 0
        /\ \A i \in 1 .. k - 1 - 1 + 1 : SubSeq(s, 1, k - 1)[i] = s[1 + i - 1]
    BY <2>1, SubSeqProperties
  <2> QED BY <1>1, <2>2
<1>3. /\ b \in Seq(S) /\ Len(b) = Len(s) - k /\ \A i \in 1 .. Len(s) - k : b[i] = s[k + i]
  <2>1. k + 1 \in Int /\ Len(s) \in Int /\ \A i \in k + 1 .. Len(s) : s[i] \in S
    BY <1>1
  <2>2. /\ SubSeq(s, k + 1, Len(s)) \in Seq(S)
        /\ Len(SubSeq(s, k + 1, Len(s))) =
             IF k + 1 <= Len(s) THEN Len(s) - (k + 1) + 1 ELSE 0
        /\ \A i \in 1 .. Len(s) - (k + 1) + 1 :
             SubSeq(s, k + 1, Len(s))[i] = s[k + 1 + i - 1]
    BY <2>1, SubSeqProperties
  <2>3. /\ b \in Seq(S) /\ Len(b) = IF k + 1 <= Len(s) THEN Len(s) - (k + 1) + 1 ELSE 0
        /\ \A i \in 1 .. Len(s) - (k + 1) + 1 : b[i] = s[k + 1 + i - 1]
    BY <2>2
  <2> HIDE DEF b
  <2>4. Len(b) = Len(s) - k /\ Len(s) - (k + 1) + 1 = Len(s) - k
    BY <1>1, <2>3
  <2>5. ASSUME NEW i \in 1 .. Len(s) - k PROVE b[i] = s[k + i]
    <3>1. k + 1 + i - 1 = k + i
      BY <1>1
    <3> QED BY <2>3, <2>4, <3>1
  <2> QED BY <2>3, <2>4, <2>5
<1> HIDE DEF a, b
<1>4. r = a \o b
  BY DEF a, b, Without
<1>5. /\ r \in Seq(S) /\ Len(r) = Len(a) + Len(b)
      /\ \A i \in 1 .. Len(a) + Len(b) : r[i] = IF i <= Len(a) THEN a[i] ELSE b[i - Len(a)]
  <2>1. a \in Seq(S) /\ b \in Seq(S)
    BY <1>2, <1>3
  <2>2. /\ a \o b \in Seq(S) /\ Len(a \o b) = Len(a) + Len(b)
        /\ \A i \in 1 .. Len(a) + Len(b) :
             (a \o b)[i] = IF i <= Len(a) THEN a[i] ELSE b[i - Len(a)]
    BY <2>1, ConcatProperties
  <2> QED BY <1>4, <2>2
<1>6. Len(r) = Len(s) - 1 /\ DOMAIN r = 1 .. Len(s) - 1
  BY <1>1, <1>2, <1>3, <1>5, LenProperties
<1> DEFINE n == Len(s)
<1>n. /\ n \in Nat /\ k \in Nat /\ 1 <= k /\ k <= n /\ Len(a) = k - 1 /\ Len(b) = n - k
       /\ DOMAIN s = 1 .. n /\ DOMAIN r = 1 .. n - 1
  BY <1>1, <1>2, <1>3, <1>6
<1> HIDE DEF n
<1>7. ASSUME NEW j \in 1 .. Len(s) - 1
      PROVE  (j < k => r[j] = s[j]) /\ (j >= k => r[j] = s[j + 1])
  <2>1. CASE j < k
    <3>1. j \in 1 .. k - 1 /\ j \in 1 .. Len(a) + Len(b) /\ j <= Len(a)
      BY <1>1, <1>2, <1>3, <2>1
    <3>2. r[j] = a[j]
      BY <1>5, <3>1
    <3> QED BY <1>1, <1>2, <2>1, <3>1, <3>2
  <2>2. CASE j >= k
    <3>1. /\ j - (k - 1) \in 1 .. Len(s) - k /\ j \in 1 .. Len(a) + Len(b)
          /\ ~(j <= Len(a)) /\ k + (j - (k - 1)) = j + 1
      <4>1. j \in Nat /\ j <= n - 1 /\ j >= k
        BY <1>n, <2>2 DEF n
      <4>2. j - (k - 1) \in 1 .. n - k /\ k + (j - (k - 1)) = j + 1
        BY <1>n, <4>1, Offsets
      <4>3. Len(a) + Len(b) = n - 1 /\ ~(j <= Len(a)) /\ j \in 1 .. n - 1
        BY <1>n, <4>1, Offsets
      <4> QED BY <4>2, <4>3 DEF n
    <3>2. r[j] = b[j - (k - 1)]
      BY <1>2, <1>5, <3>1
    <3>3. b[j - (k - 1)] = s[j + 1]
      BY <1>3, <3>1
    <3> QED BY <1>1, <2>2, <3>2, <3>3
  <2> QED BY <1>1, <2>1, <2>2
<1>8. \A j \in DOMAIN r : \/ j < k /\ j \in DOMAIN s /\ r[j] = s[j]
                          \/ j >= k /\ j + 1 \in DOMAIN s /\ r[j] = s[j + 1]
  <2> SUFFICES ASSUME NEW j \in DOMAIN r
               PROVE  \/ j < k /\ j \in DOMAIN s /\ r[j] = s[j]
                      \/ j >= k /\ j + 1 \in DOMAIN s /\ r[j] = s[j + 1]
    OBVIOUS
  <2>1. j \in 1 .. Len(s) - 1
    BY <1>6
  <2>2. (j < k => r[j] = s[j]) /\ (j >= k => r[j] = s[j + 1])
    BY <1>7, <2>1
  <2>3. (j < k \/ j >= k) /\ j \in DOMAIN s /\ j + 1 \in DOMAIN s
    BY <1>n, <2>1 DEF n
  <2> QED BY <2>2, <2>3
<1>9. ASSUME NEW j \in DOMAIN s, j # k PROVE \E l \in DOMAIN r : r[l] = s[j]
  <2>1. CASE j < k
    <3>1. j \in DOMAIN r /\ r[j] = s[j]
      BY <1>1, <1>6, <1>7, <2>1
    <3> QED BY <3>1
  <2>2. CASE j > k
    <3>1. /\ j - 1 \in DOMAIN r /\ j - 1 \in 1 .. Len(s) - 1
          /\ j - 1 >= k /\ (j - 1) + 1 = j
      <4>1. j \in Nat /\ j <= n
        BY <1>n
      <4> QED BY <1>n, <2>2, <4>1 DEF n
    <3>2. r[j - 1] = s[(j - 1) + 1]
      BY <1>7, <3>1
    <3> QED BY <3>1, <3>2
  <2>3. j < k \/ j > k
    <3>1. j \in Nat
      BY <1>n
    <3> QED BY <1>9, <1>n, <3>1
  <2> QED BY <2>1, <2>2, <2>3
<1> QED BY <1>5, <1>6, <1>8, <1>9

LEMMA ExactTail ==
  ASSUME NEW c \in Caches, NEW list \in Seq(Nat), list # <<>>, NEW T, Exact(c, list, T)
  PROVE  /\ Head(list) \in 1 .. Capacity[c] /\ Head(list) \notin T
         /\ Tail(list) \in Seq(Nat)
         /\ Exact(c, Tail(list), T \cup {Head(list)})
<1> DEFINE x == Head(list)
           t == Tail(list)
<1>1. /\ Len(list) \in Nat \ {0} /\ DOMAIN list = 1 .. Len(list) /\ x = list[1]
      /\ 1 \in DOMAIN list
  BY EmptySeq, LenProperties
<1>2. /\ t \in Seq(Nat) /\ Len(t) = Len(list) - 1
      /\ \A i \in 1 .. Len(t) : t[i] = list[i + 1]
  BY HeadTailProperties
<1>3. DOMAIN t = 1 .. Len(list) - 1
  BY <1>2, LenProperties
<1>4. /\ \A i, j \in DOMAIN list : list[i] = list[j] => i = j
      /\ {list[i] : i \in DOMAIN list} = (1 .. Capacity[c]) \ T
  BY DEF Exact
<1>5. x \in (1 .. Capacity[c]) \ T
  BY <1>1, <1>4
<1> HIDE DEF x, t
<1>6. \A i \in DOMAIN t : i + 1 \in DOMAIN list /\ t[i] = list[i + 1] /\ i \in Nat /\ i + 1 # 1
  BY <1>1, <1>2, <1>3
<1>7. ASSUME NEW i \in DOMAIN t, NEW j \in DOMAIN t, t[i] = t[j] PROVE i = j
  <2>1. i + 1 = j + 1
    BY <1>4, <1>6, <1>7
  <2> QED BY <1>6, <2>1
<1>8. \A i \in DOMAIN t : t[i] # x /\ t[i] \in (1 .. Capacity[c]) \ T
  BY <1>1, <1>4, <1>6
<1>9. ASSUME NEW y \in (1 .. Capacity[c]) \ T, y # x PROVE \E i \in DOMAIN t : t[i] = y
  <2>1. PICK j \in DOMAIN list : list[j] = y
    BY <1>4
  <2>2. j # 1 /\ j \in 1 .. Len(list)
    BY <1>1, <1>9, <2>1
  <2>3. j - 1 \in DOMAIN t /\ t[j - 1] = list[j]
    BY <1>1, <1>2, <1>3, <2>2
  <2> QED BY <2>1, <2>3
<1>10. {t[i] : i \in DOMAIN t} = (1 .. Capacity[c]) \ (T \cup {x})
  BY <1>8, <1>9
<1>11. Exact(c, t, T \cup {x})
  BY <1>7, <1>10 DEF Exact
<1> QED BY <1>2, <1>5, <1>11 DEF x, t

LEMMA ExactPush ==
  ASSUME NEW c \in Caches, NEW list \in Seq(Nat), NEW T, Exact(c, list, T),
         NEW x \in T, x \in 1 .. Capacity[c]
  PROVE  /\ <<x>> \o list \in Seq(Nat)
         /\ Exact(c, <<x>> \o list, T \ {x})
<1> DEFINE t == <<x>> \o list
<1>1. x \in Nat
  BY RegionAssumption
<1>2. /\ t \in Seq(Nat) /\ DOMAIN t = 1 .. Len(list) + 1 /\ t[1] = x
      /\ \A k \in 1 .. Len(list) : t[k + 1] = list[k]
      /\ \A k \in DOMAIN t : k # 1 => k - 1 \in DOMAIN list /\ t[k] = list[k - 1]
  BY <1>1, PushSeq
<1>3. Len(list) \in Nat /\ DOMAIN list = 1 .. Len(list)
  BY LenProperties
<1>4. /\ \A i, j \in DOMAIN list : list[i] = list[j] => i = j
      /\ {list[i] : i \in DOMAIN list} = (1 .. Capacity[c]) \ T
  BY DEF Exact
<1> HIDE DEF t
<1>5. \A i \in DOMAIN list : list[i] # x
  BY <1>4
<1>6. ASSUME NEW i \in DOMAIN t, NEW j \in DOMAIN t, t[i] = t[j] PROVE i = j
  <2>1. CASE i = 1 \/ j = 1
    BY <1>2, <1>5, <1>6, <2>1
  <2>2. CASE i # 1 /\ j # 1
    <3>1. i - 1 = j - 1
      BY <1>2, <1>4, <1>6, <2>2
    <3> QED BY <1>2, <1>3, <3>1
  <2> QED BY <2>1, <2>2
<1>7. ASSUME NEW i \in DOMAIN t PROVE t[i] \in (1 .. Capacity[c]) \ (T \ {x})
  <2>1. CASE i = 1
    BY <1>2, <2>1
  <2>2. CASE i # 1
    <3>1. t[i] = list[i - 1] /\ i - 1 \in DOMAIN list
      BY <1>2, <2>2
    <3>2. list[i - 1] \in (1 .. Capacity[c]) \ T
      BY <1>4, <3>1
    <3> QED BY <3>1, <3>2
  <2> QED BY <2>1, <2>2
<1>8. ASSUME NEW y \in (1 .. Capacity[c]) \ (T \ {x}) PROVE \E i \in DOMAIN t : t[i] = y
  <2>1. CASE y = x
    <3>1. 1 \in DOMAIN t
      BY <1>2, <1>3
    <3> QED BY <1>2, <2>1, <3>1
  <2>2. CASE y # x
    <3>1. PICK j \in DOMAIN list : list[j] = y
      BY <1>4, <2>2
    <3>2. j + 1 \in DOMAIN t /\ t[j + 1] = list[j]
      BY <1>2, <1>3
    <3> QED BY <3>1, <3>2
  <2> QED BY <2>1, <2>2
<1>9. {t[i] : i \in DOMAIN t} = (1 .. Capacity[c]) \ (T \ {x})
  BY <1>7, <1>8
<1>10. Exact(c, t, T \ {x})
  BY <1>6, <1>9 DEF Exact
<1> QED BY <1>2, <1>10 DEF t

(* A free list is as long as its slab exactly when nothing of it is taken. *)
LEMMA ExactLength ==
  ASSUME NEW c \in Caches, NEW list \in Seq(Nat), NEW T, T \subseteq 1 .. Capacity[c],
         Exact(c, list, T)
  PROVE  Len(list) \in Nat /\ (Len(list) < Capacity[c] <=> T # {})
<1> DEFINE n == Capacity[c]
           F == (1 .. n) \ T
<1>1. n \in Nat /\ Len(list) \in Nat /\ DOMAIN list = 1 .. Len(list)
  BY RegionAssumption, LenProperties
<1>2. /\ \A i, j \in 1 .. Len(list) : list[i] = list[j] => i = j
      /\ {list[i] : i \in 1 .. Len(list)} = F
  BY <1>1 DEF Exact
<1> HIDE DEF n, F
<1>3. list \in [1 .. Len(list) -> F]
  BY <1>1, <1>2, LenProperties
<1>4. list \in Bijection(1 .. Len(list), F)
  BY <1>2, <1>3 DEF Bijection, Injection, Surjection, IsInjective
<1>5. IsFiniteSet(1 .. Len(list)) /\ Cardinality(1 .. Len(list)) = Len(list)
  <2>1. /\ IsFiniteSet(1 .. Len(list))
        /\ Cardinality(1 .. Len(list)) =
             IF 1 > Len(list) THEN 0 ELSE Len(list) - 1 + 1
    BY <1>1, FS_Interval
  <2> QED BY <1>1, <2>1
<1>6. IsFiniteSet(1 .. n) /\ Cardinality(1 .. n) = n
  BY <1>1, FS_Interval
<1>7. Cardinality(F) = Len(list)
  BY <1>4, <1>5, FS_Bijection DEF ExistsBijection
<1>8. F \subseteq 1 .. n
  BY DEF F
<1>9. CASE T = {}
  BY <1>1, <1>6, <1>7, <1>9 DEF F, n
<1>10. CASE T # {}
  <2>1. F # 1 .. n
    BY <1>10 DEF F, n
  <2>2. Cardinality(F) < n
    <3>1. F \in SUBSET (1 .. n)
      BY <1>8
    <3>2. /\ Cardinality(F) <= Cardinality(1 .. n)
          /\ Cardinality(1 .. n) = Cardinality(F) => 1 .. n = F
      BY <1>6, <3>1, FS_Subset
    <3> QED BY <1>1, <1>6, <1>7, <2>1, <3>2
  <2> QED BY <1>1, <1>7, <1>10, <2>2 DEF n
<1> QED BY <1>9, <1>10

-----------------------------------------------------------------------------
(* The steps on slabs *)

LEMMA TakenTypes ==
  ASSUME SlabInv, NEW c \in Caches, NEW s
  PROVE  Taken(c, s) \subseteq 1 .. Capacity[c]
<1>1. \A o \in held : o.slot \in 1 .. Capacity[o.cache]
  BY DEF SlabInv, HeldInSlabs
<1> QED BY <1>1 DEF Taken

LEMMA SlabMembers ==
  ASSUME TypeOK
  PROVE  /\ \A c \in Caches : \A k \in DOMAIN slabs[c] :
              slabs[c][k] \in SlabFrames /\ slabs[c][k] \in Frames
         /\ \A s \in SlabFrames : \E c \in Caches : \E k \in DOMAIN slabs[c] : s = slabs[c][k]
         /\ SlabInv => \A o \in held : o.slab \in SlabFrames
<1>1. slabs \in [Caches -> Seq(Frames)]
  BY StateTypes
<1>2. \A c \in Caches : \A k \in DOMAIN slabs[c] : slabs[c][k] \in Frames
  <2> SUFFICES ASSUME NEW c \in Caches, NEW k \in DOMAIN slabs[c]
               PROVE  slabs[c][k] \in Frames
    OBVIOUS
  <2>1. slabs[c] \in Seq(Frames)
    BY <1>1
  <2> QED BY <2>1, LenProperties
<1>3. \A c \in Caches : \A k \in DOMAIN slabs[c] : slabs[c][k] \in SlabFrames
  BY DEF SlabFrames
<1>4. \A s \in SlabFrames : \E c \in Caches : \E k \in DOMAIN slabs[c] : s = slabs[c][k]
  BY DEF SlabFrames
<1>5. \A o \in held : o.cache \in Caches
  BY StateTypes, ObjectsExist
<1>6. SlabInv => \A o \in held : o.slab \in SlabFrames
  BY <1>3, <1>5 DEF SlabInv, HeldInSlabs
<1> QED BY <1>2, <1>3, <1>4, <1>6

LEMMA SlabParts ==
  ASSUME SlabInv
  PROVE  ListsExact /\ FreshFirst /\ HeldInSlabs
  BY Zenon DEF SlabInv

(* slab_create: the frame in hand becomes the first slab of the cache. *)
LEMMA SlabCreateLists ==
  ASSUME Good, SlabCreate
  PROVE  /\ slabs' \in [Caches -> Seq(Frames)] /\ free_list' \in [Frames -> Seq(Nat)]
         /\ SlabFrames' = SlabFrames \cup {call.frame} /\ SlabsOnce' /\ SlabInv'
<1> USE GoodParts
<1> DEFINE f == call.frame
           c == call.cache
           line == slabs[c]
           list == [k \in 1 .. Capacity[c] |-> Capacity[c] + 1 - k]
<1>1. /\ call.at = "slab_create"
      /\ free_list' = [free_list EXCEPT ![f] = list]
      /\ slabs' = [slabs EXCEPT ![c] = <<f>> \o @]
      /\ call' = [call EXCEPT !.at = "slab_alloc", !.frame = NoFrame]
      /\ held' = held
  BY DEF SlabCreate, At, owners
<1>2. /\ f \in Frames /\ c \in Caches /\ f \in InHand
  BY <1>1, CallTypes DEF CallInv, Holding, InHand
<1>3. call'.at = "slab_alloc" /\ call'.cache = c
  BY <1>1, CallTypes DEF Calls
<1>4. /\ slabs \in [Caches -> Seq(Frames)] /\ free_list \in [Frames -> Seq(Nat)]
      /\ line \in Seq(Frames)
  BY <1>2, StateTypes
<1>5. f \notin SlabFrames
  BY <1>2, OwnersParts DEF Partition
<1> DEFINE m == Capacity[c]
<1>6. m \in Nat \ {0}
  BY <1>2, RegionAssumption
<1>7. list \in Seq(Nat) /\ Exact(c, list, {})
  <2> HIDE DEF m
  <2>1. list = [k \in 1 .. m |-> m + 1 - k]
    BY DEF m
  <2> HIDE DEF list
  <2>2. DOMAIN list = 1 .. m /\ \A k \in 1 .. m : list[k] = m + 1 - k
    BY <2>1
  <2>3. list \in Seq(Nat)
    <3>1. \A k \in 1 .. m : m + 1 - k \in Nat
      BY <1>6
    <3>2. [k \in 1 .. m |-> m + 1 - k] \in Seq(Nat)
      BY <1>6, <3>1, IsASeq
    <3> QED BY <2>1, <3>2
  <2>4. \A i, j \in DOMAIN list : list[i] = list[j] => i = j
    BY <1>6, <2>2
  <2>5. ASSUME NEW y \in 1 .. m PROVE \E i \in DOMAIN list : list[i] = y
    <3>1. m + 1 - y \in 1 .. m /\ m + 1 - (m + 1 - y) = y
      BY <1>6
    <3>2. list[m + 1 - y] = y
      BY <2>2, <3>1
    <3> QED BY <2>2, <3>1, <3>2
  <2>6. {list[i] : i \in DOMAIN list} = 1 .. m
    <3>1. \A i \in DOMAIN list : list[i] \in 1 .. m
      BY <1>6, <2>2
    <3> QED BY <2>5, <3>1
  <2>7. {list[i] : i \in DOMAIN list} = (1 .. Capacity[c]) \ {}
    BY <2>6 DEF m
  <2> QED BY <2>3, <2>4, <2>7 DEF Exact
<1> HIDE DEF list, m
<1> DEFINE new == <<f>> \o line
<1>8. /\ new \in Seq(Frames) /\ DOMAIN new = 1 .. Len(line) + 1 /\ new[1] = f
      /\ \A k \in 1 .. Len(line) : new[k + 1] = line[k]
      /\ \A k \in DOMAIN new : k # 1 => k - 1 \in DOMAIN line /\ new[k] = line[k - 1]
      /\ Len(line) \in Nat /\ DOMAIN line = 1 .. Len(line)
  BY <1>2, <1>4, PushSeq, LenProperties
<1>9. /\ slabs' \in [Caches -> Seq(Frames)] /\ slabs'[c] = new
      /\ \A e \in Caches : e # c => slabs'[e] = slabs[e]
  <2>1. slabs' = [slabs EXCEPT ![c] = new]
    BY <1>1
  <2> HIDE DEF new
  <2> QED BY <1>2, <1>4, <1>8, <2>1
<1>10. /\ free_list' \in [Frames -> Seq(Nat)] /\ free_list'[f] = list
       /\ \A s \in Frames : s # f => free_list'[s] = free_list[s]
  BY <1>1, <1>2, <1>4, <1>7
<1> HIDE DEF new, line, f, c
<1>11. /\ 1 \in DOMAIN slabs'[c] /\ slabs'[c][1] = f
       /\ \A k \in DOMAIN slabs[c] : /\ k + 1 \in DOMAIN slabs'[c]
                                     /\ slabs'[c][k + 1] = slabs[c][k]
  BY <1>8, <1>9 DEF line
<1>12. ASSUME NEW e \in Caches, NEW k \in DOMAIN slabs'[e]
       PROVE  \/ e = c /\ k = 1 /\ slabs'[e][k] = f
              \/ \E l \in DOMAIN slabs[e] :
                   /\ slabs'[e][k] = slabs[e][l] /\ slabs[e][l] # f
                   /\ slabs[e][l] \in Frames
                   /\ k = IF e = c THEN l + 1 ELSE l
  <2>1. \A l \in DOMAIN slabs[e] : slabs[e][l] # f /\ slabs[e][l] \in Frames
    BY <1>5, SlabMembers
  <2>2. CASE e # c
    BY <1>9, <2>1, <2>2
  <2>3. CASE e = c /\ k # 1
    <3>1. k - 1 \in DOMAIN slabs[e] /\ slabs'[e][k] = slabs[e][k - 1] /\ k \in Nat
      BY <1>8, <1>9, <2>3 DEF line
    <3>2. k = (k - 1) + 1
      BY <3>1
    <3> QED BY <2>1, <2>3, <3>1, <3>2
  <2>4. CASE e = c /\ k = 1
    BY <1>11, <2>4
  <2> QED BY <2>2, <2>3, <2>4
<1>13. SlabFrames' = SlabFrames \cup {f}
  <2>1. ASSUME NEW s \in SlabFrames' PROVE s \in SlabFrames \cup {f}
    <3>1. PICK e \in Caches : \E k \in DOMAIN slabs'[e] : s = slabs'[e][k]
      BY DEF SlabFrames
    <3>2. PICK k \in DOMAIN slabs'[e] : s = slabs'[e][k]
      BY <3>1
    <3> QED BY <1>12, <3>2, SlabMembers
  <2>2. ASSUME NEW s \in SlabFrames PROVE s \in SlabFrames'
    <3>1. PICK e \in Caches : \E k \in DOMAIN slabs[e] : s = slabs[e][k]
      BY SlabMembers
    <3>2. PICK k \in DOMAIN slabs[e] : s = slabs[e][k]
      BY <3>1
    <3>3. \E j \in DOMAIN slabs'[e] : s = slabs'[e][j]
      BY <1>9, <1>11, <3>2
    <3> QED BY <3>3 DEF SlabFrames
  <2>3. f \in SlabFrames'
    BY <1>2, <1>11 DEF SlabFrames, c
  <2> QED BY <2>1, <2>2, <2>3
<1>14. SlabsOnce'
  <2> SUFFICES ASSUME NEW d \in Caches, NEW e \in Caches,
                      NEW k \in DOMAIN slabs'[d], NEW l \in DOMAIN slabs'[e],
                      slabs'[d][k] = slabs'[e][l]
               PROVE  d = e /\ k = l
    BY DEF SlabsOnce
  <2>1. CASE slabs'[d][k] = f
    <3>1. d = c /\ k = 1
      BY <1>12, <2>1
    <3>2. slabs'[e][l] = f
      BY <2>1
    <3>3. e = c /\ l = 1
      BY <1>12, <3>2
    <3> QED BY <3>1, <3>3
  <2>2. CASE slabs'[d][k] # f
    <3>1. PICK i \in DOMAIN slabs[d] : /\ slabs'[d][k] = slabs[d][i]
                                       /\ k = IF d = c THEN i + 1 ELSE i
      BY <1>12, <2>2
    <3>2. PICK j \in DOMAIN slabs[e] : /\ slabs'[e][l] = slabs[e][j]
                                       /\ l = IF e = c THEN j + 1 ELSE j
      BY <1>12, <2>2
    <3>3. SlabsOnce /\ slabs[d][i] = slabs[e][j]
      BY <3>1, <3>2, OwnersParts
    <3>4. d = e /\ i = j
      BY <3>3, Zenon DEF SlabsOnce
    <3> QED BY <3>1, <3>2, <3>4
  <2> QED BY <2>1, <2>2
<1>15. \A e, s : Taken(e, s)' = Taken(e, s)
  BY <1>1, Zenon DEF Taken
<1>16. \A e : Taken(e, f) = {}
  BY <1>5, SlabMembers DEF Taken
<1>17. ListsExact'
  <2> SUFFICES ASSUME NEW e \in Caches, NEW k \in DOMAIN slabs'[e]
               PROVE  Exact(e, free_list'[slabs'[e][k]], Taken(e, slabs'[e][k]))
    BY <1>15 DEF ListsExact
  <2>1. CASE e = c /\ slabs'[e][k] = f
    BY <1>7, <1>10, <1>16, <2>1
  <2>2. CASE \E l \in DOMAIN slabs[e] : /\ slabs'[e][k] = slabs[e][l] /\ slabs[e][l] # f
                                        /\ slabs[e][l] \in Frames
    <3>1. PICK l \in DOMAIN slabs[e] : /\ slabs'[e][k] = slabs[e][l] /\ slabs[e][l] # f
                                       /\ slabs[e][l] \in Frames
      BY <2>2
    <3>2. free_list'[slabs'[e][k]] = free_list[slabs[e][l]]
      BY <1>10, <3>1
    <3>3. Exact(e, free_list[slabs[e][l]], Taken(e, slabs[e][l]))
      BY SlabParts DEF ListsExact
    <3> QED BY <3>1, <3>2, <3>3
  <2> QED BY <1>12, <2>1, <2>2
<1>18. FreshFirst'
  <2> SUFFICES ASSUME NEW e \in Caches, NEW k \in DOMAIN slabs'[e],
                      Taken(e, slabs'[e][k]) = {}
               PROVE  call'.at = "slab_alloc" /\ call'.cache = e /\ k = 1
    BY <1>15 DEF FreshFirst
  <2>1. ~(\E l \in DOMAIN slabs[e] : slabs'[e][k] = slabs[e][l])
    <3>1. call.at # "slab_alloc"
      BY <1>1
    <3> QED BY <3>1, NoEmptySlab
  <2> QED BY <1>3, <1>12, <2>1
<1>19. HeldInSlabs'
  <2> SUFFICES ASSUME NEW o \in held
               PROVE  \E k \in DOMAIN slabs'[o.cache] : slabs'[o.cache][k] = o.slab
    BY <1>1, SlabParts DEF HeldInSlabs
  <2>1. PICK k \in DOMAIN slabs[o.cache] : slabs[o.cache][k] = o.slab
    BY SlabParts DEF HeldInSlabs
  <2>2. o.cache \in Caches
    BY StateTypes, ObjectsExist
  <2> QED BY <1>9, <1>11, <2>1, <2>2
<1>20. SlabInv'
  BY <1>17, <1>18, <1>19, Zenon DEF SlabInv
<1> QED BY <1>9, <1>10, <1>13, <1>14, <1>20 DEF f

LEMMA SlabCreateKeeps ==
  ASSUME Good, SlabCreate
  PROVE  Good'
<1> USE GoodParts
<1> DEFINE f == call.frame
<1>1. /\ call.at = "slab_create"
      /\ call' = [call EXCEPT !.at = "slab_alloc", !.frame = NoFrame]
      /\ UNCHANGED <<frames, paging, regions, owners, exhausted, panic>>
  BY Zenon DEF SlabCreate, At
<1>2. /\ bitmap' = bitmap /\ search_hint' = search_hint
      /\ mapping' = mapping /\ page_directory' = page_directory
      /\ next_large_vaddr' = next_large_vaddr /\ next_stack_vaddr' = next_stack_vaddr
      /\ held' = held /\ blocks' = blocks /\ threads' = threads
      /\ exhausted' = exhausted /\ panic' = panic
  BY <1>1, Zenon DEF frames, paging, regions, owners
<1>3. /\ slabs' \in [Caches -> Seq(Frames)] /\ free_list' \in [Frames -> Seq(Nat)]
      /\ SlabFrames' = SlabFrames \cup {f} /\ SlabsOnce' /\ SlabInv'
  BY SlabCreateLists
<1>4. /\ call' \in Calls /\ call'.frame = NoFrame /\ call'.at = "slab_alloc"
      /\ call'.i = call.i /\ call'.pages = call.pages /\ call'.cache = call.cache
  BY <1>1, CallTypes DEF Calls
<1>5. f # NoFrame /\ mapping[f] = f /\ InHand = {f} /\ InHand' = {}
  BY <1>1, <1>4 DEF CallInv, Holding, InHand
<1>6. TypeOK' /\ ~panic'
  <2>1. TypeOK'
    BY <1>2, <1>3, <1>4, Zenon DEF TypeOK
  <2> QED BY <1>2, <2>1, Zenon
<1>7. CallInv'
  BY <1>1, <1>2, <1>4 DEF CallInv, Growing, Holding, OnPages
<1>8. ~Stacking /\ ~Blocking /\ ~Stacking' /\ ~Blocking'
  BY <1>1, <1>4 DEF Stacking, Blocking
<1>9. AllThreads' = AllThreads /\ AllBlocks' = AllBlocks
  BY <1>2, <1>8, SameAreas
<1>10. ThreadsInv'
  <2>1. \A t \in AllThreads' : t.header \in held'
    BY <1>2, <1>9, Zenon DEF ThreadsInv, StackOf
  <2>2. next_stack_vaddr' \in Nat /\ next_stack_vaddr <= next_stack_vaddr'
    BY <1>2, StateTypes
  <2> QED BY <1>8, <1>9, <2>1, <2>2, ThreadsStay
<1>11. BlocksInv'
  <2>1. next_large_vaddr' \in Nat /\ next_large_vaddr <= next_large_vaddr'
    BY <1>2, StateTypes
  <2> QED BY <1>8, <1>9, <2>1, BlocksStay
<1>12. BackedInv'
  <2>1. \A p : (OnStack(p)' <=> OnStack(p)) /\ (InBlock(p)' <=> InBlock(p))
    BY <1>2, <1>8, SamePages
  <2>2. \A p \in StackBase .. StackLimit : mapping'[p] # Unmapped <=> OnStack(p)'
    BY <1>2, <2>1, Zenon DEF BackedInv
  <2>3. \A p \in Frames : InBlock(p)' => mapping'[p] # Unmapped
    BY <1>2, <2>1, Zenon DEF BackedInv
  <2>4. \A p \in LargeBase .. StackBase - 1 : mapping'[p] # Unmapped => p < next_large_vaddr'
    BY <1>2, Zenon DEF BackedInv
  <2>5. \A s \in SlabFrames' : mapping'[s] = s
    BY <1>2, <1>3, <1>5, Zenon DEF BackedInv
  <2>6. call'.at \notin {"large", "map_large"}
    BY <1>4
  <2> QED BY <2>2, <2>3, <2>4, <2>5, <2>6, Zenon DEF BackedInv
<1>13. OwnersInv'
  <2>1. Tables' = Tables /\ TablesOnce' /\ PageFrames' = PageFrames /\ PagesOnce'
    BY <1>2, SameTables, SamePageFrames, OwnersParts, Zenon
  <2>2. /\ Partition(Tables, SlabFrames, PageFrames, InHand, bitmap \ Reserved)
        /\ Reserved \subseteq bitmap
    BY OwnersParts
  <2>3. Partition(Tables, SlabFrames \cup {f}, PageFrames, {}, bitmap \ Reserved)
    BY <1>5, <2>2 DEF Partition
  <2>4. Partition(Tables', SlabFrames', PageFrames', InHand', bitmap' \ Reserved)
    BY <1>2, <1>3, <1>5, <2>1, <2>3, Zenon
  <2>5. Reserved \subseteq bitmap'
    BY <1>2, <2>2, Zenon
  <2> QED BY <1>3, <2>1, <2>4, <2>5, OwnersNext
<1> QED BY <1>3, <1>6, <1>7, <1>10, <1>11, <1>12, <1>13, GoodNext

(* slab_alloc: the first free object of the first slab with room changes   *)
(* hands.                                                                  *)
LEMMA SlabTakeLists ==
  ASSUME Good, call.at = "slab_alloc", call'.at # "slab_alloc",
         NEW k \in FirstWithRoom(call.cache), NEW s, s = slabs[call.cache][k],
         NEW o, o = [cache |-> call.cache, slab |-> s, slot |-> Head(free_list[s])],
         free_list' = [free_list EXCEPT ![s] = Tail(@)],
         held' = held \cup {o}, slabs' = slabs
  PROVE  /\ o \in Objects /\ o \notin held
         /\ free_list' \in [Frames -> Seq(Nat)] /\ SlabInv'
<1> USE GoodParts
<1> DEFINE c == call.cache
           list == free_list[s]
           x == Head(list)
<1>1. /\ c \in Caches /\ slabs \in [Caches -> Seq(Frames)] /\ free_list \in [Frames -> Seq(Nat)]
  BY CallTypes, StateTypes
<1>2. /\ k \in DOMAIN slabs[c] /\ list # <<>>
      /\ \A j \in 1 .. k - 1 : free_list[slabs[c][j]] = <<>>
      /\ k \in Nat /\ 1 <= k
  <2>1. slabs[c] \in Seq(Frames)
    BY <1>1
  <2>2. DOMAIN slabs[c] = 1 .. Len(slabs[c]) /\ Len(slabs[c]) \in Nat
    BY <2>1, LenProperties
  <2> QED BY <2>2 DEF FirstWithRoom
<1>3. s \in Frames /\ list \in Seq(Nat)
  BY <1>1, <1>2, SlabMembers
<1>4. Exact(c, list, Taken(c, s))
  BY <1>1, <1>2, SlabParts DEF ListsExact
<1> HIDE DEF list, c
<1>5. /\ x \in 1 .. Capacity[c] /\ x \notin Taken(c, s)
      /\ Tail(list) \in Seq(Nat) /\ Exact(c, Tail(list), Taken(c, s) \cup {x})
  BY <1>1, <1>2, <1>3, <1>4, ExactTail
<1>6. /\ free_list' \in [Frames -> Seq(Nat)] /\ free_list'[s] = Tail(list)
      /\ \A r \in Frames : r # s => free_list'[r] = free_list[r]
  BY <1>1, <1>3, <1>5 DEF list
<1> HIDE DEF x
<1>7. /\ o = [cache |-> c, slab |-> s, slot |-> x]
      /\ o.cache = c /\ o.slab = s /\ o.slot = x
  BY DEF c, x, list
<1>8. o \in Objects
  BY <1>1, <1>3, <1>5, <1>7 DEF Objects
<1>9. o \notin held
  BY <1>5, <1>7 DEF Taken
<1> DEFINE After(e, r) == {q.slot : q \in {y \in held' : y.cache = e /\ y.slab = r}}
<1>10. /\ After(c, s) = Taken(c, s) \cup {x}
       /\ \A e, r : e # c \/ r # s => After(e, r) = Taken(e, r)
  <2>1. After(c, s) = Taken(c, s) \cup {x}
    BY <1>7 DEF Taken
  <2>2. ASSUME NEW e, NEW r, e # c \/ r # s
        PROVE  After(e, r) = Taken(e, r)
    BY <1>7, <2>2 DEF Taken
  <2> QED BY <2>1, <2>2
<1> HIDE DEF After
<1>11. ASSUME NEW e \in Caches, NEW l \in DOMAIN slabs[e], e # c \/ l # k
       PROVE  slabs[e][l] # s /\ slabs[e][l] \in Frames
  <2>1. slabs[e][l] \in Frames
    BY SlabMembers
  <2>2. slabs[e][l] # slabs[c][k]
    <3>1. SlabsOnce
      BY OwnersParts
    <3>2. k \in DOMAIN slabs[c] /\ c \in Caches
      BY <1>1, <1>2
    <3>3. slabs[e][l] = slabs[c][k] => e = c /\ l = k
      BY <3>1, <3>2, Zenon DEF SlabsOnce
    <3> QED BY <1>11, <3>3
  <2> QED BY <2>1, <2>2 DEF c
<1>12. slabs[c][k] = s
  BY DEF c
<1>13. ListsExact'
  <2>0. SUFFICES ASSUME NEW e \in Caches, NEW l \in DOMAIN slabs[e]
                 PROVE  Exact(e, free_list'[slabs[e][l]], After(e, slabs[e][l]))
    <3>1. \A e, r : Taken(e, r)' = After(e, r)
      BY DEF Taken, After
    <3>2. \A e \in Caches : \A l \in DOMAIN slabs'[e] :
            Exact(e, free_list'[slabs'[e][l]], Taken(e, slabs[e][l])')
      BY <2>0, <3>1
    <3> QED BY <3>2, Zenon DEF ListsExact
  <2>1. CASE e = c /\ l = k
    BY <1>5, <1>6, <1>10, <1>12, <2>1
  <2>2. CASE e # c \/ l # k
    <3>1. Exact(e, free_list[slabs[e][l]], Taken(e, slabs[e][l]))
      BY SlabParts DEF ListsExact
    <3>2. free_list'[slabs[e][l]] = free_list[slabs[e][l]]
      BY <1>6, <1>11, <2>2
    <3>3. After(e, slabs[e][l]) = Taken(e, slabs[e][l])
      BY <1>10, <1>11, <2>2
    <3> QED BY <3>1, <3>2, <3>3
  <2> QED BY <2>1, <2>2
<1>14. ASSUME NEW e \in Caches, NEW l \in DOMAIN slabs[e]
       PROVE  After(e, slabs[e][l]) # {}
  <2>1. CASE e = c /\ l = k
    BY <1>10, <1>12, <2>1
  <2>2. CASE e # c \/ l # k
    <3>1. After(e, slabs[e][l]) = Taken(e, slabs[e][l])
      BY <1>10, <1>11, <2>2
    <3>2. Taken(e, slabs[e][l]) = {} => e = c /\ l = 1
      BY SlabParts, Zenon DEF FreshFirst, c
    <3>3. CASE e = c /\ l = 1
      <4>1. free_list[slabs[c][1]] = <<>>
        BY <1>2, <2>2, <3>3
      <4>2. Exact(c, free_list[slabs[c][1]], Taken(c, slabs[c][1]))
        BY <1>1, <3>3, SlabParts DEF ListsExact
      <4>3. 1 \in 1 .. Capacity[c]
        BY <1>1, RegionAssumption
      <4>4. 1 \in Taken(c, slabs[c][1])
        BY <4>1, <4>2, <4>3 DEF Exact
      <4> QED BY <3>1, <3>3, <4>4
    <3> QED BY <3>1, <3>2, <3>3
  <2> QED BY <2>1, <2>2
<1>15. FreshFirst'
  BY <1>14 DEF FreshFirst, Taken, After
<1>16. HeldInSlabs'
  <2> SUFFICES ASSUME NEW q \in held'
               PROVE  /\ q.slot \in 1 .. Capacity[q.cache]
                      /\ \E l \in DOMAIN slabs[q.cache] : slabs[q.cache][l] = q.slab
    BY DEF HeldInSlabs
  <2>1. CASE q = o
    BY <1>1, <1>2, <1>5, <1>7, <2>1
  <2>2. CASE q \in held
    BY <2>2, SlabParts DEF HeldInSlabs
  <2> QED BY <2>1, <2>2
<1>17. SlabInv'
  BY <1>13, <1>15, <1>16, Zenon DEF SlabInv
<1> QED BY <1>6, <1>8, <1>9, <1>17

LEMMA SlabTakeKeeps ==
  ASSUME Good, SlabTake
  PROVE  Good'
<1> USE GoodParts
<1> DEFINE N == next_stack_vaddr
<1>1. /\ call.at = "slab_alloc"
      /\ UNCHANGED <<frames, paging, slabs, next_large_vaddr, blocks, threads,
                     exhausted, panic>>
  BY Zenon DEF SlabTake, At
<1>2. PICK k \in FirstWithRoom(call.cache) :
        /\ free_list' = [free_list EXCEPT ![slabs[call.cache][k]] = Tail(@)]
        /\ held' = held \cup {[cache |-> call.cache, slab |-> slabs[call.cache][k],
                               slot |-> Head(free_list[slabs[call.cache][k]])]}
        /\ Deliver([cache |-> call.cache, slab |-> slabs[call.cache][k],
                    slot |-> Head(free_list[slabs[call.cache][k]])])
  BY DEF SlabTake
<1> PICK s : s = slabs[call.cache][k]
  OBVIOUS
<1> PICK o : o = [cache |-> call.cache, slab |-> s, slot |-> Head(free_list[s])]
  OBVIOUS
<1>3. /\ free_list' = [free_list EXCEPT ![s] = Tail(@)] /\ held' = held \cup {o}
      /\ Deliver(o) /\ o.cache = call.cache
  BY <1>2
<1>4. /\ bitmap' = bitmap /\ search_hint' = search_hint
      /\ mapping' = mapping /\ page_directory' = page_directory /\ slabs' = slabs
      /\ next_large_vaddr' = next_large_vaddr /\ blocks' = blocks /\ threads' = threads
      /\ exhausted' = exhausted /\ panic' = panic
  BY <1>1, Zenon DEF frames, paging
<1>5. \/ call' = Idle /\ N' = N
      \/ /\ call' = [call EXCEPT !.at = "thread", !.object = o, !.base = N]
         /\ N' = N + call.pages + 1 /\ call.cache = ThreadPool
  BY <1>3, CallTypes DEF Deliver, Caches
<1>6. /\ call.cache \in Caches /\ call.i = 0 /\ call.frame = NoFrame /\ call.pages \in Nat
      /\ N \in StackBase .. StackLimit /\ N \in Nat /\ N \in Frames
      /\ call.cache = ThreadPool => call.pages >= 1 /\ N + call.pages + 1 <= StackLimit
  <2>1. /\ N \in StackBase .. StackLimit /\ N \in Nat
    BY StateTypes
  <2>2. N \in Frames
    BY <2>1, Regions, FramesAreNumbers
  <2> QED BY <1>1, <2>1, <2>2, CallTypes DEF CallInv, Growing, Holding
<1>7. call'.at # "slab_alloc" /\ call'.frame = NoFrame
  BY <1>5, <1>6, CallTypes, IdleTypes DEF Calls
<1>8. /\ o \in Objects /\ o \notin held
      /\ free_list' \in [Frames -> Seq(Nat)] /\ SlabInv'
  BY <1>1, <1>3, <1>4, <1>7, SlabTakeLists
<1>9. /\ call' \in Calls
      /\ \/ call'.at = "idle" /\ N' = N
         \/ /\ call'.at = "thread" /\ call'.object = o /\ call'.base = N
            /\ call'.pages = call.pages /\ call'.i = 0
            /\ N' = N + call.pages + 1 /\ call.cache = ThreadPool
  <2>1. CASE call' = Idle /\ N' = N
    BY <2>1, IdleTypes
  <2>2. CASE /\ call' = [call EXCEPT !.at = "thread", !.object = o, !.base = N]
             /\ N' = N + call.pages + 1 /\ call.cache = ThreadPool
    BY <1>6, <1>8, <2>2, CallTypes DEF Calls
  <2> QED BY <1>5, <2>1, <2>2
<1>10. N' \in StackBase .. StackLimit /\ N' \in Nat /\ N <= N'
  BY <1>6, <1>9, Regions
<1>11. TypeOK' /\ ~panic'
  <2>1. held' \subseteq Objects
    BY <1>3, <1>8, StateTypes
  <2>2. TypeOK'
    BY <1>4, <1>8, <1>9, <1>10, <2>1, Zenon DEF TypeOK
  <2> QED BY <1>4, <2>2, Zenon
<1>12. CallInv'
  BY <1>6, <1>7, <1>9 DEF CallInv, Growing, Holding, OnPages
<1>13. ~Stacking /\ ~Blocking /\ ~Blocking'
  BY <1>1, <1>9 DEF Stacking, Blocking
<1>14. \A p : ~(Stacking' /\ InCall(p)') \/ p \notin Nat
  BY <1>6, <1>9 DEF InCall, Stacking
<1>15. ThreadsInv'
  <2>1. AllThreads = threads
    BY <1>13, Zenon DEF AllThreads
  <2>2. \A t \in threads : t.header \in held'
    BY <1>3, <2>1, Zenon DEF ThreadsInv, StackOf
  <2>3. CASE call'.at = "idle" /\ N' = N
    <3>1. ~Stacking'
      BY <2>3 DEF Stacking
    <3>2. AllThreads' = threads
      BY <1>4, <3>1, Zenon DEF AllThreads
    <3> QED BY <1>10, <2>1, <2>2, <3>1, <3>2, ThreadsStay
  <2>4. CASE /\ call'.at = "thread" /\ call'.object = o /\ call'.base = N
             /\ call'.pages = call.pages /\ call'.i = 0
             /\ N' = N + call.pages + 1 /\ call.cache = ThreadPool
    <3> PICK new : new = CallThread'
      BY Zenon
    <3>1. new.header = o /\ new.mem = N /\ new.stack_pages = call.pages
      BY <2>4 DEF CallThread
    <3>2. Stacking'
      BY <2>4 DEF Stacking
    <3>3. AllThreads' = threads \cup {new}
      BY <1>4, <3>2, Zenon DEF AllThreads
    <3>4. ASSUME NEW t \in threads
          PROVE  StackOf(t)' /\ StacksApart(t, new) /\ StacksApart(new, t) /\ t # new
      <4>1. /\ t.header \in held /\ t.header.cache = ThreadPool
            /\ StackBase <= t.mem /\ t.stack_pages >= 1
            /\ t.mem + t.stack_pages < N
        BY <2>1, Zenon DEF ThreadsInv, StackOf
      <4>2. t.mem \in Nat /\ t.stack_pages \in Nat
        BY AreaTypes
      <4>3. t.mem + t.stack_pages < N'
        BY <1>6, <1>10, <4>1, <4>2
      <4>4. StackOf(t)'
        BY <2>2, <4>1, <4>3, Zenon DEF StackOf
      <4>5. t.header # new.header
        BY <1>8, <3>1, <4>1
      <4>6. t.mem + t.stack_pages < new.mem
        BY <3>1, <4>1
      <4> QED BY <4>4, <4>5, <4>6, Zenon DEF StacksApart
    <3>5. StackOf(new)'
      <4>1. new.header \in held' /\ new.header.cache = ThreadPool
        BY <1>3, <2>4, <3>1
      <4>2. StackBase <= new.mem /\ new.stack_pages >= 1 /\ new.mem + new.stack_pages < N'
        BY <1>6, <2>4, <3>1, Regions
      <4> QED BY <4>1, <4>2, Zenon DEF StackOf
    <3>6. \A t, u \in threads : t = u \/ StacksApart(t, u)
      BY <2>1, Zenon DEF ThreadsInv
    <3>7. \A t, u : StacksApart(t, u)' <=> StacksApart(t, u)
      BY Zenon DEF StacksApart
    <3>8. \A t \in AllThreads' : StackOf(t)'
      BY <3>3, <3>4, <3>5, Zenon
    <3>9. ASSUME NEW t \in AllThreads', NEW u \in AllThreads', t # u
          PROVE  StacksApart(t, u)
      <4>1. t \in threads \/ t = new
        BY <3>3, Zenon
      <4>2. u \in threads \/ u = new
        BY <3>3, Zenon
      <4> QED BY <3>4, <3>6, <3>9, <4>1, <4>2, Zenon
    <3>10. new \notin threads'
      BY <1>4, <3>4, Zenon
    <3> QED BY <3>7, <3>8, <3>9, <3>10, Zenon DEF ThreadsInv
  <2> QED BY <1>9, <2>3, <2>4
<1>16. BlocksInv'
  <2>1. AllBlocks' \subseteq AllBlocks
    BY <1>4, <1>13, Zenon DEF AllBlocks
  <2>2. next_large_vaddr' \in Nat /\ next_large_vaddr <= next_large_vaddr'
    BY <1>4, StateTypes
  <2> QED BY <1>13, <2>1, <2>2, BlocksStay
<1>17. BackedInv'
  <2>1. \A p \in Frames : OnStack(p)' <=> OnStack(p)
    <3>1. \A p \in Frames : ~(Stacking' /\ InCall(p)')
      BY <1>14, FramesAreNumbers
    <3> QED BY <1>4, <1>13, <3>1, Zenon DEF OnStack
  <2>2. \A p : InBlock(p)' => InBlock(p)
    BY <1>4, <1>13, Zenon DEF InBlock
  <2>3. SlabFrames' = SlabFrames
    BY <1>4, SameSlabs
  <2>4. \A p \in StackBase .. StackLimit : p \in Frames
    BY FramesAreNumbers, Regions
  <2>5. \A p \in StackBase .. StackLimit : mapping'[p] # Unmapped <=> OnStack(p)'
    BY <1>4, <2>1, <2>4, Zenon DEF BackedInv
  <2>6. \A p \in Frames : InBlock(p)' => mapping'[p] # Unmapped
    BY <1>4, <2>2, Zenon DEF BackedInv
  <2>7. \A p \in LargeBase .. StackBase - 1 : mapping'[p] # Unmapped => p < next_large_vaddr'
    BY <1>4, Zenon DEF BackedInv
  <2>8. call'.at \notin {"large", "map_large"}
    BY <1>9
  <2>9. \A q \in SlabFrames' : mapping'[q] = q
    BY <1>4, <2>3, Zenon DEF BackedInv
  <2> QED BY <2>5, <2>6, <2>7, <2>8, <2>9, Zenon DEF BackedInv
<1>18. OwnersInv'
  <2>1. InHand = {} /\ InHand' = {}
    BY <1>6, <1>7 DEF InHand
  <2> QED BY <1>4, <2>1, OwnersStay
<1> QED BY <1>8, <1>11, <1>12, <1>15, <1>16, <1>17, <1>18, GoodNext

(* What is taken of a slab after the object o has been given back. *)
LEMMA TakenLess ==
  ASSUME TypeOK, NEW o \in held, NEW rest, rest = held \ {o}, NEW e, NEW r
  PROVE  {q.slot : q \in {y \in rest : y.cache = e /\ y.slab = r}} =
           IF e = o.cache /\ r = o.slab THEN Taken(e, r) \ {o.slot} ELSE Taken(e, r)
<1>1. ASSUME NEW q \in held, q.cache = o.cache, q.slab = o.slab, q.slot = o.slot
      PROVE  q = o
  <2>1. q \in Objects /\ o \in Objects
    BY StateTypes
  <2>2. /\ q = [cache |-> q.cache, slab |-> q.slab, slot |-> q.slot]
        /\ o = [cache |-> o.cache, slab |-> o.slab, slot |-> o.slot]
    BY <2>1, ObjectsExist
  <2> QED BY <1>1, <2>2
<1> QED BY <1>1 DEF Taken

(* slab_free of an object that is not the last of its slab *)
LEMMA SlabFreePushed ==
  ASSUME TypeOK, SlabInv, SlabsOnce, call.at # "slab_alloc",
         NEW o \in held, Taken(o.cache, o.slab) \ {o.slot} # {},
         held' = held \ {o}, slabs' = slabs,
         free_list' = [free_list EXCEPT ![o.slab] = <<o.slot>> \o free_list[o.slab]]
  PROVE  free_list' \in [Frames -> Seq(Nat)] /\ SlabInv'
<1> DEFINE c == o.cache
           s == o.slab
           x == o.slot
           After(e, r) == {q.slot : q \in {y \in held' : y.cache = e /\ y.slab = r}}
           new == <<x>> \o free_list[s]
<1>1. /\ c \in Caches /\ s \in Frames /\ x \in 1 .. Capacity[c]
      /\ free_list \in [Frames -> Seq(Nat)] /\ slabs \in [Caches -> Seq(Frames)]
  BY StateTypes, ObjectsExist, SlabParts DEF HeldInSlabs
<1>2. x \in Taken(c, s)
  BY DEF Taken
<1>3. PICK k \in DOMAIN slabs[c] : slabs[c][k] = s
  BY SlabParts DEF HeldInSlabs
<1>4. Exact(c, free_list[s], Taken(c, s))
  BY <1>1, <1>3, SlabParts DEF ListsExact
<1>5. new \in Seq(Nat) /\ Exact(c, new, Taken(c, s) \ {x})
  <2>1. free_list[s] \in Seq(Nat)
    BY <1>1
  <2> HIDE DEF c, s, x
  <2> QED BY <1>1, <1>2, <1>4, <2>1, ExactPush
<1>6. /\ free_list' \in [Frames -> Seq(Nat)] /\ free_list'[s] = new
      /\ \A r \in Frames : r # s => free_list'[r] = free_list[r]
  <2>1. free_list' = [free_list EXCEPT ![s] = new]
    OBVIOUS
  <2> HIDE DEF new, s
  <2> QED BY <1>1, <1>5, <2>1
<1>7. \A e, r : After(e, r) = IF e = c /\ r = s THEN Taken(e, r) \ {x} ELSE Taken(e, r)
  BY TakenLess
<1>8. Taken(c, s) \ {x} # {}
  OBVIOUS
<1> HIDE DEF After, new, c, s, x
<1>9. ASSUME NEW e \in Caches, NEW l \in DOMAIN slabs[e]
      PROVE  /\ Exact(e, free_list'[slabs[e][l]], After(e, slabs[e][l]))
             /\ After(e, slabs[e][l]) # {}
  <2>1. /\ slabs[e][l] \in Frames
        /\ Exact(e, free_list[slabs[e][l]], Taken(e, slabs[e][l]))
        /\ Taken(e, slabs[e][l]) # {}
    BY SlabMembers, SlabParts, NoEmptySlab DEF ListsExact
  <2>2. CASE slabs[e][l] = s
    <3>1. e = c
      BY <1>1, <1>3, <2>2 DEF SlabsOnce
    <3> QED BY <1>5, <1>6, <1>7, <1>8, <2>2, <3>1
  <2>3. CASE slabs[e][l] # s
    BY <1>6, <1>7, <2>1, <2>3
  <2> QED BY <2>2, <2>3
<1>10. ListsExact'
  BY <1>9 DEF ListsExact, Taken, After
<1>11. FreshFirst'
  <2>1. \A e \in Caches : \A l \in DOMAIN slabs[e] : After(e, slabs[e][l]) # {}
    BY <1>9
  <2> QED BY <2>1 DEF FreshFirst, Taken, After
<1>12. HeldInSlabs'
  BY SlabParts DEF HeldInSlabs
<1>13. SlabInv'
  BY <1>10, <1>11, <1>12, Zenon DEF SlabInv
<1> QED BY <1>6, <1>13

(* slab_free looks at the length of the list to tell whether the object is *)
(* the last of its slab.                                                   *)
LEMMA LastOfSlab ==
  ASSUME TypeOK, SlabInv, NEW o \in held
  PROVE  Len(<<o.slot>> \o free_list[o.slab]) < Capacity[o.cache]
           <=> Taken(o.cache, o.slab) \ {o.slot} # {}
<1> DEFINE T == Taken(o.cache, o.slab)
<1>1. /\ o.cache \in Caches /\ o.slab \in Frames /\ o.slot \in 1 .. Capacity[o.cache]
      /\ free_list \in [Frames -> Seq(Nat)] /\ o.slot \in T
  BY StateTypes, ObjectsExist, SlabParts DEF Taken, HeldInSlabs
<1>2. PICK k \in DOMAIN slabs[o.cache] : slabs[o.cache][k] = o.slab
  BY SlabParts DEF HeldInSlabs
<1>3. Exact(o.cache, free_list[o.slab], T)
  BY <1>1, <1>2, SlabParts DEF ListsExact
<1>4. free_list[o.slab] \in Seq(Nat) /\ T \subseteq 1 .. Capacity[o.cache]
  BY <1>1, TakenTypes
<1> HIDE DEF T
<1> PICK list : list = <<o.slot>> \o free_list[o.slab]
  OBVIOUS
<1>5. list \in Seq(Nat) /\ Exact(o.cache, list, T \ {o.slot})
  BY <1>1, <1>3, <1>4, ExactPush
<1>6. Len(list) < Capacity[o.cache] <=> T \ {o.slot} # {}
  BY <1>1, <1>4, <1>5, ExactLength
<1> QED BY <1>6 DEF T

(* slab_free of the last object of a slab: the slab leaves the list *)
LEMMA SlabFreeUnlinked ==
  ASSUME TypeOK, SlabInv, SlabsOnce, call.at # "slab_alloc",
         NEW o \in held, Taken(o.cache, o.slab) \ {o.slot} = {},
         SlabFree(o)
  PROVE  /\ PmmFree(o.slab)
         /\ slabs' \in [Caches -> Seq(Frames)] /\ free_list' \in [Frames -> Seq(Nat)]
         /\ SlabFrames' = SlabFrames \ {o.slab} /\ SlabsOnce' /\ SlabInv'
<1> DEFINE c == o.cache
           s == o.slab
           x == o.slot
           After(e, r) == {q.slot : q \in {y \in held' : y.cache = e /\ y.slab = r}}
           line == slabs[c]
<1>0. /\ held' = held \ {o} /\ PmmFree(s)
      /\ free_list' = [free_list EXCEPT ![s] = <<>>]
      /\ \E k \in DOMAIN line :
           /\ line[k] = s
           /\ slabs' = [slabs EXCEPT ![c] =
                SubSeq(line, 1, k - 1) \o SubSeq(line, k + 1, Len(line))]
  BY LastOfSlab, Zenon DEF SlabFree
<1>k. PICK k \in DOMAIN line :
      /\ line[k] = s
      /\ slabs' = [slabs EXCEPT ![c] =
           SubSeq(line, 1, k - 1) \o SubSeq(line, k + 1, Len(line))]
  BY <1>0
<1>1. /\ c \in Caches /\ s \in Frames /\ x \in 1 .. Capacity[c]
      /\ free_list \in [Frames -> Seq(Nat)] /\ slabs \in [Caches -> Seq(Frames)]
  BY StateTypes, ObjectsExist, SlabParts DEF HeldInSlabs
<1>2. line \in Seq(Frames) /\ Len(line) \in Nat /\ DOMAIN line = 1 .. Len(line)
      /\ k \in DOMAIN line /\ line[k] = s /\ s \in SlabFrames
  <2>1. line \in Seq(Frames)
    BY <1>1
  <2>2. Len(line) \in Nat /\ DOMAIN line = 1 .. Len(line)
    <3> HIDE DEF line
    <3> QED BY <2>1, LenProperties
  <2> QED BY <1>1, <1>k, <2>1, <2>2, SlabMembers
<1>3. PICK new : new = Without(line, k)
  OBVIOUS
<1>n. /\ new \in Seq(Frames) /\ DOMAIN new = 1 .. Len(line) - 1
      /\ \A j \in DOMAIN new : \/ j < k /\ j \in DOMAIN line /\ new[j] = line[j]
                               \/ j >= k /\ j + 1 \in DOMAIN line /\ new[j] = line[j + 1]
      /\ \A j \in DOMAIN line : j # k => \E l \in DOMAIN new : new[l] = line[j]
  <2> PICK old : old = line
    OBVIOUS
  <2>1. old \in Seq(Frames) /\ k \in DOMAIN old /\ new = Without(old, k)
    BY <1>2, <1>3
  <2> HIDE DEF line
  <2>2. /\ new \in Seq(Frames) /\ DOMAIN new = 1 .. Len(old) - 1
        /\ \A j \in DOMAIN new : \/ j < k /\ j \in DOMAIN old /\ new[j] = old[j]
                                 \/ j >= k /\ j + 1 \in DOMAIN old /\ new[j] = old[j + 1]
        /\ \A j \in DOMAIN old : j # k => \E l \in DOMAIN new : new[l] = old[j]
    BY ONLY <2>1, RemoveSeq
  <2> QED BY <2>2
<1>4. /\ slabs' \in [Caches -> Seq(Frames)] /\ slabs'[c] = new
      /\ \A e \in Caches : e # c => slabs'[e] = slabs[e]
  <2>1. slabs' = [slabs EXCEPT ![c] = new]
    BY <1>k, <1>3 DEF Without
  <2> HIDE DEF c
  <2> QED BY <1>1, <1>n, <2>1
<1>5. /\ free_list' \in [Frames -> Seq(Nat)]
      /\ \A r \in Frames : r # s => free_list'[r] = free_list[r]
  BY <1>0, <1>1
<1>6. \A e, r : After(e, r) = IF e = c /\ r = s THEN Taken(e, r) \ {x} ELSE Taken(e, r)
  BY <1>0, TakenLess
<1>7. Taken(c, s) \subseteq {x}
  OBVIOUS
<1> HIDE DEF After, line, c, s, x
<1>8. ASSUME NEW e \in Caches, NEW j \in DOMAIN slabs'[e]
      PROVE  \E l \in DOMAIN slabs[e] : /\ slabs'[e][j] = slabs[e][l] /\ slabs[e][l] # s
                                        /\ slabs[e][l] \in Frames
                                        /\ e = c => l = IF j < k THEN j ELSE j + 1
  <2>1. CASE e = c
    <3>1. PICK l \in DOMAIN line : /\ new[j] = line[l] /\ l # k
                                   /\ l = IF j < k THEN j ELSE j + 1
      <4>1. j \in DOMAIN new /\ j \in Nat /\ k \in Nat
        BY <1>2, <1>n, <1>4, <2>1
      <4> QED BY <1>n, <4>1
    <3>2. line[l] # s
      <4>1. c \in Caches /\ k \in DOMAIN slabs[c] /\ l \in DOMAIN slabs[c]
        BY <1>1, <1>2, <3>1 DEF line
      <4>2. slabs[c][l] = slabs[c][k] => l = k
        BY <4>1, Zenon DEF SlabsOnce
      <4> QED BY <1>2, <3>1, <4>2 DEF line
    <3>3. line[l] \in Frames
      BY <1>1, SlabMembers DEF line
    <3> QED BY <1>4, <2>1, <3>1, <3>2, <3>3 DEF line
  <2>2. CASE e # c
    <3>1. slabs'[e] = slabs[e]
      BY <1>4, <2>2
    <3>2. slabs[e][j] # s
      <4>1. c \in Caches /\ k \in DOMAIN slabs[c] /\ j \in DOMAIN slabs[e]
        BY <1>1, <1>2, <3>1 DEF line
      <4>2. slabs[e][j] = slabs[c][k] => e = c
        BY <4>1, Zenon DEF SlabsOnce
      <4> QED BY <1>2, <2>2, <4>2 DEF line
    <3>3. slabs[e][j] \in Frames
      BY <3>1, SlabMembers
    <3> QED BY <2>2, <3>1, <3>2, <3>3
  <2> QED BY <2>1, <2>2
<1>9. ASSUME NEW e \in Caches, NEW l \in DOMAIN slabs[e], slabs[e][l] # s
      PROVE  \E j \in DOMAIN slabs'[e] : slabs'[e][j] = slabs[e][l]
  <2>1. CASE e = c
    <3>1. l \in DOMAIN line /\ l # k /\ line[l] = slabs[e][l]
      BY <1>2, <1>9, <2>1 DEF line
    <3>2. \E j \in DOMAIN new : new[j] = line[l]
      BY <1>n, <3>1
    <3> QED BY <1>4, <2>1, <3>1, <3>2
  <2>2. CASE e # c
    BY <1>4, <2>2
  <2> QED BY <2>1, <2>2
<1>10. SlabFrames' = SlabFrames \ {s}
  <2>1. ASSUME NEW r \in SlabFrames' PROVE r \in SlabFrames \ {s}
    <3>1. PICK e \in Caches : \E j \in DOMAIN slabs'[e] : r = slabs'[e][j]
      BY DEF SlabFrames
    <3>2. PICK j \in DOMAIN slabs'[e] : r = slabs'[e][j]
      BY <3>1
    <3> QED BY <1>8, <3>2, SlabMembers
  <2>2. ASSUME NEW r \in SlabFrames, r # s PROVE r \in SlabFrames'
    <3>1. PICK e \in Caches : \E l \in DOMAIN slabs[e] : r = slabs[e][l]
      BY SlabMembers
    <3>2. PICK l \in DOMAIN slabs[e] : r = slabs[e][l]
      BY <3>1
    <3>3. \E j \in DOMAIN slabs'[e] : r = slabs'[e][j]
      BY <1>9, <2>2, <3>2
    <3> QED BY <3>3 DEF SlabFrames
  <2> QED BY <2>1, <2>2
<1>11. SlabsOnce'
  <2> SUFFICES ASSUME NEW d \in Caches, NEW e \in Caches,
                      NEW i \in DOMAIN slabs'[d], NEW j \in DOMAIN slabs'[e],
                      slabs'[d][i] = slabs'[e][j]
               PROVE  d = e /\ i = j
    BY DEF SlabsOnce
  <2>1. PICK l \in DOMAIN slabs[d] : /\ slabs'[d][i] = slabs[d][l]
                                     /\ d = c => l = IF i < k THEN i ELSE i + 1
    BY <1>8
  <2>2. PICK m \in DOMAIN slabs[e] : /\ slabs'[e][j] = slabs[e][m]
                                     /\ e = c => m = IF j < k THEN j ELSE j + 1
    BY <1>8
  <2>3. slabs[d][l] = slabs[e][m]
    BY <2>1, <2>2
  <2>4. d = e /\ l = m
    BY <2>3 DEF SlabsOnce
  <2>5. CASE d = c
    <3>1. i \in Nat /\ j \in Nat /\ k \in Nat
      BY <1>2, <1>n, <1>4, <2>4, <2>5
    <3> QED BY <2>1, <2>2, <2>4, <2>5, <3>1
  <2>6. CASE d # c
    <3>1. slabs'[d] = slabs[d] /\ slabs'[e] = slabs[e] /\ d = e
      BY <1>4, <2>4, <2>6
    <3>2. slabs[d][i] = slabs[e][j] /\ i \in DOMAIN slabs[d] /\ j \in DOMAIN slabs[e]
      BY <3>1
    <3>3. slabs[d][i] = slabs[e][j] => d = e /\ i = j
      BY <3>2 DEF SlabsOnce
    <3> QED BY <3>1, <3>2, <3>3
  <2> QED BY <2>5, <2>6
<1>12. ASSUME NEW e \in Caches, NEW j \in DOMAIN slabs'[e]
       PROVE  /\ Exact(e, free_list'[slabs'[e][j]], After(e, slabs'[e][j]))
              /\ After(e, slabs'[e][j]) # {}
  <2>1. PICK l \in DOMAIN slabs[e] : /\ slabs'[e][j] = slabs[e][l] /\ slabs[e][l] # s
                                     /\ slabs[e][l] \in Frames
    BY <1>8
  <2>2. /\ Exact(e, free_list[slabs[e][l]], Taken(e, slabs[e][l]))
        /\ Taken(e, slabs[e][l]) # {}
    BY SlabParts, NoEmptySlab DEF ListsExact
  <2> QED BY <1>5, <1>6, <2>1, <2>2
<1>13. ListsExact'
  BY <1>12 DEF ListsExact, Taken, After
<1>14. FreshFirst'
  BY <1>12 DEF FreshFirst, Taken, After
<1>15. HeldInSlabs'
  <2> SUFFICES ASSUME NEW q \in held, q # o
               PROVE  \E j \in DOMAIN slabs'[q.cache] : slabs'[q.cache][j] = q.slab
    BY <1>0, SlabParts DEF HeldInSlabs
  <2>1. q \in Objects /\ q.cache \in Caches
    BY StateTypes, ObjectsExist
  <2>2. PICK l \in DOMAIN slabs[q.cache] : slabs[q.cache][l] = q.slab
    BY SlabParts DEF HeldInSlabs
  <2>3. q.slab # s
    <3> SUFFICES ASSUME q.slab = s PROVE FALSE
      OBVIOUS
    <3>1. q.cache = c
      <4>1. c \in Caches /\ k \in DOMAIN slabs[c] /\ slabs[c][k] = slabs[q.cache][l]
        BY <1>1, <1>2, <2>2 DEF line
      <4> QED BY <2>1, <4>1, Zenon DEF SlabsOnce
    <3>2. q.slot \in Taken(c, s) /\ o.slot \in Taken(c, s)
      BY <3>1 DEF Taken, c, s
    <3>3. q.slot = o.slot
      BY <1>7, <3>2 DEF x
    <3>4. /\ q = [cache |-> q.cache, slab |-> q.slab, slot |-> q.slot]
          /\ o = [cache |-> o.cache, slab |-> o.slab, slot |-> o.slot]
      BY <2>1, StateTypes, ObjectsExist
    <3> QED BY <3>1, <3>3, <3>4 DEF c, s
  <2> QED BY <1>9, <2>1, <2>2, <2>3
<1>16. SlabInv'
  BY <1>13, <1>14, <1>15, Zenon DEF SlabInv
<1> QED BY <1>0, <1>4, <1>5, <1>10, <1>11, <1>16 DEF s

(* slab_free, whatever is left of the slab *)
LEMMA SlabFreed ==
  ASSUME Good, call.at # "slab_alloc", NEW o \in held, SlabFree(o),
         UNCHANGED paging, InHand = {}, InHand' = {}
  PROVE  /\ bitmap' \subseteq Frames /\ search_hint' \in 0 .. BitmapSize - 1
         /\ slabs' \in [Caches -> Seq(Frames)] /\ free_list' \in [Frames -> Seq(Nat)]
         /\ held' = held \ {o} /\ SlabFrames' \subseteq SlabFrames
         /\ OwnersInv' /\ SlabInv'
<1> USE GoodParts
<1> DEFINE s == o.slab
<1>1. /\ mapping' = mapping /\ page_directory' = page_directory
  BY Zenon DEF paging
<1>2. /\ held' = held \ {o}
      /\ Len(<<o.slot>> \o free_list[s]) < Capacity[o.cache] =>
           /\ free_list' = [free_list EXCEPT ![s] = <<o.slot>> \o free_list[s]]
           /\ slabs' = slabs /\ UNCHANGED frames
  BY Zenon DEF SlabFree
<1>3. SlabsOnce
  BY OwnersParts
<1>4. CASE Taken(o.cache, s) \ {o.slot} # {}
  <2>1. /\ free_list' = [free_list EXCEPT ![s] = <<o.slot>> \o free_list[s]]
        /\ slabs' = slabs /\ UNCHANGED frames
    BY <1>2, <1>4, LastOfSlab, Zenon
  <2>2. free_list' \in [Frames -> Seq(Nat)] /\ SlabInv'
    BY <1>2, <1>3, <1>4, <2>1, SlabFreePushed
  <2>3. /\ bitmap' \subseteq Frames /\ search_hint' \in 0 .. BitmapSize - 1
        /\ bitmap' = bitmap
    BY <2>1, SameBitmap
  <2>4. OwnersInv'
    <3>1. \A p \in LargeBase .. StackLimit : mapping'[p] = mapping[p]
      BY <1>1, Zenon
    <3> QED BY <1>1, <2>1, <2>3, <3>1, OwnersStay, Zenon
  <2>5. slabs' \in [Caches -> Seq(Frames)] /\ SlabFrames' = SlabFrames
    BY <2>1, StateTypes, SameSlabs, Zenon
  <2> QED BY <1>2, <2>2, <2>3, <2>4, <2>5, Zenon
<1>5. CASE Taken(o.cache, s) \ {o.slot} = {}
  <2>1. /\ PmmFree(s)
        /\ slabs' \in [Caches -> Seq(Frames)] /\ free_list' \in [Frames -> Seq(Nat)]
        /\ SlabFrames' = SlabFrames \ {s} /\ SlabsOnce' /\ SlabInv'
    BY <1>3, <1>5, SlabFreeUnlinked
  <2>2. s \in SlabFrames /\ s \in Frames
    <3>1. s \in SlabFrames
      BY SlabMembers
    <3>2. o \in Objects
      BY StateTypes
    <3> QED BY <3>1, <3>2, ObjectsExist
  <2>3. /\ bitmap' \subseteq Frames /\ search_hint' \in 0 .. BitmapSize - 1
        /\ bitmap' = bitmap \ {s}
    BY <2>1, <2>2, FreeTypes
  <2>4. OwnersInv'
    <3>1. Tables' = Tables /\ TablesOnce' /\ PageFrames' = PageFrames /\ PagesOnce'
      BY <1>1, SameTables, SamePageFrames, OwnersParts, Zenon
    <3>2. /\ Partition(Tables, SlabFrames, PageFrames, InHand, bitmap \ Reserved)
          /\ Reserved \subseteq bitmap
      BY OwnersParts
    <3> HIDE DEF s
    <3>3. /\ Partition(Tables, SlabFrames \ {s}, PageFrames, InHand, (bitmap \ {s}) \ Reserved)
          /\ Reserved \subseteq bitmap \ {s}
      BY <2>2, <3>2 DEF Partition
    <3>4. /\ Partition(Tables', SlabFrames', PageFrames', InHand', bitmap' \ Reserved)
          /\ Reserved \subseteq bitmap'
      BY <2>1, <2>3, <3>1, <3>3, Zenon
    <3> QED BY <2>1, <3>1, <3>4, OwnersNext
  <2>5. SlabFrames' \subseteq SlabFrames
    BY <2>1
  <2> QED BY <1>2, <2>1, <2>3, <2>4, <2>5, Zenon
<1> QED BY <1>4, <1>5

LEMMA KfreeKeeps ==
  ASSUME Good, Kfree
  PROVE  Good'
<1> USE GoodParts
<1>1. PICK o \in held : o.cache \in HeapCaches /\ SlabFree(o)
  BY Zenon DEF Kfree
<1>2. /\ call.at = "idle"
      /\ UNCHANGED <<paging, regions, blocks, threads, call, exhausted, panic>>
  BY Zenon DEF Kfree, At
<1>3. /\ mapping' = mapping /\ page_directory' = page_directory
      /\ next_large_vaddr' = next_large_vaddr /\ next_stack_vaddr' = next_stack_vaddr
      /\ blocks' = blocks /\ threads' = threads /\ call' = call
      /\ exhausted' = exhausted /\ panic' = panic
  BY <1>2, Zenon DEF paging, regions
<1>4. InHand = {} /\ InHand' = {}
  BY <1>2, <1>3 DEF CallInv, Holding, InHand
<1>5. /\ bitmap' \subseteq Frames /\ search_hint' \in 0 .. BitmapSize - 1
      /\ slabs' \in [Caches -> Seq(Frames)] /\ free_list' \in [Frames -> Seq(Nat)]
      /\ held' = held \ {o} /\ SlabFrames' \subseteq SlabFrames
      /\ OwnersInv' /\ SlabInv'
  BY <1>1, <1>2, <1>4, SlabFreed
<1>6. TypeOK' /\ ~panic'
  <2>1. held' \subseteq Objects
    BY <1>5, StateTypes
  <2>2. TypeOK'
    BY <1>3, <1>5, <2>1, Zenon DEF TypeOK
  <2> QED BY <1>3, <2>2, Zenon
<1>7. CallInv'
  BY <1>2, <1>3 DEF CallInv, Growing, Holding, OnPages
<1>8. ~Stacking /\ ~Blocking /\ ~Stacking' /\ ~Blocking'
  BY <1>2, <1>3 DEF Stacking, Blocking
<1>9. AllThreads = threads /\ AllThreads' = threads /\ AllBlocks' = AllBlocks
  BY <1>3, <1>8, Zenon DEF AllThreads, AllBlocks
<1>10. ThreadsInv'
  <2>1. \A t \in AllThreads' : t.header \in held'
    <3>1. \A t \in threads : t.header \in held /\ t.header.cache = ThreadPool
      BY <1>9, Zenon DEF ThreadsInv, StackOf
    <3>2. o.cache # ThreadPool
      BY <1>1, RegionAssumption
    <3> QED BY <1>5, <1>9, <3>1, <3>2
  <2>2. next_stack_vaddr' \in Nat /\ next_stack_vaddr <= next_stack_vaddr'
    BY <1>3, StateTypes
  <2> QED BY <1>8, <1>9, <2>1, <2>2, ThreadsStay
<1>11. BlocksInv'
  <2>1. next_large_vaddr' \in Nat /\ next_large_vaddr <= next_large_vaddr'
    BY <1>3, StateTypes
  <2> QED BY <1>8, <1>9, <2>1, BlocksStay
<1>12. BackedInv'
  <2>1. \A p : (OnStack(p)' <=> OnStack(p)) /\ (InBlock(p)' <=> InBlock(p))
    BY <1>3, <1>8, SamePages
  <2>2. call'.at \notin {"large", "map_large"}
    BY <1>2, <1>3
  <2> QED BY <1>3, <1>5, <2>1, <2>2, BackedStay
<1> QED BY <1>5, <1>6, <1>7, <1>10, <1>11, <1>12, GoodNext

LEMMA FreeDoneKeeps ==
  ASSUME Good, FreeDone
  PROVE  Good'
<1> USE GoodParts
<1>1. /\ call.at = "free" /\ call.i = call.pages /\ call' = Idle
      /\ UNCHANGED <<paging, regions, blocks, threads, exhausted, panic>>
  BY Zenon DEF FreeDone, At
<1>2. /\ call.object = NoObject => UNCHANGED <<frames, caches, held>>
      /\ call.object # NoObject => SlabFree(call.object)
  BY Zenon DEF FreeDone
<1>3. /\ mapping' = mapping /\ page_directory' = page_directory
      /\ next_large_vaddr' = next_large_vaddr /\ next_stack_vaddr' = next_stack_vaddr
      /\ blocks' = blocks /\ threads' = threads
      /\ exhausted' = exhausted /\ panic' = panic
  BY <1>1, Zenon DEF paging, regions
<1>4. call' \in Calls /\ call'.frame = NoFrame /\ call'.at = "idle"
  BY <1>1, IdleTypes
<1>5. InHand = {} /\ InHand' = {}
  BY <1>1, <1>4 DEF CallInv, Holding, InHand
<1>6. ~Stacking' /\ ~Blocking'
  BY <1>4 DEF Stacking, Blocking
<1>7. /\ AllThreads' = threads /\ AllThreads' \subseteq AllThreads
      /\ AllBlocks' = blocks /\ AllBlocks' \subseteq AllBlocks
  BY <1>3, <1>6, Zenon DEF AllThreads, AllBlocks
<1>8. /\ bitmap' \subseteq Frames /\ search_hint' \in 0 .. BitmapSize - 1
      /\ slabs' \in [Caches -> Seq(Frames)] /\ free_list' \in [Frames -> Seq(Nat)]
      /\ held' \subseteq Objects /\ SlabFrames' \subseteq SlabFrames
      /\ OwnersInv' /\ SlabInv' /\ \A t \in AllThreads' : t.header \in held'
  <2>1. CASE call.object = NoObject
    <3>1. /\ UNCHANGED <<frames, caches, held>> /\ slabs' = slabs /\ free_list' = free_list
          /\ held' = held
      BY <1>2, <2>1, Zenon DEF caches
    <3>2. /\ bitmap' \subseteq Frames /\ search_hint' \in 0 .. BitmapSize - 1
          /\ bitmap' = bitmap
      BY <3>1, SameBitmap
    <3>3. /\ slabs' \in [Caches -> Seq(Frames)] /\ free_list' \in [Frames -> Seq(Nat)]
          /\ held' \subseteq Objects /\ SlabFrames' = SlabFrames
      BY <3>1, StateTypes, SameSlabs, Zenon
    <3>4. OwnersInv'
      <4>1. \A p \in LargeBase .. StackLimit : mapping'[p] = mapping[p]
        BY <1>3, Zenon
      <4> QED BY <1>3, <1>5, <3>1, <3>2, <4>1, OwnersStay, Zenon
    <3>5. SlabInv'
      BY <1>1, <3>1, SlabsStay
    <3>6. \A t \in AllThreads' : t.header \in held'
      BY <1>7, <3>1, Zenon DEF ThreadsInv, StackOf
    <3> QED BY <3>2, <3>3, <3>4, <3>5, <3>6, Zenon
  <2>2. CASE call.object # NoObject
    <3> DEFINE o == call.object
    <3>1. Stacking /\ CallThread \in AllThreads /\ CallThread.header = o
      <4>1. Stacking
        BY <1>1, <2>2 DEF Stacking
      <4>2. CallThread \in AllThreads
        BY <4>1, Zenon DEF AllThreads
      <4>3. CallThread.header = o
        BY DEF CallThread
      <4> QED BY <4>1, <4>2, <4>3
    <3>2. o \in held
      BY <3>1, Zenon DEF ThreadsInv, StackOf
    <3>3. SlabFree(o)
      BY <1>2, <2>2, Zenon
    <3>4. call.at # "slab_alloc" /\ UNCHANGED paging
      BY <1>1, Zenon
    <3> HIDE DEF o
    <3>5. /\ bitmap' \subseteq Frames /\ search_hint' \in 0 .. BitmapSize - 1
          /\ slabs' \in [Caches -> Seq(Frames)] /\ free_list' \in [Frames -> Seq(Nat)]
          /\ held' = held \ {o} /\ SlabFrames' \subseteq SlabFrames
          /\ OwnersInv' /\ SlabInv'
      BY <1>5, <3>2, <3>3, <3>4, SlabFreed
    <3>6. held' \subseteq Objects
      BY <3>5, StateTypes
    <3>7. ASSUME NEW t \in AllThreads' PROVE t.header \in held'
      <4>1. t \in threads /\ t \in AllThreads
        BY <1>7, Zenon
      <4>2. t.header \in held
        BY <4>1, Zenon DEF ThreadsInv, StackOf
      <4>3. t # CallThread
        BY <3>1, <4>1, Zenon DEF ThreadsInv
      <4>4. t.header # CallThread.header
        BY <3>1, <4>1, <4>3, Zenon DEF ThreadsInv, StacksApart
      <4> QED BY <3>1, <3>5, <4>2, <4>4
    <3> QED BY <3>5, <3>6, <3>7, Zenon
  <2> QED BY <2>1, <2>2
<1>9. TypeOK' /\ ~panic'
  <2>1. TypeOK'
    BY <1>3, <1>4, <1>8, Zenon DEF TypeOK
  <2> QED BY <1>3, <2>1, Zenon
<1>10. CallInv'
  BY <1>4 DEF CallInv, Growing, Holding, OnPages
<1>11. ThreadsInv'
  <2>1. next_stack_vaddr' \in Nat /\ next_stack_vaddr <= next_stack_vaddr'
    BY <1>3, StateTypes
  <2> QED BY <1>6, <1>7, <1>8, <2>1, ThreadsStay
<1>12. BlocksInv'
  <2>1. next_large_vaddr' \in Nat /\ next_large_vaddr <= next_large_vaddr'
    BY <1>3, StateTypes
  <2> QED BY <1>6, <1>7, <2>1, BlocksStay
<1>13. BackedInv'
  <2>1. \A p \in Frames : ~InCall(p)
    BY <1>1, CallTypes, FramesAreNumbers DEF InCall
  <2>2. \A p \in Frames : (OnStack(p)' <=> OnStack(p)) /\ (InBlock(p)' <=> InBlock(p))
    BY <1>3, <1>6, <2>1, Zenon DEF OnStack, InBlock
  <2>3. \A p \in StackBase .. StackLimit : p \in Frames
    BY FramesAreNumbers, Regions
  <2>4. \A p \in StackBase .. StackLimit : mapping'[p] # Unmapped <=> OnStack(p)'
    BY <1>3, <2>2, <2>3, Zenon DEF BackedInv
  <2>5. \A p \in Frames : InBlock(p)' => mapping'[p] # Unmapped
    BY <1>3, <2>2, Zenon DEF BackedInv
  <2>6. \A p \in LargeBase .. StackBase - 1 : mapping'[p] # Unmapped => p < next_large_vaddr'
    BY <1>3, Zenon DEF BackedInv
  <2>7. call'.at \notin {"large", "map_large"}
    BY <1>4
  <2>8. \A q \in SlabFrames' : mapping'[q] = q
    BY <1>3, <1>8, Zenon DEF BackedInv
  <2> QED BY <2>4, <2>5, <2>6, <2>7, <2>8, Zenon DEF BackedInv
<1> QED BY <1>8, <1>9, <1>10, <1>11, <1>12, <1>13, GoodNext

-----------------------------------------------------------------------------
(* The steps that never happen while nothing went unnoticed *)

LEMMA NoSlabFault ==
  ASSUME Good
  PROVE  ~SlabFault
<1> SUFFICES ASSUME call.at = "slab_create", mapping[call.frame] = Unmapped PROVE FALSE
  BY Zenon DEF SlabFault, At
<1>1. CallInv
  BY GoodParts
<1>2. call.frame \in Frames /\ mapping[call.frame] = call.frame
  BY <1>1, GoodParts, CallTypes DEF CallInv, Holding
<1> QED BY <1>2, FramesAreNumbers

LEMMA NoLargeFault ==
  ASSUME Good
  PROVE  ~LargeFault
<1> USE GoodParts
<1> SUFFICES ASSUME call.at = "large", call.i = call.pages, mapping[call.base] = Unmapped
             PROVE  FALSE
  BY Zenon DEF LargeFault, At
<1>1. call.pages >= 1
  BY DEF CallInv, OnPages
<1>2. Blocking /\ InCall(call.base)
  BY <1>1, CallTypes DEF Blocking, InCall
<1>3. InBlock(call.base) /\ call.base \in Frames
  BY <1>2, CallTypes, Zenon DEF InBlock
<1> QED BY <1>3, Zenon DEF BackedInv

LEMMA NoThreadFault ==
  ASSUME Good
  PROVE  ~ThreadFault
<1> USE GoodParts
<1> DEFINE p == call.base + call.pages - 1
<1> SUFFICES ASSUME call.at = "thread", call.i = call.pages, mapping[p] = Unmapped
             PROVE  FALSE
  BY Zenon DEF ThreadFault, At
<1>1. call.pages >= 1 /\ call.pages \in Nat /\ call.base \in Nat
  BY CallTypes DEF CallInv, OnPages
<1>2. Stacking
  BY DEF Stacking
<1>3. call.base >= StackBase /\ call.base + call.pages < next_stack_vaddr
  BY <1>2, StacksOfGood, CallArea
<1>4. next_stack_vaddr \in StackBase .. StackLimit
  BY StateTypes
<1>5. p \in StackBase .. StackLimit
  BY <1>1, <1>3, <1>4, Regions
<1>6. InCall(p)
  BY <1>1 DEF InCall
<1> HIDE DEF p
<1>7. OnStack(p)
  BY <1>2, <1>6, Zenon DEF OnStack
<1> QED BY <1>5, <1>7, Zenon DEF BackedInv

-----------------------------------------------------------------------------
(* The invariant *)

LEMMA InitGood ==
  ASSUME Init
  PROVE  Good
<1>1. /\ bitmap = Reserved /\ search_hint = 0
      /\ page_directory = [d \in Directories |-> IF d = 0 THEN BootTable ELSE Absent]
      /\ mapping = [p \in Frames |-> IF DirectoryOf(p) = 0 THEN p ELSE Unmapped]
      /\ slabs = [c \in Caches |-> <<>>]
      /\ free_list = [f \in Frames |-> <<>>]
      /\ next_large_vaddr = LargeBase /\ next_stack_vaddr = StackBase
      /\ held = {} /\ blocks = {} /\ threads = {} /\ call = Idle
      /\ exhausted = FALSE /\ panic = FALSE
  BY Zenon DEF Init, Reserved
<1>2. call \in Calls /\ call.at = "idle" /\ call.frame = NoFrame
  BY <1>1, IdleTypes
<1>3. ~Stacking /\ ~Blocking
  BY <1>2 DEF Stacking, Blocking
<1>4. AllThreads = {} /\ AllBlocks = {}
  BY <1>1, <1>3 DEF AllThreads, AllBlocks
<1>5. TypeOK
  <2>1. bitmap \subseteq Frames
    BY <1>1 DEF Reserved, InitialBitmap, FreeRegion, ReserveRegion
  <2>2. search_hint \in 0 .. BitmapSize - 1
    BY <1>1, BitmapAssumption
  <2>3. page_directory \in [Directories -> Frames \cup {Absent, BootTable}]
    BY <1>1
  <2>4. mapping \in [Frames -> Frames \cup {Unmapped}]
    BY <1>1
  <2>5. slabs \in [Caches -> Seq(Frames)]
    BY <1>1
  <2>6. free_list \in [Frames -> Seq(Nat)]
    BY <1>1
  <2>7. next_large_vaddr \in LargeBase .. LargeEnd /\ next_stack_vaddr \in StackBase .. StackLimit
    BY <1>1, Regions
  <2>8. /\ held \subseteq Objects /\ blocks \subseteq Blocks
        /\ threads \subseteq [header : Objects, mem : Frames, stack_pages : Nat]
    BY <1>1
  <2>9. exhausted \in BOOLEAN /\ panic \in BOOLEAN
    BY <1>1
  <2> QED BY <1>2, <2>1, <2>2, <2>3, <2>4, <2>5, <2>6, <2>7, <2>8, <2>9, Zenon DEF TypeOK
<1>6. CallInv
  BY <1>2 DEF CallInv, Growing, Holding, OnPages
<1>7. ThreadsInv /\ BlocksInv
  BY <1>3, <1>4 DEF ThreadsInv, BlocksInv
<1>8. \A p \in LargeBase .. StackLimit : mapping[p] = Unmapped
  <2> SUFFICES ASSUME NEW p \in LargeBase .. StackLimit PROVE mapping[p] = Unmapped
    OBVIOUS
  <2>1. p \in Frames /\ p \in Nat /\ p >= LargeBase
    BY Regions, FramesAreNumbers
  <2>2. DirectoryOf(p) # 0
    <3>1. /\ p \div TableEntries \in Nat
          /\ p < ((p \div TableEntries) + 1) * TableEntries
      BY <2>1, Division, Sizes
    <3>2. TableEntries \in Nat \ {0} /\ TableEntries <= LargeBase
      BY RegionAssumption
    <3>3. CASE p \div TableEntries = 0
      <4>1. p < (0 + 1) * TableEntries
        BY <3>1, <3>3
      <4> QED BY <2>1, <3>2, <4>1, Regions
    <3> QED BY <3>3 DEF DirectoryOf
  <2> QED BY <1>1, <2>1, <2>2
<1>9. SlabFrames = {} /\ \A c \in Caches : DOMAIN slabs[c] = {}
  BY <1>1 DEF SlabFrames
<1>10. BackedInv
  <2>1. \A p \in StackBase .. StackLimit : mapping[p] = Unmapped
    BY <1>8, Regions
  <2>2. \A p \in LargeBase .. StackBase - 1 : mapping[p] = Unmapped
    BY <1>8, Regions
  <2>3. \A p : ~OnStack(p) /\ ~InBlock(p)
    BY <1>1, <1>3 DEF OnStack, InBlock
  <2>4. call.at \notin {"large", "map_large"}
    BY <1>2
  <2> QED BY <1>9, <2>1, <2>2, <2>3, <2>4, Zenon DEF BackedInv
<1>11. OwnersInv
  <2>1. Tables = {} /\ TablesOnce
    BY <1>1, FramesAreNumbers DEF Tables, TablesOnce
  <2>2. Backed = {} /\ PageFrames = {} /\ PagesOnce
    BY <1>8 DEF Backed, PageFrames, PagesOnce
  <2>3. InHand = {}
    BY <1>2 DEF InHand
  <2>4. SlabsOnce
    BY <1>9 DEF SlabsOnce
  <2>5. bitmap \ Reserved = {} /\ Reserved \subseteq bitmap
    BY <1>1
  <2>6. Partition(Tables, SlabFrames, PageFrames, InHand, bitmap \ Reserved)
    BY <1>9, <2>1, <2>2, <2>3, <2>5 DEF Partition
  <2> QED BY <2>1, <2>2, <2>4, <2>5, <2>6, Zenon DEF OwnersInv
<1>12. SlabInv
  BY <1>1, <1>9 DEF SlabInv, ListsExact, FreshFirst, HeldInSlabs
<1> QED BY <1>1, <1>5, <1>6, <1>7, <1>10, <1>11, <1>12, Zenon DEF Good

(* A failure that went unnoticed is never forgotten. *)
LEMMA ExhaustedStays ==
  ASSUME [Next]_vars, exhausted
  PROVE  exhausted'
<1>1. CASE UNCHANGED vars
  BY <1>1, Zenon DEF vars
<1>2. CASE PagingMap \/ PagingMapNewTable \/ PagingMapGivesUp
  BY <1>2, Zenon DEF PagingMap, PagingMapNewTable, PagingMapGivesUp
<1>3. CASE SlabTake \/ SlabGrow \/ SlabRefuse \/ SlabCreate \/ SlabFault
  BY <1>3, Zenon DEF SlabTake, SlabGrow, SlabRefuse, SlabCreate, SlabFault, PageFault
<1>4. CASE Kmalloc \/ Kfree \/ KmallocLarge \/ LargePage \/ LargeRefuse
  BY <1>4, Zenon DEF Kmalloc, Kfree, KmallocLarge, LargePage, LargeRefuse
<1>5. CASE LargeDone \/ LargeFault \/ KfreeLarge \/ ThreadCreate \/ StackPage
  BY <1>5, Zenon DEF LargeDone, LargeFault, KfreeLarge, ThreadCreate, StackPage, PageFault
<1>6. CASE StackPhantom \/ ThreadReady \/ ThreadFault \/ ThreadDestroy \/ FreePage \/ FreeDone
  BY <1>6, Zenon DEF StackPhantom, ThreadReady, ThreadFault, ThreadDestroy, FreePage,
                     FreeDone, PageFault
<1> QED BY <1>1, <1>2, <1>3, <1>4, <1>5, <1>6, Zenon DEF Next

(* Nothing changes at all. *)
LEMMA StutterKeeps ==
  ASSUME Good, UNCHANGED vars
  PROVE  Good'
<1> USE GoodParts
<1>1. /\ UNCHANGED <<frames, paging, caches, regions, owners, exhausted, panic>>
      /\ call' = call
  BY Zenon DEF vars
<1>2. /\ bitmap' = bitmap /\ search_hint' = search_hint
      /\ mapping' = mapping /\ page_directory' = page_directory
      /\ slabs' = slabs /\ free_list' = free_list
      /\ next_large_vaddr' = next_large_vaddr /\ next_stack_vaddr' = next_stack_vaddr
      /\ held' = held /\ blocks' = blocks /\ threads' = threads
      /\ exhausted' = exhausted /\ panic' = panic
  BY <1>1, Zenon DEF frames, paging, caches, regions, owners
<1>3. TypeOK' /\ ~panic'
  <2>1. TypeOK'
    BY <1>1, <1>2, Zenon DEF TypeOK
  <2> QED BY <1>2, <2>1, Zenon
<1>4. CallInv'
  BY <1>1, <1>2, Zenon DEF CallInv
<1>5. (Stacking' <=> Stacking) /\ (Blocking' <=> Blocking)
  BY <1>1, Zenon DEF Stacking, Blocking
<1>6. AllThreads' = AllThreads /\ AllBlocks' = AllBlocks
  BY <1>1, <1>2, <1>5, SameAreas
<1>7. CallThread' = CallThread /\ CallBlock' = CallBlock
  BY <1>1, Zenon DEF CallThread, CallBlock
<1>8. ThreadsInv'
  BY <1>2, <1>5, <1>6, <1>7, Zenon DEF ThreadsInv, StackOf, StacksApart
<1>9. BlocksInv'
  BY <1>2, <1>5, <1>6, <1>7, Zenon DEF BlocksInv, BlockBelow, BlocksApart
<1>10. SlabFrames' = SlabFrames
  BY <1>2, SameSlabs
<1>11. BackedInv'
  <2>1. \A p : (OnStack(p)' <=> OnStack(p)) /\ (InBlock(p)' <=> InBlock(p))
    BY <1>1, <1>2, <1>5, SamePages
  <2> QED BY <1>1, <1>2, <1>10, <2>1, BackedStay
<1>12. OwnersInv'
  <2>1. InHand' = InHand
    BY <1>1, Zenon DEF InHand
  <2> QED BY <1>2, <2>1, OwnersStay
<1>13. SlabInv'
  <2>1. \A c, s : Taken(c, s)' = Taken(c, s)
    BY <1>2, Zenon DEF Taken
  <2>2. ListsExact'
    BY <1>2, <2>1, SlabParts DEF ListsExact
  <2>3. FreshFirst'
    BY <1>1, <1>2, <2>1, SlabParts, Zenon DEF FreshFirst
  <2>4. HeldInSlabs'
    BY <1>2, SlabParts DEF HeldInSlabs
  <2> QED BY <2>2, <2>3, <2>4, Zenon DEF SlabInv
<1> QED BY <1>3, <1>4, <1>8, <1>9, <1>11, <1>12, <1>13, GoodNext

LEMMA NextKeeps ==
  ASSUME Good, [Next]_vars, ~exhausted'
  PROVE  Good'
<1>1. CASE UNCHANGED vars
  BY <1>1, StutterKeeps
<1>2. CASE PagingMap
  BY <1>2, PagingMapKeeps
<1>3. CASE PagingMapNewTable
  BY <1>3, PagingMapNewTableKeeps
<1>4. CASE PagingMapGivesUp
  BY <1>4, Zenon DEF PagingMapGivesUp
<1>5. CASE SlabTake
  BY <1>5, SlabTakeKeeps
<1>6. CASE SlabGrow
  BY <1>6, SlabGrowKeeps
<1>7. CASE SlabRefuse
  BY <1>7, SlabRefuseKeeps
<1>8. CASE SlabCreate
  BY <1>8, SlabCreateKeeps
<1>9. CASE SlabFault \/ LargeFault \/ ThreadFault
  BY <1>9, NoSlabFault, NoLargeFault, NoThreadFault
<1>10. CASE Kmalloc
  BY <1>10, KmallocKeeps
<1>11. CASE Kfree
  BY <1>11, KfreeKeeps
<1>12. CASE KmallocLarge
  BY <1>12, KmallocLargeKeeps
<1>13. CASE LargePage
  BY <1>13, LargePageKeeps
<1>14. CASE LargeRefuse
  BY <1>14, LargeRefuseKeeps
<1>15. CASE LargeDone
  BY <1>15, LargeDoneKeeps
<1>16. CASE KfreeLarge
  BY <1>16, KfreeLargeKeeps
<1>17. CASE ThreadCreate
  BY <1>17, ThreadCreateKeeps
<1>18. CASE StackPage
  BY <1>18, StackPageKeeps
<1>19. CASE StackPhantom
  BY <1>19, Zenon DEF StackPhantom
<1>20. CASE ThreadReady
  BY <1>20, ThreadReadyKeeps
<1>21. CASE ThreadDestroy
  BY <1>21, ThreadDestroyKeeps
<1>22. CASE FreePage
  BY <1>22, FreePageKeeps
<1>23. CASE FreeDone
  BY <1>23, FreeDoneKeeps
<1> QED BY <1>1, <1>2, <1>3, <1>4, <1>5, <1>6, <1>7, <1>8, <1>9, <1>10, <1>11, <1>12,
           <1>13, <1>14, <1>15, <1>16, <1>17, <1>18, <1>19, <1>20, <1>21, <1>22, <1>23,
           Zenon DEF Next

LEMMA Step ==
  ASSUME IInv, [Next]_vars
  PROVE  IInv'
<1> SUFFICES ASSUME ~exhausted' PROVE Good'
  BY Zenon DEF IInv
<1>1. ~exhausted
  BY ExhaustedStays, Zenon
<1>2. Good
  BY <1>1, Zenon DEF IInv
<1> QED BY <1>2, NextKeeps

(* As long as no failure of pmm_alloc went unnoticed by paging_map or      *)
(* thread_create_sized, whatever calls were made and wherever memory ran   *)
(* out: the areas of blocks and stacks lie apart, just their pages are     *)
(* mapped, every frame has one holder and every slab list is exact.        *)
THEOREM Invariant == Spec => []IInv
<1>1. Init => IInv
  BY InitGood, Zenon DEF IInv
<1>2. IInv /\ [Next]_vars => IInv'
  BY Step
<1> QED BY <1>1, <1>2, PTL DEF Spec

-----------------------------------------------------------------------------
(* What follows from the invariant *)

(* The claims, kind by kind *)
TableClaims == {[by |-> "table", place |-> <<d>>, frame |-> page_directory[d]] :
                  d \in {e \in Directories : page_directory[e] \in Frames}}
SlabClaims == UNION {{[by |-> "slab", place |-> <<c, k>>, frame |-> slabs[c][k]] :
                        k \in DOMAIN slabs[c]} : c \in Caches}
PageClaims == {[by |-> "page", place |-> <<p>>, frame |-> mapping[p]] : p \in Backed}
CallClaims == {[by |-> "call", place |-> <<>>, frame |-> f] : f \in InHand}

(* The claims of a kind are as many as the frames they claim. *)
Distinct(claims, claimed) == /\ {a.frame : a \in claims} = claimed
                             /\ \A a, b \in claims : a.frame = b.frame => a = b

LEMMA ClaimKinds == Claims = TableClaims \cup SlabClaims \cup PageClaims \cup CallClaims
<1> DEFINE T == {[by |-> "table", place |-> <<d>>, frame |-> page_directory[d]] :
                   d \in {e \in Directories : page_directory[e] \in Frames}}
           S == UNION {{[by |-> "slab", place |-> <<c, k>>, frame |-> slabs[c][k]] :
                          k \in DOMAIN slabs[c]} : c \in Caches}
           P == {[by |-> "page", place |-> <<p>>, frame |-> mapping[p]] :
                   p \in {q \in LargeBase .. StackLimit : mapping[q] # Unmapped}}
           C == {[by |-> "call", place |-> <<>>, frame |-> f] :
                   f \in {call.frame} \ {NoFrame}}
<1>1. T = TableClaims /\ S = SlabClaims
  BY DEF TableClaims, SlabClaims
<1>2. P = PageClaims
  BY DEF PageClaims, Backed
<1>3. C = CallClaims
  BY DEF CallClaims, InHand
<1>4. Claims = T \cup S \cup P \cup C
  BY DEF Claims
<1> QED BY <1>1, <1>2, <1>3, <1>4, Zenon

LEMMA TableClaimsOnce ==
  ASSUME TablesOnce
  PROVE  Distinct(TableClaims, Tables)
<1> DEFINE Claim(d) == [by |-> "table", place |-> <<d>>, frame |-> page_directory[d]]
           D == {e \in Directories : page_directory[e] \in Frames}
<1>1. TableClaims = {Claim(d) : d \in D}
  BY DEF TableClaims
<1>2. \A d : Claim(d).frame = page_directory[d]
  OBVIOUS
<1>3. \A d, e \in D : page_directory[d] = page_directory[e] => d = e
  BY DEF TablesOnce
<1>4. Tables = {page_directory[d] : d \in D}
  BY DEF Tables
<1> HIDE DEF Claim, D
<1> QED BY <1>1, <1>2, <1>3, <1>4 DEF Distinct

LEMMA SlabClaimsOnce ==
  ASSUME SlabsOnce
  PROVE  Distinct(SlabClaims, SlabFrames)
<1> DEFINE Claim(c, k) == [by |-> "slab", place |-> <<c, k>>, frame |-> slabs[c][k]]
<1>1. \A a : a \in SlabClaims <=> \E c \in Caches : \E k \in DOMAIN slabs[c] : a = Claim(c, k)
  BY DEF SlabClaims
<1>2. \A f : f \in SlabFrames <=> \E c \in Caches : \E k \in DOMAIN slabs[c] : f = slabs[c][k]
  BY DEF SlabFrames
<1>3. \A c, k : Claim(c, k).frame = slabs[c][k]
  OBVIOUS
<1> HIDE DEF Claim
<1>4. {a.frame : a \in SlabClaims} = SlabFrames
  BY <1>1, <1>2, <1>3
<1>5. ASSUME NEW a \in SlabClaims, NEW b \in SlabClaims, a.frame = b.frame PROVE a = b
  <2>1. PICK c \in Caches : \E k \in DOMAIN slabs[c] : a = Claim(c, k)
    BY <1>1
  <2>2. PICK k \in DOMAIN slabs[c] : a = Claim(c, k)
    BY <2>1
  <2>3. PICK e \in Caches : \E l \in DOMAIN slabs[e] : b = Claim(e, l)
    BY <1>1
  <2>4. PICK l \in DOMAIN slabs[e] : b = Claim(e, l)
    BY <2>3
  <2>5. slabs[c][k] = slabs[e][l]
    BY <1>3, <1>5, <2>2, <2>4
  <2>6. c = e /\ k = l
    BY <2>5 DEF SlabsOnce
  <2> QED BY <2>2, <2>4, <2>6
<1> QED BY <1>4, <1>5 DEF Distinct

LEMMA PageClaimsOnce ==
  ASSUME PagesOnce
  PROVE  Distinct(PageClaims, PageFrames)
<1> DEFINE Claim(p) == [by |-> "page", place |-> <<p>>, frame |-> mapping[p]]
<1>1. PageClaims = {Claim(p) : p \in Backed}
  BY DEF PageClaims
<1>2. \A p : Claim(p).frame = mapping[p]
  OBVIOUS
<1> HIDE DEF Claim
<1> QED BY <1>1, <1>2 DEF Distinct, PagesOnce, PageFrames

LEMMA CallClaimsOnce == Distinct(CallClaims, InHand)
<1> DEFINE Claim(f) == [by |-> "call", place |-> <<>>, frame |-> f]
<1>1. CallClaims = {Claim(f) : f \in InHand}
  BY DEF CallClaims
<1>2. \A f : Claim(f).frame = f
  OBVIOUS
<1> HIDE DEF Claim
<1> QED BY <1>1, <1>2 DEF Distinct

LEMMA GoodOwners ==
  ASSUME Good
  PROVE  /\ \A a, b \in Claims : a.frame = b.frame => a = b
         /\ {a.frame : a \in Claims} = bitmap \ Reserved
<1>1. /\ Distinct(TableClaims, Tables) /\ Distinct(SlabClaims, SlabFrames)
      /\ Distinct(PageClaims, PageFrames) /\ Distinct(CallClaims, InHand)
  BY GoodParts, OwnersParts, TableClaimsOnce, SlabClaimsOnce, PageClaimsOnce, CallClaimsOnce
<1>2. Partition(Tables, SlabFrames, PageFrames, InHand, bitmap \ Reserved)
  BY GoodParts, OwnersParts
<1>3. /\ {a.frame : a \in TableClaims} = Tables
      /\ \A a, b \in TableClaims : a.frame = b.frame => a = b
      /\ {a.frame : a \in SlabClaims} = SlabFrames
      /\ \A a, b \in SlabClaims : a.frame = b.frame => a = b
      /\ {a.frame : a \in PageClaims} = PageFrames
      /\ \A a, b \in PageClaims : a.frame = b.frame => a = b
      /\ {a.frame : a \in CallClaims} = InHand
      /\ \A a, b \in CallClaims : a.frame = b.frame => a = b
  BY <1>1 DEF Distinct
<1>4. ASSUME NEW a \in Claims, NEW b \in Claims, a.frame = b.frame PROVE a = b
  <2>1. /\ a \in TableClaims \/ a \in SlabClaims \/ a \in PageClaims \/ a \in CallClaims
        /\ b \in TableClaims \/ b \in SlabClaims \/ b \in PageClaims \/ b \in CallClaims
    BY ClaimKinds
  <2>2. /\ a \in TableClaims => a.frame \in Tables
        /\ a \in SlabClaims => a.frame \in SlabFrames
        /\ a \in PageClaims => a.frame \in PageFrames
        /\ a \in CallClaims => a.frame \in InHand
        /\ b \in TableClaims => b.frame \in Tables
        /\ b \in SlabClaims => b.frame \in SlabFrames
        /\ b \in PageClaims => b.frame \in PageFrames
        /\ b \in CallClaims => b.frame \in InHand
    BY <1>3
  <2>3. \/ a \in TableClaims /\ b \in TableClaims
        \/ a \in SlabClaims /\ b \in SlabClaims
        \/ a \in PageClaims /\ b \in PageClaims
        \/ a \in CallClaims /\ b \in CallClaims
    BY <1>2, <1>4, <2>1, <2>2 DEF Partition
  <2> QED BY <1>3, <1>4, <2>3
<1>5. {a.frame : a \in Claims} = Tables \cup SlabFrames \cup PageFrames \cup InHand
  BY <1>3, ClaimKinds
<1> QED BY <1>2, <1>4, <1>5 DEF Partition

(* kmalloc, kfree, thread creation and page tables together: every frame   *)
(* pmm_alloc handed out is held by exactly one page table, slab, page of a *)
(* block or stack, or call under way, and what is held was handed out.     *)
THEOREM EveryFrameOneOwner == Spec => []OneOwner
<1>1. IInv => OneOwner
  BY GoodOwners, Zenon DEF IInv, OneOwner
<1> QED BY <1>1, Invariant, PTL

(* Where the pages of stacks and blocks lie. *)
LEMMA LiveAreas ==
  ASSUME TypeOK, StacksLie, BlocksInv
  PROVE  /\ \A t \in threads : \A p \in Pages(t.mem, t.stack_pages) :
              OnStack(p) /\ p \in StackBase .. StackLimit /\ p \in Frames
         /\ \A b \in blocks : \A p \in Pages(b.base, b.pages) :
              InBlock(p) /\ p \in LargeBase .. StackBase - 1 /\ p \in Frames
<1>1. /\ next_large_vaddr \in LargeBase .. LargeEnd /\ next_large_vaddr \in Nat
      /\ next_stack_vaddr \in StackBase .. StackLimit /\ next_stack_vaddr \in Nat
  BY StateTypes
<1>2. ASSUME NEW t \in threads, NEW p \in Pages(t.mem, t.stack_pages)
      PROVE  OnStack(p) /\ p \in StackBase .. StackLimit /\ p \in Frames
  <2>1. t.mem \in Nat /\ t.stack_pages \in Nat
    BY AreaTypes
  <2>2. StackBase <= t.mem /\ t.mem + t.stack_pages < next_stack_vaddr
    BY Zenon DEF StacksLie, StackArea, AllThreads
  <2>3. p \in Nat /\ t.mem <= p /\ p < t.mem + t.stack_pages
    BY <2>1 DEF Pages
  <2>4. OnStack(p)
    BY <2>3, Zenon DEF OnStack
  <2>5. p \in StackBase .. StackLimit /\ p \in 0 .. StackLimit
    BY <1>1, <2>1, <2>2, <2>3, Regions
  <2> QED BY <2>4, <2>5, FramesAreNumbers
<1>3. ASSUME NEW b \in blocks, NEW p \in Pages(b.base, b.pages)
      PROVE  InBlock(p) /\ p \in LargeBase .. StackBase - 1 /\ p \in Frames
  <2>1. b.base \in Nat /\ b.pages \in Nat
    BY AreaTypes
  <2>2. LargeBase <= b.base /\ b.base + b.pages <= next_large_vaddr
    BY Zenon DEF BlocksInv, BlockBelow, AllBlocks
  <2>3. p \in Nat /\ b.base <= p /\ p < b.base + b.pages
    BY <2>1 DEF Pages
  <2>4. InBlock(p)
    BY <2>3, Zenon DEF InBlock
  <2>5. p \in LargeBase .. StackBase - 1 /\ p \in 0 .. StackLimit
    BY <1>1, <2>1, <2>2, <2>3, Regions
  <2> QED BY <2>4, <2>5, FramesAreNumbers
<1> QED BY <1>2, <1>3

LEMMA GoodNeverFaults ==
  ASSUME Good
  PROVE  /\ ~panic
         /\ \A s \in SlabFrames : mapping[s] = s
         /\ \A p \in LivePages : mapping[p] # Unmapped
<1> USE GoodParts
<1>1. \A s \in SlabFrames : mapping[s] = s
  BY Zenon DEF BackedInv
<1>2. ASSUME NEW p \in LivePages PROVE mapping[p] # Unmapped
  <2>1. CASE p \in SlabFrames
    <3>1. mapping[p] = p /\ p \in Frames
      BY <1>1, <2>1, SlabMembers
    <3> QED BY <3>1, FramesAreNumbers
  <2>2. CASE \E b \in blocks : p \in Pages(b.base, b.pages)
    <3>1. InBlock(p) /\ p \in Frames
      BY <2>2, StacksOfGood, LiveAreas
    <3> QED BY <3>1, Zenon DEF BackedInv
  <2>3. CASE \E t \in threads : p \in Pages(t.mem, t.stack_pages)
    <3>1. OnStack(p) /\ p \in StackBase .. StackLimit
      BY <2>3, StacksOfGood, LiveAreas
    <3> QED BY <3>1, Zenon DEF BackedInv
  <2>4. \/ p \in SlabFrames
        \/ p \in UNION {Pages(b.base, b.pages) : b \in blocks}
        \/ p \in UNION {Pages(t.mem, t.stack_pages) : t \in threads}
    BY DEF LivePages
  <2> QED BY <2>1, <2>2, <2>3, <2>4
<1> QED BY <1>1, <1>2

(* The kernel does not fault on its own memory: a slab is addressable      *)
(* under its frame number as soon as slab_create writes to it, and large   *)
(* blocks and stacks are mapped from end to end for as long as they live.  *)
THEOREM KernelNeverFaults == Spec => []NeverFaults
<1>1. IInv => NeverFaults
  BY GoodNeverFaults, Zenon DEF IInv, NeverFaults
<1> QED BY <1>1, Invariant, PTL

LEMMA GoodSlabs ==
  ASSUME Good
  PROVE  SlabsExact
<1> USE GoodParts, SlabParts
<1>1. ASSUME NEW c \in Caches, NEW k \in DOMAIN slabs[c]
      PROVE  LET s == slabs[c][k]
                 list == free_list[s]
                 Unfree == {o.slot : o \in {x \in held : x.cache = c /\ x.slab = s}}
             IN  /\ \A i, j \in DOMAIN list : list[i] = list[j] => i = j
                 /\ {list[i] : i \in DOMAIN list} = (1 .. Capacity[c]) \ Unfree
                 /\ Unfree = {} => call.at = "slab_alloc" /\ call.cache = c
  BY DEF ListsExact, FreshFirst, Exact, Taken
<1>2. \A o \in held : /\ o.slot \in 1 .. Capacity[o.cache]
                      /\ \E k \in DOMAIN slabs[o.cache] : slabs[o.cache][k] = o.slab
  BY DEF HeldInSlabs
<1> QED BY <1>1, <1>2 DEF SlabsExact

(* Free lists and holders agree: an object of a slab is on the free list   *)
(* or held, never both, and slab_free finds the slab of every object in    *)
(* its cache, as long as no failed pmm_alloc went unnoticed.               *)
THEOREM SlabsStayExact == Spec => [](~exhausted => SlabsExact)
<1>1. IInv => (~exhausted => SlabsExact)
  BY GoodSlabs, Zenon DEF IInv
<1> QED BY <1>1, Invariant, PTL

=============================================================================
