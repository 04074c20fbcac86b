-------------------------------- MODULE Pmm --------------------------------
(***************************************************************************)
(* The physical memory manager, memory/pmm.c: a bitmap of the frames and   *)
(* the word from which the next search starts.  Its callers free only what *)
(* they were given: Memory's OneOwner says so of the kernel's own callers. *)
(***************************************************************************)
EXTENDS FrameBitmap

CONSTANT MemoryMaps   \* the memory maps a boot loader may pass

ASSUME MapAssumption ==
  \A map \in MemoryMaps : \A e \in map :
    e \in [addr : Nat, len : Nat, available : BOOLEAN]

VARIABLES
  map,          \* the multiboot memory map
  bitmap,       \* frames whose bit is set
  search_hint,  \* word index to resume scanning from
  result        \* what the last pmm_alloc returned

vars == <<map, bitmap, search_hint, result>>

TypeOK ==
  /\ map \in MemoryMaps
  /\ bitmap \subseteq Frames
  /\ search_hint \in 0 .. BitmapSize - 1
  /\ result \in Frames \cup {NoFrame}

(* pmm_initialize *)
Init ==
  /\ map \in MemoryMaps
  /\ bitmap = InitialBitmap(map)
  /\ search_hint = 0
  /\ result = NoFrame

AllocSkipsWordBug ==
  \E f \in Found(bitmap, search_hint) :
    /\ bitmap' = bitmap \cup {f}
    /\ search_hint' = Word(f) + 1
    /\ result' = f
    /\ UNCHANGED map

(* pmm_alloc *)
Alloc ==
  \E f \in Found(bitmap, search_hint) :
    /\ bitmap' = bitmap \cup {f}
    /\ search_hint' = Word(f)
    /\ result' = f
    /\ UNCHANGED map

(* pmm_alloc without a free frame *)
AllocFails ==
  /\ Found(bitmap, search_hint) = {}
  /\ result' = NoFrame
  /\ UNCHANGED <<map, bitmap, search_hint>>

FreeKeepsHintBug ==
  \E f \in bitmap \ InitialBitmap(map) :
    /\ bitmap' = bitmap \ {f}
    /\ UNCHANGED <<map, search_hint, result>>

(* pmm_free of a frame that a caller holds *)
Free ==
  \E f \in bitmap \ InitialBitmap(map) :
    /\ bitmap' = bitmap \ {f}
    /\ search_hint' = IF Word(f) < search_hint THEN Word(f) ELSE search_hint
    /\ UNCHANGED <<map, result>>

Next == Alloc \/ AllocFails \/ Free

Spec == Init /\ [][Next]_vars

-----------------------------------------------------------------------------
(* No free frame lies before the word where the next search starts, so the *)
(* second loop of first_free_frame never finds anything and a search never *)
(* passes over a free frame.                                               *)
HintSound == \A f \in Frames \ bitmap : Word(f) >= search_hint

(* A frame that pmm_alloc may hand out lies wholly inside available memory *)
(* of the map and has no byte in low memory or in the kernel image,        *)
(* however the regions are aligned.                                        *)
HandsOutOnlyRam ==
  \A f \in Frames \ bitmap :
    LET first == f * PageSize
        end == (f + 1) * PageSize
    IN  /\ first >= LowEnd
        /\ end <= KernelStart \/ first >= KernelEnd
        /\ \E e \in map : e.available /\ e.addr <= first /\ end <= e.addr + e.len

-----------------------------------------------------------------------------
FA == INSTANCE FrameAllocator
        WITH Frame <- Frames, Refused <- NoFrame, free <- Frames \ bitmap

(* The bitmap, the hint and the two loops implement the allocator that     *)
(* always hands out the lowest free frame and fails only when there is     *)
(* none (a frame just freed is the next one handed out if it is the        *)
(* lowest, as test_pmm.c expects).                                         *)
ImplementsFrameAllocator == FA!Spec
=============================================================================
