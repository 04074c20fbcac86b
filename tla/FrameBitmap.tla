---------------------------- MODULE FrameBitmap ----------------------------
(***************************************************************************)
(* The bookkeeping of memory/pmm.c as operators: which frames the memory   *)
(* map leaves free, and which frame the search over the bitmap finds.  A   *)
(* bitmap is the set of the frames whose bit is 1 (used).                  *)
(***************************************************************************)
EXTENDS Integers

CONSTANTS
  BitmapSize,   \* BITMAP_SIZE: words of the bitmap
  WordBits,     \* bits of a word, 32 in the code
  PageSize,     \* PAGE_SIZE, in bytes
  LowEnd,       \* end of the low memory that is never handed out, 1 MiB
  KernelStart,  \* kernel_start and kernel_end of the linker script
  KernelEnd

ASSUME BitmapAssumption ==
  /\ BitmapSize \in Nat \ {0} /\ WordBits \in Nat \ {0}
  /\ PageSize \in Nat \ {0}
  /\ LowEnd \in Nat /\ KernelStart \in Nat /\ KernelEnd \in Nat
  /\ KernelStart <= KernelEnd

FrameCount == BitmapSize * WordBits
Frames == 0 .. FrameCount - 1
Word(f) == f \div WordBits

(* What pmm_alloc returns when it finds no frame. *)
NoFrame == -1

-----------------------------------------------------------------------------
(* pmm_initialize *)

FreeRegionRoundsOutBug(base, length) ==
  {f \in Frames : /\ base \div PageSize <= f
                  /\ f < (base + length + PageSize - 1) \div PageSize}

(* free_region: the frames that lie wholly inside the region. *)
FreeRegion(base, length) ==
  {f \in Frames : /\ (base + PageSize - 1) \div PageSize <= f
                  /\ f < (base + length) \div PageSize}

(* reserve_region: the frames that overlap the region. *)
ReserveRegion(base, length) ==
  {f \in Frames : /\ base \div PageSize <= f
                  /\ f < (base + length + PageSize - 1) \div PageSize}

(* The bitmap after pmm_initialize for a memory map: everything is used,   *)
(* then the available regions are free, then low memory and the kernel     *)
(* are used again.                                                         *)
InitialBitmap(map) ==
  (Frames \ UNION {FreeRegion(e.addr, e.len) : e \in {r \in map : r.available}})
    \cup ReserveRegion(0, LowEnd)
    \cup ReserveRegion(KernelStart, KernelEnd - KernelStart)

-----------------------------------------------------------------------------
(* first_free_frame *)

(* The frames on which the search that starts in word `hint` may stop: the *)
(* lowest free one from there on, or, wrapped around, the lowest of all.   *)
(* At most one; none when every frame is used.                             *)
Found(bitmap, hint) ==
  LET Free == Frames \ bitmap
      Ahead == {f \in Free : Word(f) >= hint}
  IN  {f \in IF Ahead = {} THEN Free ELSE Ahead :
         \A g \in IF Ahead = {} THEN Free ELSE Ahead : f <= g}
=============================================================================
