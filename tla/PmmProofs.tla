----------------------------- MODULE PmmProofs -----------------------------
(***************************************************************************)
(* Proofs about Pmm for every size of the bitmap, of its words and of a    *)
(* page, and for every memory map: the hint never hides a free frame, only *)
(* whole frames of available memory outside the kernel are handed out, and *)
(* the manager implements FrameAllocator.                                  *)
(***************************************************************************)
EXTENDS Pmm, TLAPS, WellFoundedInduction

-----------------------------------------------------------------------------
(* Arithmetic: what rounding down to a multiple gives. *)

LEMMA DivIsFloor ==
  ASSUME NEW a \in Nat, NEW b \in Nat \ {0}
  PROVE  /\ a \div b \in Nat
         /\ (a \div b) * b <= a
         /\ a < ((a \div b) + 1) * b
  OBVIOUS

LEMMA DivIsMonotone ==
  ASSUME NEW a \in Nat, NEW c \in Nat, NEW b \in Nat \ {0}, a <= c
  PROVE  a \div b <= c \div b
  BY DivIsFloor

(* A frame lies in the word of its number, and no word is past the end. *)
LEMMA WordInBitmap ==
  ASSUME NEW f \in Frames
  PROVE  Word(f) \in 0 .. BitmapSize - 1
<1> DEFINE w == Word(f)
<1>1. /\ f \in Nat /\ BitmapSize \in Nat \ {0} /\ WordBits \in Nat \ {0}
      /\ f < BitmapSize * WordBits
  BY BitmapAssumption DEF Frames, FrameCount
<1>2. w \in Nat /\ w * WordBits <= f
  BY <1>1, DivIsFloor DEF Word
<1>3. w * WordBits < BitmapSize * WordBits
  BY <1>1, <1>2
<1>4. ~ (BitmapSize <= w)
  <2>1. SUFFICES ASSUME BitmapSize <= w PROVE FALSE
    OBVIOUS
  <2>2. BitmapSize * WordBits <= w * WordBits
    BY <1>1, <1>2, <2>1
  <2> QED BY <1>1, <1>2, <1>3, <2>2
<1> QED BY <1>1, <1>2, <1>4

LEMMA FramesAreNaturals == Frames \subseteq Nat
  BY BitmapAssumption DEF Frames, FrameCount

(* A set of natural numbers that is not empty has a lowest member. *)
LEMMA LowestExists ==
  ASSUME NEW S \in SUBSET Nat, S # {}
  PROVE  \E f \in S : \A g \in S : f <= g
<1>1. PICK f \in S : \A g \in S : ~ (<<g, f>> \in OpToRel(<, Nat))
  BY NatLessThanWellFounded, WFMin
<1>2. ASSUME NEW g \in S PROVE f <= g
  <2>1. g < f => <<g, f>> \in OpToRel(<, Nat)
    BY DEF OpToRel
  <2>2. ~ (g < f)
    BY <1>1, <2>1
  <2> QED BY <2>2
<1> QED BY <1>2

-----------------------------------------------------------------------------
(* The inductive invariant: the hint stays a word of the bitmap, no free   *)
(* frame lies before it, and no frame that pmm_initialize reserved is ever *)
(* free.                                                                   *)
ReservedStaysUsed == InitialBitmap(map) \subseteq bitmap

IInv == TypeOK /\ HintSound /\ ReservedStaysUsed

LEMMA InitInductive == Init => IInv
<1> SUFFICES ASSUME Init PROVE IInv
  OBVIOUS
<1>1. bitmap \subseteq Frames
  BY DEF Init, InitialBitmap, ReserveRegion
<1>2. TypeOK
  BY <1>1, BitmapAssumption DEF Init, TypeOK
<1>3. HintSound
  BY WordInBitmap DEF Init, HintSound
<1> QED BY <1>2, <1>3 DEF Init, IInv, ReservedStaysUsed

(* The search hands out a free frame, and no free frame lies in an earlier *)
(* word than the one found.                                                *)
LEMMA FoundIsFirst ==
  ASSUME IInv, NEW f \in Found(bitmap, search_hint)
  PROVE  /\ f \in Frames \ bitmap
         /\ \A g \in Frames \ bitmap : f <= g /\ Word(f) <= Word(g)
<1> DEFINE Open == Frames \ bitmap
           Ahead == {g \in Open : Word(g) >= search_hint}
<1>1. Ahead = Open
  BY DEF IInv, HintSound
<1>2. f \in {h \in Open : \A g \in Open : h <= g}
  BY <1>1 DEF Found
<1>3. ASSUME NEW g \in Open PROVE f <= g /\ Word(f) <= Word(g)
  BY <1>2, DivIsMonotone, FramesAreNaturals, BitmapAssumption DEF Word
<1> QED BY <1>2, <1>3

LEMMA AllocInductive == IInv /\ Alloc => IInv'
<1> SUFFICES ASSUME IInv, Alloc PROVE IInv'
  OBVIOUS
<1>1. PICK f \in Found(bitmap, search_hint) :
        /\ bitmap' = bitmap \cup {f}
        /\ search_hint' = Word(f)
        /\ result' = f
        /\ map' = map
  BY DEF Alloc
<1>2. /\ f \in Frames \ bitmap
      /\ \A g \in Frames \ bitmap : Word(f) <= Word(g)
  BY <1>1, FoundIsFirst
<1>3. TypeOK'
  BY <1>1, <1>2, WordInBitmap DEF IInv, TypeOK
<1>4. HintSound'
  <2>1. SUFFICES ASSUME NEW g \in Frames \ bitmap' PROVE Word(g) >= search_hint'
    BY DEF HintSound
  <2>2. Word(f) <= Word(g)
    BY <1>1, <1>2, <2>1
  <2> QED BY <1>1, <1>2, <2>1, <2>2, WordInBitmap
<1>5. ReservedStaysUsed'
  BY <1>1 DEF IInv, ReservedStaysUsed, InitialBitmap, FreeRegion, ReserveRegion
<1> QED BY <1>3, <1>4, <1>5 DEF IInv

LEMMA FreeInductive == IInv /\ Free => IInv'
<1> SUFFICES ASSUME IInv, Free PROVE IInv'
  OBVIOUS
<1>1. PICK f \in bitmap \ InitialBitmap(map) :
        /\ bitmap' = bitmap \ {f}
        /\ search_hint' = IF Word(f) < search_hint THEN Word(f) ELSE search_hint
        /\ map' = map /\ result' = result
  BY DEF Free
<1>2. f \in Frames /\ Word(f) \in 0 .. BitmapSize - 1
  BY <1>1, WordInBitmap DEF IInv, TypeOK
<1>3. TypeOK'
  BY <1>1, <1>2 DEF IInv, TypeOK
<1>4. HintSound'
  <2>1. SUFFICES ASSUME NEW g \in Frames \ bitmap' PROVE Word(g) >= search_hint'
    BY DEF HintSound
  <2>2. g = f \/ Word(g) >= search_hint
    BY <1>1, <2>1 DEF IInv, HintSound
  <2>3. search_hint \in 0 .. BitmapSize - 1
    BY DEF IInv, TypeOK
  <2>4. Word(g) \in 0 .. BitmapSize - 1
    BY <2>1, WordInBitmap
  <2> QED BY <1>1, <1>2, <2>2, <2>3, <2>4, BitmapAssumption
<1>5. ReservedStaysUsed'
  BY <1>1 DEF IInv, ReservedStaysUsed
<1> QED BY <1>3, <1>4, <1>5 DEF IInv

LEMMA NextInductive == IInv /\ [Next]_vars => IInv'
<1> SUFFICES ASSUME IInv, [Next]_vars PROVE IInv'
  OBVIOUS
<1>1. CASE Alloc
  BY <1>1, AllocInductive
<1>2. CASE AllocFails
  BY <1>2 DEF AllocFails, IInv, TypeOK, HintSound, ReservedStaysUsed
<1>3. CASE Free
  BY <1>3, FreeInductive
<1>4. CASE UNCHANGED vars
  BY <1>4 DEF vars, IInv, TypeOK, HintSound, ReservedStaysUsed
<1> QED BY <1>1, <1>2, <1>3, <1>4 DEF Next

LEMMA Inductive == Spec => []IInv
  BY InitInductive, NextInductive, PTL DEF Spec

(* The bitmap holds frames, the hint is always a word of it, and a search  *)
(* that starts there reads inside the array.                               *)
THEOREM TypeCorrect == Spec => []TypeOK
<1>1. IInv => TypeOK
  BY DEF IInv
<1> QED BY <1>1, Inductive, PTL

(* pmm_free pulls the hint back far enough and pmm_alloc never pushes it   *)
(* past a free frame, whatever is allocated and freed in whatever order.   *)
THEOREM HintIsSound == Spec => []HintSound
<1>1. IInv => HintSound
  BY DEF IInv
<1> QED BY <1>1, Inductive, PTL

-----------------------------------------------------------------------------
(* What rounding protects *)

(* Rounding the base up and the end down leaves whole frames only. *)
LEMMA FreeRegionIsInside ==
  ASSUME NEW base \in Nat, NEW length \in Nat, NEW f \in FreeRegion(base, length)
  PROVE  base <= f * PageSize /\ (f + 1) * PageSize <= base + length
<1> DEFINE up == (base + PageSize - 1) \div PageSize
           down == (base + length) \div PageSize
<1>1. PageSize \in Nat \ {0} /\ f \in Nat /\ f >= up /\ f < down
  BY BitmapAssumption, FramesAreNaturals DEF FreeRegion
<1>2. up \in Nat /\ base + PageSize - 1 < (up + 1) * PageSize
  <2>1. base + PageSize - 1 \in Nat
    BY <1>1
  <2> QED BY <1>1, <2>1, DivIsFloor
<1>3. down \in Nat /\ down * PageSize <= base + length
  BY <1>1, DivIsFloor
<1>4. up * PageSize <= f * PageSize /\ (f + 1) * PageSize <= down * PageSize
  BY <1>1, <1>2, <1>3
<1> QED BY <1>1, <1>2, <1>3, <1>4

(* Rounding the base down and the end up covers every frame that has a     *)
(* byte in the region.                                                     *)
LEMMA ReserveRegionCovers ==
  ASSUME NEW base \in Nat, NEW length \in Nat,
         NEW f \in Frames \ ReserveRegion(base, length)
  PROVE  (f + 1) * PageSize <= base \/ base + length <= f * PageSize
<1> DEFINE down == base \div PageSize
           up == (base + length + PageSize - 1) \div PageSize
<1>1. PageSize \in Nat \ {0} /\ f \in Nat
  BY BitmapAssumption, FramesAreNaturals
<1>2. down \in Nat /\ down * PageSize <= base
  BY <1>1, DivIsFloor
<1>3. up \in Nat /\ base + length + PageSize - 1 < (up + 1) * PageSize
  <2>1. base + length + PageSize - 1 \in Nat
    BY <1>1
  <2> QED BY <1>1, <2>1, DivIsFloor
<1>4. f < down \/ f >= up
  BY <1>1, <1>2, <1>3 DEF ReserveRegion
<1>5. CASE f < down
  <2>1. (f + 1) * PageSize <= down * PageSize
    BY <1>1, <1>2, <1>5
  <2> QED BY <1>1, <1>2, <2>1
<1>6. CASE f >= up
  <2>1. up * PageSize <= f * PageSize
    BY <1>1, <1>3, <1>6
  <2> QED BY <1>1, <1>3, <2>1
<1> QED BY <1>4, <1>5, <1>6

LEMMA FreeFramesAreRam == IInv => HandsOutOnlyRam
<1> SUFFICES ASSUME IInv, NEW f \in Frames \ bitmap
             PROVE  /\ f * PageSize >= LowEnd
                    /\ (f + 1) * PageSize <= KernelStart \/ f * PageSize >= KernelEnd
                    /\ \E e \in map : /\ e.available
                                      /\ e.addr <= f * PageSize
                                      /\ (f + 1) * PageSize <= e.addr + e.len
  BY DEF HandsOutOnlyRam
<1>1. f \in Nat /\ PageSize \in Nat \ {0}
  BY FramesAreNaturals, BitmapAssumption
<1>2. f \notin InitialBitmap(map)
  BY DEF IInv, ReservedStaysUsed
<1>3. f * PageSize >= LowEnd
  <2>1. (f + 1) * PageSize <= 0 \/ 0 + LowEnd <= f * PageSize
    BY <1>2, ReserveRegionCovers, BitmapAssumption DEF InitialBitmap
  <2>2. (f + 1) * PageSize > 0
    BY <1>1
  <2> QED BY <1>1, <2>1, <2>2, BitmapAssumption
<1>4. (f + 1) * PageSize <= KernelStart \/ f * PageSize >= KernelEnd
  <2>1. KernelStart \in Nat /\ KernelEnd \in Nat /\ KernelEnd - KernelStart \in Nat
    BY BitmapAssumption
  <2>2. \/ (f + 1) * PageSize <= KernelStart
        \/ KernelStart + (KernelEnd - KernelStart) <= f * PageSize
    BY <1>2, <2>1, ReserveRegionCovers DEF InitialBitmap
  <2> QED BY <1>1, <2>1, <2>2
<1>5. PICK e \in map : e.available /\ f \in FreeRegion(e.addr, e.len)
  BY <1>2 DEF InitialBitmap
<1>6. e.addr \in Nat /\ e.len \in Nat
  BY MapAssumption DEF IInv, TypeOK
<1>7. e.addr <= f * PageSize /\ (f + 1) * PageSize <= e.addr + e.len
  BY <1>5, <1>6, FreeRegionIsInside
<1> QED BY <1>3, <1>4, <1>5, <1>7

(* Whatever the alignment of the regions and of the kernel image, a frame  *)
(* that pmm_alloc may hand out is wholly usable memory and shares no byte  *)
(* with low memory or the kernel; no sequence of frees changes that.       *)
THEOREM OnlyRam == Spec => []HandsOutOnlyRam
  BY FreeFramesAreRam, Inductive, PTL

-----------------------------------------------------------------------------
(* Refinement of FrameAllocator *)

LEMMA InitRefines == Init => FA!Init
  BY DEF Init, FA!Init

LEMMA StepRefines ==
  IInv /\ [Next]_vars => [FA!Next]_<<Frames \ bitmap, result>>
<1> SUFFICES ASSUME IInv, [Next]_vars
             PROVE  [FA!Next]_<<Frames \ bitmap, result>>
  OBVIOUS
<1>1. CASE Alloc
  <2>1. PICK f \in Found(bitmap, search_hint) :
          bitmap' = bitmap \cup {f} /\ result' = f
    BY <1>1 DEF Alloc
  <2>2. f \in Frames \ bitmap /\ \A g \in Frames \ bitmap : f <= g
    BY <2>1, FoundIsFirst
  <2>3. Frames \ bitmap' = (Frames \ bitmap) \ {f}
    BY <2>1
  <2>4. FA!Take(f)
    BY <2>1, <2>2, <2>3 DEF FA!Take
  <2> QED BY <2>2, <2>4 DEF FA!Next
<1>2. CASE AllocFails
  <2> DEFINE Open == Frames \ bitmap
             Ahead == {g \in Open : Word(g) >= search_hint}
  <2>1. Ahead = Open
    BY DEF IInv, HintSound
  <2>2. {h \in Open : \A g \in Open : h <= g} = {}
    BY <1>2, <2>1 DEF AllocFails, Found
  <2>3. Open = {}
    BY <2>2, LowestExists, FramesAreNaturals
  <2> QED BY <1>2, <2>3 DEF AllocFails, FA!Next, FA!Refuse
<1>3. CASE Free
  <2>1. PICK f \in bitmap \ InitialBitmap(map) :
          bitmap' = bitmap \ {f} /\ result' = result
    BY <1>3 DEF Free
  <2>2. f \in Frames /\ f \notin Frames \ bitmap
    BY <2>1 DEF IInv, TypeOK
  <2>3. Frames \ bitmap' = (Frames \ bitmap) \cup {f}
    BY <2>1, <2>2
  <2>4. FA!Give(f)
    BY <2>1, <2>2, <2>3 DEF FA!Give
  <2> QED BY <2>2, <2>4 DEF FA!Next
<1>4. CASE UNCHANGED vars
  BY <1>4 DEF vars
<1> QED BY <1>1, <1>2, <1>3, <1>4 DEF Next

(* pmm_alloc always hands out the lowest free frame and reports exhaustion *)
(* only when there is none; pmm_free gives back one held frame.  The hint  *)
(* and the two loops of first_free_frame are invisible to the callers.     *)
THEOREM Refinement == Spec => ImplementsFrameAllocator
<1>1. Spec => FA!Spec
  BY InitRefines, StepRefines, Inductive, PTL DEF Spec, FA!Spec
<1> QED BY <1>1 DEF ImplementsFrameAllocator
=============================================================================
