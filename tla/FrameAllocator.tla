--------------------------- MODULE FrameAllocator ---------------------------
(***************************************************************************)
(* What the physical memory manager promises its callers: frames are       *)
(* handed out lowest first, each to one holder, until none is left.        *)
(***************************************************************************)
EXTENDS Integers

CONSTANTS
  Frame,     \* all frames, numbers
  Refused    \* the answer when there is none

VARIABLES
  free,      \* the frames nobody holds
  result     \* the answer to the last request

Init ==
  /\ free \subseteq Frame
  /\ result = Refused

Take(f) ==
  /\ f \in free
  /\ \A g \in free : f <= g
  /\ free' = free \ {f}
  /\ result' = f

Refuse ==
  /\ free = {}
  /\ result' = Refused
  /\ UNCHANGED free

Give(f) ==
  /\ f \notin free
  /\ free' = free \cup {f}
  /\ UNCHANGED result

Next == Refuse \/ \E f \in Frame : Take(f) \/ Give(f)

Spec == Init /\ [][Next]_<<free, result>>
=============================================================================
