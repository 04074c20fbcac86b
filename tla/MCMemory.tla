------------------------------ MODULE MCMemory ------------------------------
(* The instance of Memory that TLC checks: a directory of eight tables of  *)
(* four pages; usable memory is frames 2 .. Ram - 1, of which the boot     *)
(* table maps 2 and 3.                                                     *)
EXTENDS Memory

CONSTANT Ram
OneRegion == {[addr |-> 0, len |-> Ram * PageSize, available |-> TRUE]}
CONSTANT Bin
TwoObjects == [c \in Caches |-> 2]
Bins == {Bin}

(* Once a failure went unnoticed the run follows the call to its end, and  *)
(* no other call.                                                          *)
UntilTheCallEnds == exhausted => call # Idle
=============================================================================
