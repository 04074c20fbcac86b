------------------------------- MODULE MCPmm -------------------------------
(* The instance of Pmm that TLC checks: eight frames of four bytes in four *)
(* words of two bits, and every map of two regions at any alignment.       *)
EXTENDS Pmm, FiniteSets

Regions ==
  [addr : {0, 5, 8, 13, 20}, len : {3, 8, 11, 15, 40}, available : BOOLEAN]

Apart(a, b) == a.addr + a.len <= b.addr \/ b.addr + b.len <= a.addr

TwoRegions == {{a, b} : a \in Regions, b \in Regions}
Maps == {m \in TwoRegions : \A a, b \in m : a = b \/ Apart(a, b)}
=============================================================================
