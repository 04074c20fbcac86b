------------------------------ MODULE Library ------------------------------
(* The functions that run to completion on data of their own, each called  *)
(* with every argument of Calls.                                           *)
EXTENDS Format, Discovery

Next == StringsNext \/ Writef \/ DiscoveryNext
Spec == Called /\ [][Next]_frame
FairSpec == Spec /\ WF_frame(Next)

(* Every call comes back: no loop runs on for ever or gets stuck. *)
Returns == <>returned
=============================================================================
