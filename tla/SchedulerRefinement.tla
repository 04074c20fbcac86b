------------------------ MODULE SchedulerRefinement ------------------------
(* The scheduler implements RoundRobin. *)
EXTENDS Scheduler, FiniteSets

(* The linked list read from `current` on, once around. *)
Queue ==
  LET walk[i \in 1 .. Cardinality(Linked)] ==
        IF i = 1 THEN current ELSE next[walk[i - 1]]
  IN  walk

Status ==
  [t \in Threads |-> CASE state[t] = "FREE"       -> "absent"
                       [] state[t] = "BLOCKED"    -> "blocked"
                       [] state[t] = "TERMINATED" -> "done"
                       [] OTHER                   -> "ready"]

RR == INSTANCE RoundRobin
        WITH Thread <- Threads, First <- Boot, queue <- Queue, status <- Status

(* Every step of the threads, interrupts and commands is a step of the     *)
(* round robin queue or changes nothing in it: scheduler_yield hands over  *)
(* to the first thread behind the current one that is not asleep, reaps    *)
(* only what has ended and does not run, and loses or duplicates nobody.   *)
(* So it goes on until an interrupt comes untimely.                        *)
ImplementsRoundRobin ==
  RR!Init /\ [][untimely' \/ RR!Next]_<<Queue, Status, left>>
=============================================================================
