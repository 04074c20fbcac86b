---------------------------- MODULE MCScheduler ----------------------------
(* The instances of Scheduler that TLC checks. *)
EXTENDS Scheduler, FiniteSets, TLC
CONSTANTS boot, idle, w1, w2, null
OneWorker == {w1}
TwoWorkers == {w1, w2}
WorkerSymmetry == Permutations(Workers)

(* The properties that hold say nothing of what comes after an untimely    *)
(* interrupt: the passing runs stop there.                                 *)
Timely == ~untimely

-----------------------------------------------------------------------------
(* Views: states that differ only in data nobody reads again are one state. *)

(* wake_at is read only while its thread sleeps, or is about to. *)
Sleeping(t) ==
  \/ state[t] = "BLOCKED"
  \/ \E i \in 1 .. Len(stack[t]) : stack[t][i] \in {"thread_sleep", "blocked"}

AllButTime == <<current, next, state, esp, lock, flags, prev, candidate, old,
                cpu, eif, stack, irq1, made, left, untimely>>

(* The counter's value stays: the run sees it wrap. *)
AbsoluteTime ==
  <<AllButTime, ticks,
    [t \in Threads |-> IF Sleeping(t) THEN wake_at[t] ELSE 0]>>

(* Every step commutes with adding a number to ticks and to each wake_at,  *)
(* so where the wrap itself is not the question their differences do.      *)
RelativeTime ==
  <<AllButTime,
    [t \in Threads |->
      IF Sleeping(t) THEN (wake_at[t] - ticks) % TickMod ELSE 0]>>
=============================================================================
