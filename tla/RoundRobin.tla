----------------------------- MODULE RoundRobin -----------------------------
(***************************************************************************)
(* What the scheduler promises, without stacks, interrupts or pointers:    *)
(* the threads form a queue with the running one at its head.  Giving up   *)
(* the CPU moves the head, and the sleepers whose time has not come that   *)
(* stand right behind it, to the end: nobody who could run is overtaken.   *)
(***************************************************************************)
EXTENDS Integers, Sequences

CONSTANTS
  Thread,    \* the threads there can be
  First,     \* the thread the kernel boots in
  MaxSleep   \* bound: longest sleep, in ticks

VARIABLES
  queue,     \* the scheduled threads, the running one first
  status,    \* "absent", "ready", "blocked" or "done"
  left       \* ticks a sleeper has to wait for

vars == <<queue, status, left>>

Asleep(t) == status[t] = "blocked" /\ left[t] > 0
Queued == {queue[i] : i \in 1 .. Len(queue)}

Init ==
  /\ queue = <<>>
  /\ status = [t \in Thread |-> IF t = First THEN "ready" ELSE "absent"]
  /\ left = [t \in Thread |-> 0]

Start ==
  /\ queue = <<>>
  /\ queue' = <<First>>
  /\ UNCHANGED <<status, left>>

Create(t) ==
  /\ status[t] = "absent"
  /\ status' = [status EXCEPT ![t] = "ready"]
  /\ UNCHANGED <<queue, left>>

(* A new thread is the next to run. *)
Add(t) ==
  /\ status[t] = "ready" /\ t \notin Queued /\ queue # <<>>
  /\ queue' = <<Head(queue), t>> \o Tail(queue)
  /\ UNCHANGED <<status, left>>

Discard(t) ==
  /\ status[t] = "ready" /\ t \notin Queued
  /\ status' = [status EXCEPT ![t] = "absent"]
  /\ UNCHANGED <<queue, left>>

(* The running thread sets its alarm, blocks, or ends. *)
SetAlarm(n) ==
  /\ queue # <<>>
  /\ left' = [left EXCEPT ![Head(queue)] = n]
  /\ UNCHANGED <<queue, status>>

Become(s) ==
  /\ queue # <<>>
  /\ status' = [status EXCEPT ![Head(queue)] = s]
  /\ UNCHANGED <<queue, left>>

Tick ==
  /\ left' = [t \in Thread |-> IF left[t] = 0 THEN 0 ELSE left[t] - 1]
  /\ UNCHANGED <<queue, status>>

(* A thread that has ended leaves the queue, never while it runs. *)
Reap(i) ==
  /\ status[queue[i]] = "done"
  /\ queue' = SubSeq(queue, 1, i - 1) \o SubSeq(queue, i + 1, Len(queue))
  /\ status' = [status EXCEPT ![queue[i]] = "absent"]
  /\ UNCHANGED left

(* The head hands over to the first thread behind it that is not asleep. *)
Dispatch(i) ==
  /\ \A j \in 2 .. i - 1 : Asleep(queue[j])
  /\ ~Asleep(queue[i]) /\ status[queue[i]] # "done"
  /\ queue' = SubSeq(queue, i, Len(queue)) \o SubSeq(queue, 1, i - 1)
  /\ status' = [status EXCEPT ![queue[i]] = "ready"]
  /\ UNCHANGED left

Next ==
  \/ Start
  \/ \E t \in Thread : Create(t) \/ Add(t) \/ Discard(t)
  \/ \E n \in 0 .. MaxSleep : SetAlarm(n)
  \/ \E s \in {"blocked", "done"} : Become(s)
  \/ Tick
  \/ \E i \in 2 .. Len(queue) : Reap(i) \/ Dispatch(i)

Spec == Init /\ [][Next]_vars
=============================================================================
