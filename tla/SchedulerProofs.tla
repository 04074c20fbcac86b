-------------------------- MODULE SchedulerProofs --------------------------
(***************************************************************************)
(* Proofs about Scheduler for every number of threads, any length of the   *)
(* counter and any nesting of interrupts.  What is proved holds in every   *)
(* behaviour up to the first interrupt that comes untimely: between        *)
(* unlocking and switching stacks, or before the scheduler is initialized. *)
(***************************************************************************)
EXTENDS Scheduler, TLAPS

BootFrames == {"scheduler_initialize", "create_idle", "add_idle",
               "pit_initialize"}
Halts == BootFrames \cup {"kmain", "idle_loop"}
Isrs == {"timer_isr", "keyboard_isr"}
Bases == Halts \cup {"thread_trampoline", "entry", "exit"}
Critical == {"scan", "window"}
Resumable == {"context_switch", "thread_trampoline"}

(* What the stack of a thread looks like: exactly the outermost frame is   *)
(* one that is never returned from; nothing is on top of scheduler_yield   *)
(* up to the switch; and only interrupt handlers run on top of a halt.     *)
GoodStack(s) ==
  /\ s \in Seq(Frames)
  /\ \A i \in 1 .. Len(s) :
       /\ s[i] \in Bases <=> i = Len(s)
       /\ i > 1 => s[i] \notin Critical
       /\ i > 1 /\ s[i] \in Halts => s[i - 1] \in Isrs

(* How far kmain's start-up is, if the stack is the one it runs on. *)
Stage(s) ==
  IF s # <<>> /\ s[Len(s)] \in BootFrames THEN s[Len(s)] ELSE "booted"

On(f, s) == \E i \in 1 .. Len(s) : s[i] = f

StacksInv ==
  /\ \A t \in Threads : GoodStack(stack[t])
  /\ \A t \in Threads : stack[t] = <<>> <=> state[t] = "FREE"

CpuInv ==
  /\ cpu \in Threads /\ stack[cpu] # <<>>
  /\ \A t \in Threads \ {cpu} :
       stack[t] # <<>> => esp[t] = t /\ Head(stack[t]) \in Resumable
  /\ \A t \in Threads :
       old[t] = IF t = cpu /\ Running("window") THEN <<t>> ELSE <<>>
  /\ current # Null => (current = cpu <=> ~Running("window"))
  /\ Head(stack[cpu]) \in Halts => eif

LockInv ==
  /\ lock <=> Running("scan")
  /\ lock => /\ ~eif /\ current # Null
             /\ prev \in Linked /\ candidate \in Linked
             /\ next[prev] = candidate

(* kmain has its CPU for itself until `current` is valid, and no command   *)
(* is run before it is done.                                               *)
BootInv ==
  /\ \A t \in Threads \ {Boot} : Stage(stack[t]) = "booted"
  /\ current = Null <=> Stage(stack[Boot]) = "scheduler_initialize"
  /\ current = Null => cpu = Boot /\ Len(stack[Boot]) = 1
  /\ Stage(stack[Boot]) # "booted" =>
       /\ made = Null <=> Stage(stack[Boot]) # "add_idle"
       /\ \A t \in Threads : ~On("keyboard_isr", stack[t])

(* next is one cycle: no proper part of the linked threads is closed.      *)
RingInv ==
  /\ \A t \in Linked : next[t] \in Linked
  /\ \A s, t \in Linked : next[s] = next[t] => s = t
  /\ \A S \in SUBSET Linked : S # {} /\ (\A t \in S : next[t] \in S) => S = Linked
  /\ current = Null => /\ Linked = {}
                       /\ \A t \in Threads : state[t] = "FREE" <=> t # Boot
  /\ current # Null => current \in Linked /\ cpu \in Linked
  /\ \A t \in Linked : state[t] # "FREE" /\ t # made
  /\ current # Null => \A t \in Threads \ Linked : state[t] = "FREE" \/ t = made
  /\ made # Null => state[made] # "FREE"

IInv ==
  TypeOK /\ StacksInv /\ CpuInv /\ LockInv /\ BootInv /\ RingInv

-----------------------------------------------------------------------------
(* Stacks under push, pop and replacement of the innermost frame *)

LEMMA ConsFacts ==
  ASSUME NEW S, NEW f \in S, NEW s \in Seq(S)
  PROVE  /\ <<f>> \o s \in Seq(S)
         /\ <<f>> \o s # <<>>
         /\ Len(<<f>> \o s) = Len(s) + 1
         /\ Head(<<f>> \o s) = f
         /\ (<<f>> \o s)[1] = f
         /\ \A i \in 2 .. Len(s) + 1 : (<<f>> \o s)[i] = s[i - 1]
  OBVIOUS

LEMMA TailFacts ==
  ASSUME NEW S, NEW s \in Seq(S), s # <<>>
  PROVE  /\ Tail(s) \in Seq(S)
         /\ Len(s) \in Nat /\ Len(s) >= 1
         /\ Len(Tail(s)) = Len(s) - 1
         /\ Head(s) = s[1]
         /\ Head(s) \in S
         /\ \A i \in 1 .. Len(s) - 1 : Tail(s)[i] = s[i + 1]
  OBVIOUS

LEMMA PushGood ==
  ASSUME NEW s, GoodStack(s), s # <<>>, Head(s) \notin Critical,
         NEW f \in Frames \ Bases, Head(s) \in Halts => f \in Isrs
  PROVE  /\ GoodStack(<<f>> \o s)
         /\ <<f>> \o s # <<>>
         /\ Head(<<f>> \o s) = f
         /\ Stage(<<f>> \o s) = Stage(s)
         /\ On("keyboard_isr", <<f>> \o s) => On("keyboard_isr", s) \/ f = "keyboard_isr"
<1> DEFINE c == <<f>> \o s
<1>1. s \in Seq(Frames) /\ f \in Frames
  BY DEF GoodStack
<1>2. /\ c \in Seq(Frames) /\ c # <<>> /\ Head(c) = f /\ c[1] = f
      /\ Len(c) = Len(s) + 1
      /\ \A i \in 2 .. Len(s) + 1 : c[i] = s[i - 1]
  BY <1>1, ConsFacts
<1>3. Len(s) \in Nat /\ Len(s) >= 1 /\ Head(s) = s[1]
  BY <1>1, TailFacts
<1>4. ASSUME NEW i \in 1 .. Len(c)
      PROVE  /\ c[i] \in Bases <=> i = Len(c)
             /\ i > 1 => c[i] \notin Critical
             /\ i > 1 /\ c[i] \in Halts => c[i - 1] \in Isrs
  <2>1. CASE i = 1
    BY <2>1, <1>2, <1>3
  <2>2. CASE i = 2
    <3>1. c[i] = s[1] /\ c[i - 1] = f /\ 1 \in 1 .. Len(s)
      BY <2>2, <1>2, <1>3
    <3>2. s[1] \in Bases <=> 1 = Len(s)
      BY <1>3, <3>1 DEF GoodStack
    <3> QED
      BY <2>2, <3>1, <3>2, <1>2, <1>3
  <2>3. CASE i > 2
    <3>1. i - 1 \in 1 .. Len(s) /\ i - 1 > 1 /\ c[i] = s[i - 1] /\ c[i - 1] = s[i - 2]
      BY <2>3, <1>2, <1>3
    <3>2. /\ s[i - 1] \in Bases <=> i - 1 = Len(s)
          /\ s[i - 1] \notin Critical
          /\ s[i - 1] \in Halts => s[(i - 1) - 1] \in Isrs
      BY <3>1 DEF GoodStack
    <3> QED
      BY <2>3, <3>1, <3>2, <1>2, <1>3
  <2> QED
    BY <2>1, <2>2, <2>3, <1>2, <1>3
<1>5. GoodStack(c)
  BY <1>2, <1>4 DEF GoodStack
<1>6. Stage(c) = Stage(s)
  <2>1. c[Len(c)] = s[Len(s)]
    <3>1. Len(c) \in 2 .. Len(s) + 1 /\ Len(c) - 1 = Len(s)
      BY <1>2, <1>3
    <3> QED
      BY <3>1, <1>2
  <2> QED
    BY <2>1, <1>2 DEF Stage
<1>7. ASSUME NEW i \in 1 .. Len(c), c[i] = "keyboard_isr", f # "keyboard_isr"
      PROVE  On("keyboard_isr", s)
  <2>1. i \in 2 .. Len(s) + 1 /\ i - 1 \in 1 .. Len(s)
    BY <1>2, <1>3, <1>7
  <2> QED
    BY <2>1, <1>2, <1>7 DEF On
<1> QED
  BY <1>2, <1>5, <1>6, <1>7 DEF On

LEMMA PopGood ==
  ASSUME NEW s, GoodStack(s), s # <<>>, Head(s) \notin Bases
  PROVE  /\ GoodStack(Tail(s))
         /\ Tail(s) # <<>>
         /\ Head(Tail(s)) \notin Critical
         /\ Head(Tail(s)) \in Halts => Head(s) \in Isrs
         /\ Stage(Tail(s)) = Stage(s)
         /\ On("keyboard_isr", Tail(s)) => On("keyboard_isr", s)
<1> DEFINE c == Tail(s)
<1>1. s \in Seq(Frames)
  BY DEF GoodStack
<1>2. /\ c \in Seq(Frames) /\ Len(s) \in Nat /\ Len(s) >= 1
      /\ Len(c) = Len(s) - 1 /\ Head(s) = s[1]
      /\ \A i \in 1 .. Len(s) - 1 : c[i] = s[i + 1]
  BY <1>1, TailFacts
<1>3. Len(s) > 1
  <2>1. 1 \in 1 .. Len(s)
    BY <1>2
  <2>2. s[1] \in Bases <=> 1 = Len(s)
    BY <2>1 DEF GoodStack
  <2> QED
    BY <2>2, <1>2
<1>4. c # <<>> /\ Head(c) = s[2]
  <2>1. Len(c) >= 1 /\ c[1] = s[2]
    BY <1>2, <1>3
  <2>2. c # <<>>
    <3>1. Len(<<>>) = 0
      OBVIOUS
    <3> QED
      BY <2>1, <3>1
  <2> QED
    BY <2>1, <2>2, <1>2, TailFacts
<1>5. /\ s[2] \notin Critical
      /\ s[2] \in Halts => s[1] \in Isrs
  <2>1. 2 \in 1 .. Len(s)
    BY <1>2, <1>3
  <2>2. /\ 2 > 1 => s[2] \notin Critical
        /\ 2 > 1 /\ s[2] \in Halts => s[2 - 1] \in Isrs
    BY <2>1 DEF GoodStack
  <2> QED
    BY <2>2
<1>6. ASSUME NEW i \in 1 .. Len(c)
      PROVE  /\ c[i] \in Bases <=> i = Len(c)
             /\ i > 1 => c[i] \notin Critical
             /\ i > 1 /\ c[i] \in Halts => c[i - 1] \in Isrs
  <2>1. i + 1 \in 1 .. Len(s) /\ i + 1 > 1 /\ c[i] = s[i + 1]
    BY <1>2
  <2>2. /\ s[i + 1] \in Bases <=> i + 1 = Len(s)
        /\ s[i + 1] \notin Critical
        /\ s[i + 1] \in Halts => s[(i + 1) - 1] \in Isrs
    BY <2>1 DEF GoodStack
  <2>3. i > 1 => c[i - 1] = s[i]
    BY <1>2
  <2>4. (i = Len(c) <=> i + 1 = Len(s)) /\ (i + 1) - 1 = i
    BY <1>2
  <2>5. s[i + 1] \in Halts => s[i] \in Isrs
    BY <2>2, <2>4
  <2> QED
    BY <2>1, <2>2, <2>3, <2>4, <2>5
<1>7. GoodStack(c)
  BY <1>2, <1>6 DEF GoodStack
<1>8. Stage(c) = Stage(s)
  <2>1. Len(c) \in 1 .. Len(s) - 1 /\ Len(c) + 1 = Len(s)
    BY <1>2, <1>3
  <2>2. c[Len(c)] = s[Len(s)]
    BY <2>1, <1>2
  <2> QED
    BY <2>2, <1>4 DEF Stage
<1>9. ASSUME NEW i \in 1 .. Len(c), c[i] = "keyboard_isr"
      PROVE  On("keyboard_isr", s)
  <2>1. i + 1 \in 1 .. Len(s) /\ s[i + 1] = "keyboard_isr"
    BY <1>2, <1>9
  <2> QED
    BY <2>1 DEF On
<1> QED
  BY <1>2, <1>4, <1>5, <1>7, <1>8, <1>9 DEF On

LEMMA SwapGood ==
  ASSUME NEW s, GoodStack(s), s # <<>>, Head(s) \notin Isrs,
         NEW f \in Frames, f \in Bases <=> Head(s) \in Bases
  PROVE  /\ GoodStack(<<f>> \o Tail(s))
         /\ <<f>> \o Tail(s) # <<>>
         /\ Head(<<f>> \o Tail(s)) = f
         /\ f \notin BootFrames /\ Head(s) \notin BootFrames
              => Stage(<<f>> \o Tail(s)) = Stage(s)
         /\ On("keyboard_isr", <<f>> \o Tail(s)) => On("keyboard_isr", s) \/ f = "keyboard_isr"
<1> DEFINE c == <<f>> \o Tail(s)
<1>1. s \in Seq(Frames)
  BY DEF GoodStack
<1>2. /\ Tail(s) \in Seq(Frames) /\ Len(s) \in Nat /\ Len(s) >= 1
      /\ Len(Tail(s)) = Len(s) - 1 /\ Head(s) = s[1]
      /\ \A i \in 1 .. Len(s) - 1 : Tail(s)[i] = s[i + 1]
  BY <1>1, TailFacts
<1>3. /\ c \in Seq(Frames) /\ c # <<>> /\ Head(c) = f /\ c[1] = f
      /\ Len(c) = Len(s)
      /\ \A i \in 2 .. Len(s) : c[i] = Tail(s)[i - 1]
  BY <1>2, ConsFacts
<1>4. \A i \in 2 .. Len(s) : c[i] = s[i]
  BY <1>2, <1>3
<1>5. ASSUME NEW i \in 1 .. Len(c)
      PROVE  /\ c[i] \in Bases <=> i = Len(c)
             /\ i > 1 => c[i] \notin Critical
             /\ i > 1 /\ c[i] \in Halts => c[i - 1] \in Isrs
  <2>1. /\ s[i] \in Bases <=> i = Len(s)
        /\ i > 1 => s[i] \notin Critical
        /\ i > 1 /\ s[i] \in Halts => s[i - 1] \in Isrs
    BY <1>3 DEF GoodStack
  <2>2. CASE i = 1
    BY <2>1, <2>2, <1>2, <1>3
  <2>3. CASE i = 2
    <3>1. c[i] = s[2] /\ s[2] \notin Halts
      BY <2>1, <2>3, <1>2, <1>3, <1>4
    <3> QED
      BY <2>1, <2>3, <3>1, <1>2, <1>3
  <2>4. CASE i > 2
    <3>1. c[i] = s[i] /\ c[i - 1] = s[i - 1]
      BY <2>4, <1>2, <1>3, <1>4
    <3> QED
      BY <2>1, <3>1, <1>3
  <2>5. i = 1 \/ i = 2 \/ i > 2
    BY <1>2, <1>3
  <2> QED
    BY <2>2, <2>3, <2>4, <2>5
<1>6. GoodStack(c)
  BY <1>3, <1>5 DEF GoodStack
<1>7. ASSUME f \notin BootFrames, Head(s) \notin BootFrames
      PROVE  Stage(c) = Stage(s)
  <2>1. CASE Len(s) = 1
    BY <2>1, <1>2, <1>3, <1>7 DEF Stage
  <2>2. CASE Len(s) > 1
    <3>1. c[Len(c)] = s[Len(s)]
      BY <2>2, <1>2, <1>3, <1>4
    <3> QED
      BY <3>1, <1>3 DEF Stage
  <2> QED
    BY <2>1, <2>2, <1>2
<1>8. ASSUME NEW i \in 1 .. Len(c), c[i] = "keyboard_isr", f # "keyboard_isr"
      PROVE  On("keyboard_isr", s)
  <2>1. i \in 2 .. Len(s) /\ i \in 1 .. Len(s)
    BY <1>2, <1>3, <1>8
  <2> QED
    BY <2>1, <1>4, <1>8 DEF On
<1> QED
  BY <1>3, <1>6, <1>7, <1>8 DEF On

-----------------------------------------------------------------------------
(* The running stack after a step *)

(* A step that changed only the running stack left a good one. *)
TopStep ==
  /\ stack' \in [Threads -> Seq(Frames)]
  /\ \A t \in Threads : GoodStack(stack'[t])
  /\ \A t \in Threads \ {cpu} : stack'[t] = stack[t]
  /\ stack'[cpu] # <<>>
  /\ Stage(stack'[cpu]) = Stage(stack[cpu])
  /\ On("keyboard_isr", stack'[cpu]) =>
       On("keyboard_isr", stack[cpu]) \/ Stage(stack[Boot]) = "booted"

LEMMA Replaced ==
  ASSUME IInv, NEW s, GoodStack(s), s # <<>>,
         Stage(s) = Stage(stack[cpu]),
         On("keyboard_isr", s) => On("keyboard_isr", stack[cpu]) \/ Stage(stack[Boot]) = "booted",
         stack' = [stack EXCEPT ![cpu] = s]
  PROVE  TopStep /\ stack'[cpu] = s
<1>1. s \in Seq(Frames)
  BY DEF GoodStack
<1>2. stack \in [Threads -> Seq(Frames)] /\ cpu \in Threads
  BY DEF IInv, TypeOK, CpuInv
<1>3. /\ stack' \in [Threads -> Seq(Frames)]
      /\ stack'[cpu] = s
      /\ \A t \in Threads \ {cpu} : stack'[t] = stack[t]
  BY <1>1, <1>2
<1>4. \A t \in Threads : GoodStack(stack'[t])
  BY <1>3 DEF IInv, StacksInv
<1> QED
  BY <1>3, <1>4 DEF TopStep

LEMMA CallTop ==
  ASSUME IInv, NEW f \in Frames \ Bases, Call(f),
         Head(stack[cpu]) \notin Critical,
         Head(stack[cpu]) \in Halts => f \in Isrs,
         f = "keyboard_isr" => Stage(stack[Boot]) = "booted"
  PROVE  TopStep /\ Head(stack'[cpu]) = f
<1>1. GoodStack(stack[cpu]) /\ stack[cpu] # <<>>
  BY DEF IInv, StacksInv, CpuInv
<1>2. stack' = [stack EXCEPT ![cpu] = <<f>> \o stack[cpu]]
  BY DEF Call
<1> QED
  BY <1>1, <1>2, PushGood, Replaced

LEMMA ReturnTop ==
  ASSUME IInv, Return, Head(stack[cpu]) \notin Bases
  PROVE  /\ TopStep
         /\ Head(stack'[cpu]) \notin Critical
         /\ Head(stack'[cpu]) \in Halts => Head(stack[cpu]) \in Isrs
<1>1. GoodStack(stack[cpu]) /\ stack[cpu] # <<>>
  BY DEF IInv, StacksInv, CpuInv
<1>2. stack' = [stack EXCEPT ![cpu] = Tail(stack[cpu])]
  BY DEF Return, Below
<1> QED
  BY <1>1, <1>2, PopGood, Replaced

LEMMA GotoTop ==
  ASSUME IInv, NEW f \in Frames \ BootFrames, Goto(f), f # "keyboard_isr",
         Head(stack[cpu]) \notin Isrs \cup BootFrames,
         f \in Bases <=> Head(stack[cpu]) \in Bases
  PROVE  TopStep /\ Head(stack'[cpu]) = f
<1>1. GoodStack(stack[cpu]) /\ stack[cpu] # <<>>
  BY DEF IInv, StacksInv, CpuInv
<1>2. stack' = [stack EXCEPT ![cpu] = <<f>> \o Tail(stack[cpu])]
  BY DEF Goto, Below
<1> QED
  BY <1>1, <1>2, SwapGood, Replaced

LEMMA YieldTop ==
  ASSUME IInv, NEW s, NEW saved, EnterYield(s, saved),
         GoodStack(s), s # <<>>, Head(s) \notin Critical \cup Halts,
         Stage(s) = Stage(stack[cpu]), On("keyboard_isr", s) => On("keyboard_isr", stack[cpu])
  PROVE  TopStep /\ Head(stack'[cpu]) = "scan"
<1>1. stack' = [stack EXCEPT ![cpu] = <<"scan">> \o s]
  BY DEF EnterYield
<1>2. /\ "scan" \in Frames \ Bases
      /\ Head(s) \in Halts => "scan" \in Isrs
  BY DEF Frames, Bases, Halts, BootFrames
<1>3. /\ GoodStack(<<"scan">> \o s) /\ <<"scan">> \o s # <<>>
      /\ Head(<<"scan">> \o s) = "scan"
      /\ Stage(<<"scan">> \o s) = Stage(stack[cpu])
      /\ On("keyboard_isr", <<"scan">> \o s) => On("keyboard_isr", stack[cpu])
  BY <1>2, PushGood
<1> QED
  BY <1>1, <1>3, Replaced

-----------------------------------------------------------------------------
(* The invariant without its typing, for the two commonest kinds of step *)

LEMMA RingUnchanged ==
  ASSUME RingInv, UNCHANGED <<current, next, made>>,
         cpu' \in Linked \/ cpu' = cpu,
         \A t \in Threads : state'[t] = "FREE" <=> state[t] = "FREE",
         made # Null => made \in Threads
  PROVE  RingInv'
<1>1. Linked' = Linked /\ Linked \subseteq Threads
  BY DEF Linked
<1> QED
  BY <1>1 DEF RingInv

LEMMA BootKept ==
  ASSUME IInv, TopStep, current # Null, current' # Null, made' = made
  PROVE  BootInv'
<1>1. cpu \in Threads /\ Boot \in Threads
  BY DEF IInv, CpuInv, Threads
<1>2. \A t \in Threads : Stage(stack'[t]) = Stage(stack[t])
  BY <1>1 DEF TopStep
<1>3. ASSUME Stage(stack[Boot]) # "booted", NEW t \in Threads
      PROVE  ~On("keyboard_isr", stack'[t])
  BY <1>1, <1>3 DEF IInv, BootInv, TopStep
<1> QED
  BY <1>1, <1>2, <1>3 DEF IInv, BootInv

(* Threads, handlers and commands outside of scheduler_yield.              *)
LEMMA LocalStep ==
  ASSUME IInv, TopStep, current # Null,
         UNCHANGED <<current, next, made, esp, old, cpu, lock>>,
         Head(stack[cpu]) \notin Critical,
         Head(stack'[cpu]) \notin Critical,
         Head(stack'[cpu]) \in Halts => eif',
         \A t \in Threads : state'[t] = "FREE" <=> state[t] = "FREE"
  PROVE  StacksInv' /\ CpuInv' /\ LockInv' /\ BootInv' /\ RingInv'
<1>1. cpu \in Threads /\ stack[cpu] # <<>> /\ cpu # Null
  BY ThreadsAssumption DEF IInv, CpuInv
<1>2. ~Running("scan") /\ ~Running("window")
  BY DEF Running, Critical
<1>3. ~Running("scan")' /\ ~Running("window")'
  BY DEF Running, Critical
<1>4. StacksInv'
  BY <1>1 DEF IInv, StacksInv, TopStep
<1>5. CpuInv'
  BY <1>1, <1>2, <1>3 DEF IInv, CpuInv, TopStep
<1>6. LockInv'
  BY <1>2, <1>3 DEF IInv, LockInv
<1>7. BootInv'
  BY BootKept
<1>8. RingInv'
  BY RingUnchanged DEF IInv, TypeOK
<1> QED
  BY <1>4, <1>5, <1>6, <1>7, <1>8

(* Entering scheduler_yield.                                               *)
LEMMA EnterStep ==
  ASSUME IInv, TopStep, current # Null, NEW s, NEW saved, EnterYield(s, saved),
         UNCHANGED <<current, next, made, esp, old, cpu, state>>,
         Head(stack[cpu]) \notin Critical,
         Head(stack'[cpu]) = "scan"
  PROVE  StacksInv' /\ CpuInv' /\ LockInv' /\ BootInv' /\ RingInv'
<1>1. cpu \in Threads /\ stack[cpu] # <<>> /\ cpu # Null
  BY ThreadsAssumption DEF IInv, CpuInv
<1>2. ~Running("scan") /\ ~Running("window")
  BY DEF Running, Critical
<1>3. Running("scan")' /\ ~Running("window")'
  BY <1>1 DEF Running, TopStep
<1>4. StacksInv'
  BY <1>1 DEF IInv, StacksInv, TopStep
<1>5. CpuInv'
  <2>1. "scan" \notin Halts
    BY DEF Halts, BootFrames
  <2> QED
    BY <1>1, <1>2, <1>3, <2>1 DEF IInv, CpuInv, TopStep
<1>6. LockInv'
  <2>1. current # Null /\ current \in Linked /\ next[current] \in Linked
    BY DEF IInv, RingInv
  <2>2. Linked' = Linked
    BY DEF Linked
  <2> QED
    BY <1>3, <2>1, <2>2 DEF LockInv, EnterYield
<1>7. BootInv'
  BY BootKept
<1>8. RingInv'
  BY RingUnchanged DEF IInv, TypeOK
<1> QED
  BY <1>4, <1>5, <1>6, <1>7, <1>8

-----------------------------------------------------------------------------
(* Threads and interrupt handlers, one lemma per action *)

LEMMA AfterBoot ==
  ASSUME IInv, NEW f \in Frames \ BootFrames, Running(f)
  PROVE  current # Null
<1>1. SUFFICES ASSUME current = Null PROVE FALSE
  OBVIOUS
<1>2. /\ cpu = Boot /\ Len(stack[Boot]) = 1 /\ Head(stack[Boot]) = f
      /\ stack[Boot] \in Seq(Frames) /\ stack[Boot] # <<>>
  BY <1>1 DEF IInv, BootInv, Running, TypeOK, Threads
<1>3. stack[Boot][Len(stack[Boot])] = f
  BY <1>2, TailFacts
<1>4. Stage(stack[Boot]) = "scheduler_initialize"
  BY <1>1 DEF IInv, BootInv
<1> QED
  BY <1>3, <1>4 DEF Stage, BootFrames

(* A command that runs has begun after the boot. *)
LEMMA CommandBooted ==
  ASSUME IInv, Running("keyboard_isr")
  PROVE  Stage(stack[Boot]) = "booted"
<1>1. cpu \in Threads /\ stack[cpu] # <<>> /\ stack[cpu] \in Seq(Frames)
  BY DEF IInv, CpuInv, TypeOK
<1>2. 1 \in 1 .. Len(stack[cpu]) /\ stack[cpu][1] = "keyboard_isr"
  BY <1>1, TailFacts DEF Running
<1>3. On("keyboard_isr", stack[cpu])
  BY <1>2 DEF On
<1> QED
  BY <1>1, <1>3 DEF IInv, BootInv

LEMMA ModRange ==
  ASSUME NEW i \in Nat
  PROVE  i % TickMod \in 0 .. TickMod - 1
  BY ClockAssumption

LEMMA ReturnFromSwitchKeeps ==
  ASSUME IInv, ReturnFromSwitch
  PROVE  IInv'
<1>1. /\ Head(stack[cpu]) = "context_switch" /\ current # Null
      /\ Head(stack[cpu]) \notin Bases \cup Isrs \cup Critical
  BY AfterBoot DEF ReturnFromSwitch, Running, Frames, Bases, Halts, BootFrames, Isrs, Critical
<1>2. /\ TopStep
      /\ Head(stack'[cpu]) \notin Critical
      /\ Head(stack'[cpu]) \notin Halts
  BY <1>1, ReturnTop DEF ReturnFromSwitch
<1>3. StacksInv' /\ CpuInv' /\ LockInv' /\ BootInv' /\ RingInv'
  BY <1>1, <1>2, LocalStep DEF ReturnFromSwitch, ring, locals, signals
<1>4. TypeOK'
  BY <1>2 DEF IInv, TypeOK, TopStep, ReturnFromSwitch, ring, locals, signals
<1> QED
  BY <1>3, <1>4 DEF IInv

LEMMA SleepReturnKeeps ==
  ASSUME IInv, SleepReturn
  PROVE  IInv'
<1>1. /\ Head(stack[cpu]) = "slept" /\ current # Null
      /\ Head(stack[cpu]) \notin Bases \cup Isrs \cup Critical
  BY AfterBoot DEF SleepReturn, Running, Frames, Bases, Halts, BootFrames, Isrs, Critical
<1>2. /\ TopStep
      /\ Head(stack'[cpu]) \notin Critical
      /\ Head(stack'[cpu]) \notin Halts
  BY <1>1, ReturnTop DEF SleepReturn
<1>3. StacksInv' /\ CpuInv' /\ LockInv' /\ BootInv' /\ RingInv'
  BY <1>1, <1>2, LocalStep DEF SleepReturn, ring, locals, signals
<1>4. TypeOK'
  BY <1>2 DEF IInv, TypeOK, TopStep, SleepReturn, ring, locals, signals
<1> QED
  BY <1>3, <1>4 DEF IInv

LEMMA IretKeeps ==
  ASSUME IInv, Iret
  PROVE  IInv'
<1>1. /\ Head(stack[cpu]) = "timer_isr" /\ current # Null
      /\ Head(stack[cpu]) \notin Bases \cup Critical
  BY AfterBoot DEF Iret, Running, Frames, Bases, Halts, BootFrames, Critical
<1>2. TopStep /\ Head(stack'[cpu]) \notin Critical
  BY <1>1, ReturnTop DEF Iret
<1>3. StacksInv' /\ CpuInv' /\ LockInv' /\ BootInv' /\ RingInv'
  BY <1>1, <1>2, LocalStep DEF Iret, ring, locals, signals
<1>4. TypeOK'
  BY <1>2 DEF IInv, TypeOK, TopStep, Iret, ring, locals, signals
<1> QED
  BY <1>3, <1>4 DEF IInv

LEMMA KeyboardReturnKeeps ==
  ASSUME IInv, KeyboardReturn
  PROVE  IInv'
<1>1. /\ Head(stack[cpu]) = "keyboard_isr" /\ current # Null
      /\ Head(stack[cpu]) \notin Bases \cup Critical
  BY AfterBoot DEF KeyboardReturn, Running, Frames, Bases, Halts, BootFrames, Critical
<1>2. TopStep /\ Head(stack'[cpu]) \notin Critical
  BY <1>1, ReturnTop DEF KeyboardReturn
<1>3. StacksInv' /\ CpuInv' /\ LockInv' /\ BootInv' /\ RingInv'
  BY <1>1, <1>2, LocalStep DEF KeyboardReturn, ring, locals
<1>4. TypeOK'
  BY <1>2 DEF IInv, TypeOK, TopStep, KeyboardReturn, ring, locals
<1> QED
  BY <1>3, <1>4 DEF IInv

LEMMA StartThreadKeeps ==
  ASSUME IInv, StartThread
  PROVE  IInv'
<1> DEFINE f == IF cpu = Idle THEN "idle_loop" ELSE "entry"
<1>1. /\ Head(stack[cpu]) = "thread_trampoline" /\ current # Null
      /\ Head(stack[cpu]) \notin Isrs \cup Critical \cup BootFrames
      /\ Head(stack[cpu]) \in Bases
  BY AfterBoot DEF StartThread, Running, Frames, Bases, Halts, BootFrames, Isrs, Critical
<1>2. /\ f \in Frames \ BootFrames /\ f \in Bases /\ f \notin Critical
      /\ f # "keyboard_isr"
  BY DEF Frames, BootFrames, Bases, Halts, Critical
<1>3. TopStep /\ Head(stack'[cpu]) = f
  BY <1>1, <1>2, GotoTop DEF StartThread
<1>4. StacksInv' /\ CpuInv' /\ LockInv' /\ BootInv' /\ RingInv'
  BY <1>1, <1>2, <1>3, LocalStep DEF StartThread, ring, locals, signals
<1>5. TypeOK'
  BY <1>3 DEF IInv, TypeOK, TopStep, StartThread, ring, locals, signals
<1> QED
  BY <1>4, <1>5 DEF IInv

LEMMA BlockKeeps ==
  ASSUME IInv, Block
  PROVE  IInv'
<1>1. /\ Head(stack[cpu]) = "thread_sleep" /\ current # Null
      /\ Head(stack[cpu]) \notin Isrs \cup Critical \cup Bases \cup BootFrames
  BY AfterBoot DEF Block, Running, Frames, Bases, Halts, BootFrames, Isrs, Critical
<1>2. "blocked" \in Frames \ BootFrames /\ "blocked" \notin Bases \cup Critical \cup Halts
  BY DEF Frames, BootFrames, Bases, Halts, Critical
<1>3. TopStep /\ Head(stack'[cpu]) = "blocked"
  BY <1>1, <1>2, GotoTop DEF Block
<1>4. \A t \in Threads : state'[t] = "FREE" <=> state[t] = "FREE"
  BY DEF Block, IInv, TypeOK, StacksInv, CpuInv
<1>5. StacksInv' /\ CpuInv' /\ LockInv' /\ BootInv' /\ RingInv'
  BY <1>1, <1>2, <1>3, <1>4, LocalStep DEF Block, ring, locals, signals
<1>6. TypeOK'
  BY <1>3 DEF IInv, TypeOK, TopStep, Block, States, ring, locals, signals
<1> QED
  BY <1>5, <1>6 DEF IInv

LEMMA EntryReturnKeeps ==
  ASSUME IInv, EntryReturn
  PROVE  IInv'
<1>1. /\ Head(stack[cpu]) = "entry" /\ current # Null
      /\ Head(stack[cpu]) \notin Isrs \cup Critical \cup BootFrames
      /\ Head(stack[cpu]) \in Bases
  BY AfterBoot DEF EntryReturn, Running, Frames, Bases, Halts, BootFrames, Isrs, Critical
<1>2. "exit" \in Frames \ BootFrames /\ "exit" \in Bases /\ "exit" \notin Critical \cup Halts
  BY DEF Frames, BootFrames, Bases, Halts, Critical
<1>3. TopStep /\ Head(stack'[cpu]) = "exit"
  BY <1>1, <1>2, GotoTop DEF EntryReturn
<1>4. current = cpu
  BY <1>1 DEF IInv, CpuInv, Running
<1>5. \A t \in Threads : state'[t] = "FREE" <=> state[t] = "FREE"
  BY <1>4 DEF EntryReturn, IInv, TypeOK, StacksInv, CpuInv
<1>6. StacksInv' /\ CpuInv' /\ LockInv' /\ BootInv' /\ RingInv'
  BY <1>1, <1>2, <1>3, <1>5, LocalStep DEF EntryReturn, ring, locals, signals
<1>7. TypeOK'
  BY <1>3 DEF IInv, TypeOK, TopStep, EntryReturn, States, ring, locals, signals
<1> QED
  BY <1>6, <1>7 DEF IInv

LEMMA SleepKeeps ==
  ASSUME IInv, Sleep
  PROVE  IInv'
<1>1. /\ Head(stack[cpu]) \in {"entry", "keyboard_isr"} /\ current # Null
      /\ Head(stack[cpu]) \notin Critical \cup Halts
  BY AfterBoot DEF Sleep, InCode, Running, Frames, Halts, BootFrames, Critical
<1>2. "thread_sleep" \in Frames \ Bases /\ "thread_sleep" \notin Critical \cup Halts
  BY DEF Frames, BootFrames, Bases, Halts, Critical
<1>3. TopStep /\ Head(stack'[cpu]) = "thread_sleep"
  BY <1>1, <1>2, CallTop DEF Sleep
<1>4. StacksInv' /\ CpuInv' /\ LockInv' /\ BootInv' /\ RingInv'
  BY <1>1, <1>2, <1>3, LocalStep DEF Sleep, ring, locals, signals
<1>5. wake_at' \in [Threads -> 0 .. TickMod - 1] /\ left' \in [Threads -> 0 .. MaxSleep]
  <2>1. PICK n \in 0 .. MaxSleep :
          /\ wake_at' = [wake_at EXCEPT ![current] = (ticks + n) % TickMod]
          /\ left' = [left EXCEPT ![current] = n]
    BY DEF Sleep
  <2>2. ticks + n \in Nat
    BY ClockAssumption DEF IInv, TypeOK
  <2>3. (ticks + n) % TickMod \in 0 .. TickMod - 1
    BY <2>2, ModRange
  <2> QED
    BY <2>1, <2>3 DEF IInv, TypeOK
<1>6. TypeOK'
  BY <1>3, <1>5 DEF IInv, TypeOK, TopStep, Sleep, ring, locals, signals
<1> QED
  BY <1>4, <1>6 DEF IInv

(* What an interrupt that is not untimely finds.                           *)
LEMMA TimelyInterrupt ==
  ASSUME IInv, Interruptible, ~Untimely
  PROVE  current # Null /\ Head(stack[cpu]) \notin Critical
  BY DEF Interruptible, Untimely, Running, Critical, IInv, LockInv

LEMMA KeyboardInterruptKeeps ==
  ASSUME IInv, ~untimely', KeyboardInterrupt
  PROVE  IInv'
<1>1. Stage(stack[Boot]) = "booted"
  BY DEF KeyboardInterrupt, Quiet, Stage, BootFrames
<1>2. current # Null /\ Head(stack[cpu]) \notin Critical
  BY TimelyInterrupt DEF KeyboardInterrupt
<1>3. /\ "keyboard_isr" \in Frames \ Bases
      /\ "keyboard_isr" \in Isrs
      /\ "keyboard_isr" \notin Critical \cup Halts
  BY DEF Frames, BootFrames, Bases, Halts, Critical, Isrs
<1>4. TopStep /\ Head(stack'[cpu]) = "keyboard_isr"
  BY <1>1, <1>2, <1>3, CallTop DEF KeyboardInterrupt
<1>5. StacksInv' /\ CpuInv' /\ LockInv' /\ BootInv' /\ RingInv'
  BY <1>1, <1>2, <1>3, <1>4, LocalStep DEF KeyboardInterrupt, ring, locals
<1>6. TypeOK'
  BY <1>4 DEF IInv, TypeOK, TopStep, KeyboardInterrupt, ring, locals
<1> QED
  BY <1>5, <1>6 DEF IInv

LEMMA TestStiKeeps ==
  ASSUME IInv, TestSti
  PROVE  IInv'
<1>1. /\ Head(stack[cpu]) = "keyboard_isr" /\ current # Null
      /\ Head(stack[cpu]) \notin Critical
  BY AfterBoot DEF TestSti, Running, Frames, Bases, Halts, BootFrames, Critical
<1>2. TopStep
  BY <1>1 DEF TestSti, TopStep, IInv, TypeOK, StacksInv, CpuInv
<1>3. StacksInv' /\ CpuInv' /\ LockInv' /\ BootInv' /\ RingInv'
  BY <1>1, <1>2, LocalStep DEF TestSti, ring, locals, signals
<1>4. TypeOK'
  BY DEF IInv, TypeOK, TestSti, ring, locals, signals
<1> QED
  BY <1>3, <1>4 DEF IInv

-----------------------------------------------------------------------------
(* scheduler_yield, one lemma per action *)

LEMMA EnterTyped ==
  ASSUME IInv, current # Null, NEW s, NEW saved \in BOOLEAN, EnterYield(s, saved)
  PROVE  /\ flags' \in BOOLEAN /\ eif' \in BOOLEAN /\ lock' \in BOOLEAN
         /\ {prev', candidate'} \subseteq Threads \cup {Null}
<1>1. flags' \in BOOLEAN /\ eif' \in BOOLEAN /\ lock' \in BOOLEAN
  BY Zenon DEF EnterYield
<1>2. current \in Threads /\ next \in [Threads -> Threads \cup {Null}]
  BY DEF IInv, TypeOK
<1>3. prev' = current /\ candidate' = next[current]
  BY DEF EnterYield
<1> QED
  BY <1>1, <1>2, <1>3

LEMMA CallYieldKeeps ==
  ASSUME IInv, CallYield
  PROVE  IInv'
<1>1. /\ Head(stack[cpu]) \in {"entry", "keyboard_isr"} /\ current # Null
      /\ Head(stack[cpu]) \notin Critical \cup Halts
  BY AfterBoot DEF CallYield, InCode, Running, Frames, Halts, BootFrames, Critical
<1>2. GoodStack(stack[cpu]) /\ stack[cpu] # <<>> /\ EnterYield(stack[cpu], eif)
  BY DEF IInv, StacksInv, CpuInv, CallYield
<1>3. TopStep /\ Head(stack'[cpu]) = "scan"
  BY <1>1, <1>2, YieldTop
<1>4. StacksInv' /\ CpuInv' /\ LockInv' /\ BootInv' /\ RingInv'
  BY <1>1, <1>2, <1>3, EnterStep DEF CallYield, ring, signals
<1>5. TypeOK'
  <2>1. eif \in BOOLEAN
    BY DEF IInv, TypeOK
  <2>2. /\ flags' \in BOOLEAN /\ eif' \in BOOLEAN /\ lock' \in BOOLEAN
        /\ {prev', candidate'} \subseteq Threads \cup {Null}
    BY <1>1, <1>2, <2>1, EnterTyped
  <2> QED
    BY <1>3, <2>2 DEF IInv, TypeOK, TopStep, CallYield, ring, signals
<1> QED
  BY <1>4, <1>5 DEF IInv

LEMMA ExitYieldKeeps ==
  ASSUME IInv, ExitYield
  PROVE  IInv'
<1>1. /\ Head(stack[cpu]) = "exit" /\ current # Null
      /\ Head(stack[cpu]) \notin Critical \cup Halts
  BY AfterBoot DEF ExitYield, Running, Frames, Halts, BootFrames, Critical
<1>2. GoodStack(stack[cpu]) /\ stack[cpu] # <<>> /\ EnterYield(stack[cpu], eif)
  BY DEF IInv, StacksInv, CpuInv, ExitYield
<1>3. TopStep /\ Head(stack'[cpu]) = "scan"
  BY <1>1, <1>2, YieldTop
<1>4. StacksInv' /\ CpuInv' /\ LockInv' /\ BootInv' /\ RingInv'
  BY <1>1, <1>2, <1>3, EnterStep DEF ExitYield, ring, signals
<1>5. TypeOK'
  <2>1. eif \in BOOLEAN
    BY DEF IInv, TypeOK
  <2>2. /\ flags' \in BOOLEAN /\ eif' \in BOOLEAN /\ lock' \in BOOLEAN
        /\ {prev', candidate'} \subseteq Threads \cup {Null}
    BY <1>1, <1>2, <2>1, EnterTyped
  <2> QED
    BY <1>3, <2>2 DEF IInv, TypeOK, TopStep, ExitYield, ring, signals
<1> QED
  BY <1>4, <1>5 DEF IInv

LEMMA SleepYieldKeeps ==
  ASSUME IInv, SleepYield
  PROVE  IInv'
<1> DEFINE s == <<"slept">> \o Below
<1>1. /\ Head(stack[cpu]) = "blocked" /\ current # Null
      /\ Head(stack[cpu]) \notin Critical \cup Isrs \cup Bases
  BY AfterBoot DEF SleepYield, Running, Frames, Bases, Halts, BootFrames, Critical, Isrs
<1>2. /\ "slept" \in Frames \ BootFrames
      /\ "slept" \notin Bases \cup Critical \cup Halts
  BY DEF Frames, Bases, Halts, BootFrames, Critical
<1>3. GoodStack(stack[cpu]) /\ stack[cpu] # <<>> /\ EnterYield(s, eif)
  BY DEF IInv, StacksInv, CpuInv, SleepYield
<1>4. /\ GoodStack(s) /\ s # <<>> /\ Head(s) = "slept"
      /\ Stage(s) = Stage(stack[cpu])
      /\ On("keyboard_isr", s) => On("keyboard_isr", stack[cpu])
  BY <1>1, <1>2, <1>3, SwapGood DEF Below, Bases, Halts
<1>5. TopStep /\ Head(stack'[cpu]) = "scan"
  BY <1>2, <1>3, <1>4, YieldTop
<1>6. StacksInv' /\ CpuInv' /\ LockInv' /\ BootInv' /\ RingInv'
  BY <1>1, <1>3, <1>5, EnterStep DEF SleepYield, ring, signals
<1>7. TypeOK'
  <2>1. eif \in BOOLEAN
    BY DEF IInv, TypeOK
  <2>2. /\ flags' \in BOOLEAN /\ eif' \in BOOLEAN /\ lock' \in BOOLEAN
        /\ {prev', candidate'} \subseteq Threads \cup {Null}
    BY <1>1, <1>3, <2>1, EnterTyped
  <2> QED
    BY <1>5, <2>2 DEF IInv, TypeOK, TopStep, SleepYield, ring, signals
<1> QED
  BY <1>6, <1>7 DEF IInv

LEMMA TimerInterruptKeeps ==
  ASSUME IInv, ~untimely', TimerInterrupt
  PROVE  IInv'
<1> DEFINE s == <<"timer_isr">> \o stack[cpu]
<1>1. current # Null /\ Head(stack[cpu]) \notin Critical
  BY TimelyInterrupt DEF TimerInterrupt
<1>2. EnterYield(s, FALSE) /\ cpu' = cpu
  BY <1>1 DEF TimerInterrupt
<1>3. untimely' \in BOOLEAN
  BY DEF TimerInterrupt, Untimely
<1>4. /\ "timer_isr" \in Frames \ Bases /\ "timer_isr" \in Isrs
      /\ "timer_isr" \notin Critical \cup Halts
  BY DEF Frames, Bases, Halts, BootFrames, Critical, Isrs
<1>5. GoodStack(stack[cpu]) /\ stack[cpu] # <<>>
  BY DEF IInv, StacksInv, CpuInv
<1>6. /\ GoodStack(s) /\ s # <<>> /\ Head(s) = "timer_isr"
      /\ Stage(s) = Stage(stack[cpu])
      /\ On("keyboard_isr", s) => On("keyboard_isr", stack[cpu])
  BY <1>1, <1>4, <1>5, PushGood
<1>7. TopStep /\ Head(stack'[cpu]) = "scan"
  BY <1>2, <1>4, <1>6, YieldTop
<1>8. StacksInv' /\ CpuInv' /\ LockInv' /\ BootInv' /\ RingInv'
  BY <1>1, <1>2, <1>7, EnterStep DEF TimerInterrupt, ring
<1>9. left' \in [Threads -> 0 .. MaxSleep] /\ ticks' \in 0 .. TickMod - 1
  <2>1. ticks + 1 \in Nat
    BY ClockAssumption DEF IInv, TypeOK
  <2>2. left' = [t \in Threads |-> IF left[t] = 0 THEN 0 ELSE left[t] - 1]
    BY DEF TimerInterrupt
  <2>3. \A t \in Threads : left[t] \in 0 .. MaxSleep
    BY DEF IInv, TypeOK
  <2>4. left' \in [Threads -> 0 .. MaxSleep]
    BY <2>2, <2>3, ClockAssumption
  <2> QED
    BY <2>1, <2>4, ModRange DEF TimerInterrupt
<1>10. TypeOK'
  <2>1. /\ flags' \in BOOLEAN /\ eif' \in BOOLEAN /\ lock' \in BOOLEAN
        /\ {prev', candidate'} \subseteq Threads \cup {Null}
    BY <1>1, <1>2, EnterTyped
  <2> QED
    BY <1>2, <1>3, <1>7, <1>9, <2>1
       DEF IInv, TypeOK, TopStep, TimerInterrupt, ring
<1> QED
  BY <1>8, <1>10 DEF IInv

LEMMA InScan ==
  ASSUME IInv, Running("scan")
  PROVE  /\ Head(stack[cpu]) = "scan" /\ ~Running("window")
         /\ current # Null /\ current = cpu /\ cpu \in Threads
         /\ lock /\ ~eif
         /\ current \in Linked /\ prev \in Linked /\ candidate \in Linked
         /\ next[prev] = candidate /\ next[candidate] \in Linked
         /\ Linked \subseteq Threads
<1>1. Head(stack[cpu]) = "scan" /\ ~Running("window")
  BY DEF Running
<1>2. "scan" \in Frames \ BootFrames
  BY DEF Frames, BootFrames
<1>3. current # Null
  BY <1>2, AfterBoot
<1> QED
  BY <1>1, <1>3 DEF IInv, LockInv, CpuInv, RingInv, Linked

LEMMA ScanSkipKeeps ==
  ASSUME IInv, ScanSkip
  PROVE  IInv'
<1>1. Running("scan")
  BY DEF ScanSkip
<1>2. Running("scan")' /\ ~Running("window")' /\ Linked' = Linked
  BY <1>1, InScan DEF ScanSkip, Running, ring, Linked
<1>3. StacksInv' /\ CpuInv' /\ BootInv'
  BY <1>1, <1>2, InScan DEF IInv, StacksInv, CpuInv, BootInv, ScanSkip, ring, signals
<1>4. LockInv'
  BY <1>1, <1>2, InScan DEF LockInv, ScanSkip, ring
<1>5. RingInv'
  BY RingUnchanged DEF IInv, TypeOK, ScanSkip, ring
<1>6. TypeOK'
  BY <1>1, InScan DEF IInv, TypeOK, ScanSkip, ring, signals
<1> QED
  BY <1>3, <1>4, <1>5, <1>6 DEF IInv

LEMMA ScanNoneKeeps ==
  ASSUME IInv, ScanNone
  PROVE  IInv'
<1>1. Running("scan")
  BY DEF ScanNone
<1>2. "scan" \notin Bases \cup Isrs
  BY DEF Bases, Halts, BootFrames, Isrs
<1>3. /\ TopStep
      /\ Head(stack'[cpu]) \notin Critical
      /\ Head(stack'[cpu]) \notin Halts
  BY <1>1, <1>2, InScan, ReturnTop DEF ScanNone
<1>4. ~Running("scan")' /\ ~Running("window")' /\ cpu' = cpu
  BY <1>3 DEF Running, Critical, ScanNone
<1>5. StacksInv'
  BY <1>3 DEF IInv, StacksInv, CpuInv, TopStep, ScanNone
<1>6. CpuInv'
  BY <1>1, <1>3, <1>4, InScan DEF IInv, CpuInv, TopStep, ScanNone, ring
<1>7. LockInv' /\ BootInv'
  BY <1>1, <1>3, <1>4, InScan, BootKept DEF LockInv, ScanNone, ring
<1>8. RingInv'
  BY RingUnchanged DEF IInv, TypeOK, ScanNone, ring
<1>9. TypeOK'
  BY <1>3 DEF IInv, TypeOK, TopStep, ScanNone, ring, signals
<1> QED
  BY <1>5, <1>6, <1>7, <1>8, <1>9 DEF IInv

LEMMA ScanPickKeeps ==
  ASSUME IInv, ScanPick
  PROVE  IInv'
<1>1. Running("scan") /\ candidate # current /\ candidate # Null
  BY InScan, ThreadsAssumption DEF ScanPick
<1>2. /\ "scan" \notin Bases \cup Isrs \cup BootFrames
      /\ "window" \in Frames \ BootFrames
      /\ "window" \notin Bases \cup Halts
  BY DEF Frames, Bases, Halts, BootFrames, Isrs
<1>3. TopStep /\ Head(stack'[cpu]) = "window" /\ cpu' = cpu
  BY <1>1, <1>2, InScan, GotoTop DEF ScanPick
<1>4. ~Running("scan")' /\ Running("window")'
  BY <1>1, <1>3, InScan, ThreadsAssumption DEF Running, TopStep
<1>5. \A t \in Threads : state'[t] = "FREE" <=> state[t] = "FREE"
  BY <1>1, InScan DEF ScanPick, IInv, TypeOK
<1>6. StacksInv'
  BY <1>3, <1>5 DEF IInv, StacksInv, CpuInv, TopStep
<1>7. old[cpu] = <<>> /\ old' = [old EXCEPT ![cpu] = <<cpu>>]
  <2>1. old[cpu] = <<>>
    BY <1>1, InScan DEF IInv, CpuInv
  <2>2. old' = [old EXCEPT ![cpu] = <<current>> \o old[cpu]]
    BY DEF ScanPick
  <2>3. <<current>> \o <<>> = <<cpu>>
    BY <1>1, InScan
  <2> QED
    BY <2>1, <2>2, <2>3
<1>8. CpuInv'
  <2>1. cpu \in Threads /\ current = cpu /\ ~Running("window")
    BY <1>1, InScan
  <2>2. /\ current' = candidate /\ candidate # cpu /\ candidate # Null
        /\ esp' = esp
    BY <1>1, <2>1 DEF ScanPick
  <2>3. \A t \in Threads \ {cpu'} :
          stack'[t] # <<>> => esp'[t] = t /\ Head(stack'[t]) \in Resumable
    BY <1>3, <2>2 DEF IInv, CpuInv, TopStep
  <2>4. \A t \in Threads : old'[t] = IF t = cpu' THEN <<t>> ELSE <<>>
    BY <1>3, <1>7, <2>1 DEF IInv, CpuInv, TypeOK
  <2>5. cpu' \in Threads /\ stack'[cpu'] # <<>> /\ Head(stack'[cpu']) \notin Halts
    BY <1>2, <1>3, <2>1 DEF TopStep
  <2> QED
    BY <1>3, <1>4, <2>1, <2>2, <2>3, <2>4, <2>5 DEF CpuInv
<1>9. LockInv' /\ BootInv'
  <2>1. ~lock'
    BY DEF ScanPick
  <2>2. LockInv'
    BY <1>4, <2>1 DEF LockInv
  <2>3. current # Null /\ current' # Null /\ made' = made
    BY <1>1, InScan DEF ScanPick
  <2> QED
    BY <1>3, <2>2, <2>3, BootKept
<1>10. RingInv'
  <2>1. Linked' = Linked /\ Linked \subseteq Threads
    BY DEF Linked, ScanPick
  <2>2. /\ current' = candidate /\ cpu' = cpu /\ next' = next /\ made' = made
        /\ candidate \in Linked /\ cpu \in Linked /\ current # Null
    BY <1>1, <1>3, InScan DEF ScanPick
  <2>3. made # Null => made \in Threads
    BY DEF IInv, TypeOK
  <2> QED
    BY <1>1, <1>5, <2>1, <2>2, <2>3 DEF IInv, RingInv
<1>11. TypeOK'
  <2>1. state' \in [Threads -> States]
    BY <1>1, InScan DEF IInv, TypeOK, ScanPick, States
  <2>2. old' \in [Threads -> Seq(Threads)]
    BY <1>1, <1>7, InScan DEF IInv, TypeOK
  <2> QED
    BY <1>1, <1>3, <2>1, <2>2, InScan DEF IInv, TypeOK, TopStep, ScanPick, signals
<1> QED
  BY <1>6, <1>8, <1>9, <1>10, <1>11 DEF IInv

-----------------------------------------------------------------------------
(* The list: unlinking and linking keep it one cycle *)

LEMMA NotItsOwnPredecessor ==
  ASSUME RingInv, NEW c \in Linked, current # Null, c # current
  PROVE  next[c] # c
<1> SUFFICES ASSUME next[c] = c PROVE FALSE
  OBVIOUS
<1> DEFINE S == Linked \ {c}
<1>1. current \in S
  BY DEF RingInv
<1>2. \A t \in S : next[t] \in S
  BY DEF RingInv
<1>3. S \in SUBSET Linked /\ S # {} /\ c \notin S
  BY <1>1
<1> HIDE DEF S
<1> QED
  BY <1>2, <1>3 DEF RingInv

LEMMA Unlink ==
  ASSUME RingInv, next \in [Threads -> Threads \cup {Null}],
         NEW p \in Linked, NEW c \in Linked, next[p] = c, p # c,
         next' = [next EXCEPT ![p] = next[c], ![c] = Null]
  PROVE  /\ Linked' = Linked \ {c}
         /\ \A t \in Linked' : next'[t] \in Linked'
         /\ \A s, t \in Linked' : next'[s] = next'[t] => s = t
         /\ \A S \in SUBSET Linked' :
              S # {} /\ (\A t \in S : next'[t] \in S) => S = Linked'
         /\ next'[p] = next[c] /\ next[c] # c
<1>1. /\ Linked \subseteq Threads /\ Linked' = {t \in Threads : next'[t] # Null}
      /\ Linked = {t \in Threads : next[t] # Null}
  BY DEF Linked
<1>2. /\ next'[p] = next[c] /\ next'[c] = Null
      /\ \A t \in Threads \ {p, c} : next'[t] = next[t]
  BY <1>1
<1>3. next[c] \in Linked /\ next[c] # c
  BY DEF RingInv
<1>4. next[c] # Null
  BY <1>1, <1>3
<1>5. Linked' = Linked \ {c}
  BY <1>1, <1>2, <1>4
<1>6. \A t \in Linked \ {c} : next'[t] = IF t = p THEN next[c] ELSE next[t]
  BY <1>1, <1>2
<1>7. ASSUME NEW t \in Linked' PROVE next'[t] \in Linked'
  <2>1. t \in Linked /\ t # c
    BY <1>5
  <2>2. CASE t = p
    BY <2>2, <1>2, <1>3, <1>5
  <2>3. CASE t # p
    <3>1. next'[t] = next[t] /\ next[t] \in Linked
      BY <2>1, <2>3, <1>6 DEF RingInv
    <3>2. next[t] # c
      BY <2>1, <2>3 DEF RingInv
    <3> QED
      BY <3>1, <3>2, <1>5
  <2> QED
    BY <2>2, <2>3
<1>8. \A s, t \in Linked' : next'[s] = next'[t] => s = t
  BY <1>5, <1>6 DEF RingInv
<1>9. ASSUME NEW S \in SUBSET Linked', S # {}, \A t \in S : next'[t] \in S
      PROVE  S = Linked'
  <2> DEFINE R == IF p \in S THEN S \cup {c} ELSE S
  <2>1. R \in SUBSET Linked /\ R # {}
    BY <1>5, <1>9
  <2>2. \A t \in R : next[t] \in R
    BY <1>5, <1>6, <1>9
  <2>3. R = Linked
    <3> HIDE DEF R
    <3> QED
      BY <2>1, <2>2 DEF RingInv
  <2>4. p \in S
    BY <2>3, <1>5, <1>9
  <2> QED
    BY <2>3, <2>4, <1>5, <1>9
<1> QED
  BY <1>2, <1>3, <1>5, <1>7, <1>8, <1>9

LEMMA Link ==
  ASSUME RingInv, next \in [Threads -> Threads \cup {Null}], current # Null,
         NEW m \in Threads \ Linked, m # Null,
         next' = [next EXCEPT ![m] = next[current], ![current] = m]
  PROVE  /\ Linked' = Linked \cup {m}
         /\ \A t \in Linked' : next'[t] \in Linked'
         /\ \A s, t \in Linked' : next'[s] = next'[t] => s = t
         /\ \A S \in SUBSET Linked' :
              S # {} /\ (\A t \in S : next'[t] \in S) => S = Linked'
<1>1. /\ Linked \subseteq Threads /\ Linked' = {t \in Threads : next'[t] # Null}
      /\ Linked = {t \in Threads : next[t] # Null}
  BY DEF Linked
<1>2. current \in Linked /\ next[current] \in Linked /\ current # m
  BY DEF RingInv
<1>3. /\ next'[m] = next[current] /\ next'[current] = m
      /\ \A t \in Threads \ {m, current} : next'[t] = next[t]
  BY <1>1, <1>2
<1>4. Linked' = Linked \cup {m}
  BY <1>1, <1>2, <1>3
<1>5. \A t \in Linked \ {current} : next'[t] = next[t] /\ next[t] \in Linked
  BY <1>1, <1>3 DEF RingInv
<1>6. ASSUME NEW t \in Linked' PROVE next'[t] \in Linked'
  <2>1. CASE t = m
    BY <2>1, <1>2, <1>3, <1>4
  <2>2. CASE t = current
    BY <2>2, <1>3, <1>4
  <2>3. CASE t \in Linked \ {current}
    <3>1. next'[t] = next[t] /\ next[t] \in Linked
      BY <2>3, <1>5
    <3> QED
      BY <3>1, <1>4
  <2>4. t = m \/ t \in Linked
    BY <1>4
  <2> QED
    BY <2>1, <2>2, <2>3, <2>4
<1>7. ASSUME NEW s \in Linked', NEW t \in Linked', next'[s] = next'[t]
      PROVE  s = t
  <2>1. next[s] = next[t] /\ s \in Linked /\ t \in Linked => s = t
    BY DEF RingInv
  <2>2. /\ s \in Linked \ {current} => next'[s] = next[s] /\ next[s] # m
        /\ t \in Linked \ {current} => next'[t] = next[t] /\ next[t] # m
    BY <1>5
  <2>3. CASE s = m /\ t # m
    <3>1. CASE t = current
      BY <3>1, <2>3, <1>2, <1>3, <1>7
    <3>2. CASE t \in Linked \ {current}
      <4>1. next[t] = next[current]
        BY <3>2, <2>3, <2>2, <1>3, <1>7
      <4> QED
        BY <4>1, <3>2, <1>2 DEF RingInv
    <3> QED
      BY <3>1, <3>2, <2>3, <1>4
  <2>4. CASE s # m /\ t = m
    <3>1. CASE s = current
      BY <3>1, <2>4, <1>2, <1>3, <1>7
    <3>2. CASE s \in Linked \ {current}
      <4>1. next[s] = next[current]
        BY <3>2, <2>4, <2>2, <1>3, <1>7
      <4> QED
        BY <4>1, <3>2, <1>2 DEF RingInv
    <3> QED
      BY <3>1, <3>2, <2>4, <1>4
  <2>5. CASE s # m /\ t # m
    <3>1. s \in Linked /\ t \in Linked
      BY <2>5, <1>4
    <3> QED
      BY <3>1, <2>1, <2>2, <1>3, <1>7
  <2> QED
    BY <2>3, <2>4, <2>5
<1>8. ASSUME NEW S \in SUBSET Linked', S # {}, \A t \in S : next'[t] \in S
      PROVE  S = Linked'
  <2> DEFINE R == S \ {m}
  <2>1. m \in S => next[current] \in S
    BY <1>3, <1>8
  <2>2. R \in SUBSET Linked /\ R # {}
    BY <1>2, <1>4, <1>8, <2>1
  <2>3. \A t \in R : next[t] \in R
    <3> SUFFICES ASSUME NEW t \in R PROVE next[t] \in R
      OBVIOUS
    <3>1. CASE t = current
      BY <3>1, <1>2, <1>3, <1>8, <2>1
    <3>2. CASE t # current
      BY <3>2, <1>5, <1>8, <2>2
    <3> QED
      BY <3>1, <3>2
  <2>4. R = Linked
    <3> HIDE DEF R
    <3> QED
      BY <2>2, <2>3 DEF RingInv
  <2>5. m \in S
    BY <2>4, <1>2, <1>3, <1>8
  <2> QED
    BY <2>4, <2>5, <1>4, <1>8
<1> QED
  BY <1>4, <1>6, <1>7, <1>8

-----------------------------------------------------------------------------
(* Reaping, switching, creating and destroying *)

LEMMA EmptyGood ==
  GoodStack(<<>>) /\ Stage(<<>>) = "booted" /\ ~On("keyboard_isr", <<>>)
<1>1. <<>> \in Seq(Frames) /\ Len(<<>>) = 0
  OBVIOUS
<1> QED
  BY <1>1 DEF GoodStack, Stage, On

LEMMA SingletonGood ==
  ASSUME NEW f \in Bases
  PROVE  /\ GoodStack(<<f>>) /\ <<f>> # <<>> /\ Len(<<f>>) = 1
         /\ Head(<<f>>) = f
         /\ Stage(<<f>>) = IF f \in BootFrames THEN f ELSE "booted"
         /\ f # "keyboard_isr" => ~On("keyboard_isr", <<f>>)
<1>1. f \in Frames
  BY DEF Bases, Halts, BootFrames, Frames
<1>2. <<f>> \in Seq(Frames) /\ Len(<<f>>) = 1 /\ <<f>>[1] = f /\ Head(<<f>>) = f
  BY <1>1
<1>3. \A i \in 1 .. Len(<<f>>) : i = 1
  BY <1>2
<1>4. GoodStack(<<f>>)
  BY <1>2, <1>3 DEF GoodStack
<1>5. /\ Stage(<<f>>) = IF f \in BootFrames THEN f ELSE "booted"
      /\ f # "keyboard_isr" => ~On("keyboard_isr", <<f>>)
  BY <1>2, <1>3 DEF Stage, On
<1> QED
  BY <1>2, <1>4, <1>5

LEMMA ScanReapKeeps ==
  ASSUME IInv, ScanReap
  PROVE  IInv'
<1> DEFINE c == candidate
<1>1. /\ Running("scan") /\ c # current /\ c # cpu /\ c \in Linked
      /\ c \in Threads /\ cpu \in Threads /\ current # Null /\ prev \in Linked
      /\ next[prev] = c /\ next[c] \in Linked
  BY InScan DEF ScanReap
<1>2. /\ state' = [state EXCEPT ![c] = "FREE"]
      /\ stack' = [stack EXCEPT ![c] = <<>>]
      /\ esp' = [esp EXCEPT ![c] = Null]
      /\ cpu' = cpu
      /\ next' = [next EXCEPT ![prev] = next[c], ![c] = Null]
      /\ prev' = prev /\ candidate' = next[c]
      /\ UNCHANGED <<current, lock, old, eif, made>>
  BY <1>1 DEF ScanReap, ThreadDestroy, signals
<1>3. /\ state \in [Threads -> States] /\ stack \in [Threads -> Seq(Frames)]
      /\ esp \in [Threads -> Threads \cup {Null}]
      /\ next \in [Threads -> Threads \cup {Null}]
      /\ made \in Threads \cup {Null}
  BY DEF IInv, TypeOK
<1>4. prev # c
  BY <1>1, NotItsOwnPredecessor DEF IInv
<1>5. /\ Linked' = Linked \ {c}
      /\ \A t \in Linked' : next'[t] \in Linked'
      /\ \A s, t \in Linked' : next'[s] = next'[t] => s = t
      /\ \A S \in SUBSET Linked' :
           S # {} /\ (\A t \in S : next'[t] \in S) => S = Linked'
      /\ next'[prev] = next[c] /\ next[c] # c
  <2>1. c \in Linked /\ prev \in Linked /\ next[prev] = c /\ prev # c
    BY <1>1, <1>4
  <2>2. next' = [next EXCEPT ![prev] = next[c], ![c] = Null]
    BY <1>2
  <2>3. RingInv /\ next \in [Threads -> Threads \cup {Null}]
    BY <1>3 DEF IInv
  <2> HIDE DEF c
  <2> QED
    BY <2>1, <2>2, <2>3, Unlink, Zenon
<1>6. /\ stack'[c] = <<>> /\ state'[c] = "FREE"
      /\ \A t \in Threads \ {c} : /\ stack'[t] = stack[t] /\ state'[t] = state[t]
                                  /\ esp'[t] = esp[t]
  BY <1>1, <1>2, <1>3
<1>7. Running("scan")' /\ ~Running("window")'
  BY <1>1, <1>2, <1>6, InScan DEF Running
<1>8. StacksInv'
  BY <1>6, EmptyGood DEF IInv, StacksInv
<1>9. CpuInv'
  <2>1. \A t \in Threads : old[t] = <<>>
    BY <1>1, InScan DEF IInv, CpuInv
  <2> QED
    BY <1>1, <1>2, <1>6, <1>7, <2>1, InScan DEF IInv, CpuInv
<1>10. LockInv'
  BY <1>1, <1>2, <1>4, <1>5, <1>7, InScan DEF LockInv
<1>11. BootInv'
  BY <1>1, <1>2, <1>6, EmptyGood DEF IInv, BootInv
<1>12. RingInv'
  <2>1. current \in Linked' /\ cpu \in Linked'
    BY <1>1, <1>5 DEF IInv, RingInv
  <2>2. c # made
    BY <1>1 DEF IInv, RingInv
  <2>3. \A t \in Linked' : state'[t] # "FREE" /\ t # made
    BY <1>1, <1>5, <1>6, InScan DEF IInv, RingInv
  <2>4. \A t \in Threads \ Linked' : state'[t] = "FREE" \/ t = made
    BY <1>1, <1>5, <1>6 DEF IInv, RingInv
  <2>5. made # Null => state'[made] # "FREE"
    BY <1>3, <1>6, <2>2 DEF IInv, RingInv
  <2> QED
    BY <1>1, <1>2, <1>5, <2>1, <2>3, <2>4, <2>5 DEF RingInv
<1>13. TypeOK'
  <2>1. stack' \in [Threads -> Seq(Frames)]
    <3>1. <<>> \in Seq(Frames)
      OBVIOUS
    <3> QED
      BY <1>2, <1>3, <3>1
  <2>2. state' \in [Threads -> States]
    BY <1>2, <1>3 DEF States
  <2>3. /\ esp' \in [Threads -> Threads \cup {Null}]
        /\ next' \in [Threads -> Threads \cup {Null}]
        /\ next[c] \in Threads \cup {Null}
    BY <1>1, <1>2, <1>3
  <2>4. {prev', candidate', cpu', made'} \subseteq Threads \cup {Null}
    BY <1>1, <1>2, <1>3, <2>3 DEF IInv, TypeOK
  <2>5. UNCHANGED <<current, wake_at, lock, flags, old, eif, ticks, irq1, left, untimely>>
    BY DEF ScanReap, signals
  <2> QED
    BY <2>1, <2>2, <2>3, <2>4, <2>5 DEF IInv, TypeOK
<1> QED
  BY <1>8, <1>9, <1>10, <1>11, <1>12, <1>13 DEF IInv

LEMMA ContextSwitchKeeps ==
  ASSUME IInv, ContextSwitch
  PROVE  IInv'
<1>1. /\ Running("window") /\ Head(stack[cpu]) = "window"
      /\ ~Running("scan") /\ cpu \in Threads
  BY DEF ContextSwitch, Running, IInv, CpuInv
<1>2. current # Null
  <2>1. "window" \in Frames \ BootFrames
    BY DEF Frames, BootFrames
  <2> QED
    BY <1>1, <2>1, AfterBoot
<1>3. old[cpu] = <<cpu>> /\ Head(old[cpu]) = cpu /\ Tail(old[cpu]) = <<>>
  <2>1. old[cpu] = <<cpu>>
    BY <1>1 DEF IInv, CpuInv
  <2>2. Head(<<cpu>>) = cpu /\ Tail(<<cpu>>) = <<>>
    OBVIOUS
  <2> QED
    BY <2>1, <2>2
<1>4. /\ current \in Threads /\ current # cpu /\ current \in Linked
      /\ esp[current] = current
      /\ stack[current] # <<>> /\ Head(stack[current]) \in Resumable
  <2>1. current \in Linked /\ current # cpu /\ Linked \subseteq Threads
    BY <1>1, <1>2 DEF IInv, RingInv, CpuInv, Linked
  <2>2. stack[current] # <<>>
    BY <2>1 DEF IInv, RingInv, StacksInv
  <2> QED
    BY <2>1, <2>2 DEF IInv, CpuInv
<1>5. cpu' = current /\ esp' = [esp EXCEPT ![cpu] = cpu] /\ old' = [old EXCEPT ![cpu] = <<>>]
  BY <1>3, <1>4, ThreadsAssumption DEF ContextSwitch, Suspended, Resumable
<1>6. TopStep /\ Head(stack'[cpu]) = "context_switch"
  <2>1. /\ "context_switch" \in Frames \ BootFrames
        /\ "context_switch" \notin Bases /\ "window" \notin Bases \cup Isrs \cup BootFrames
    BY DEF Frames, BootFrames, Bases, Halts, Isrs
  <2> QED
    BY <1>1, <2>1, GotoTop DEF ContextSwitch
<1>7. stack'[current] = stack[current]
  BY <1>4, <1>6 DEF TopStep
<1>8. ~Running("scan")' /\ ~Running("window")'
  BY <1>4, <1>5, <1>7 DEF Running, Resumable
<1>9. StacksInv'
  BY <1>6 DEF IInv, StacksInv, CpuInv, TopStep, ContextSwitch, ring
<1>10. CpuInv'
  <2>1. \A t \in Threads \ {cpu'} :
          stack'[t] # <<>> => esp'[t] = t /\ Head(stack'[t]) \in Resumable
    <3>1. esp \in [Threads -> Threads \cup {Null}]
      BY DEF IInv, TypeOK
    <3> QED
      BY <1>1, <1>5, <1>6, <3>1 DEF IInv, CpuInv, TopStep, Resumable
  <2>2. \A t \in Threads : old'[t] = <<>>
    BY <1>1, <1>5 DEF IInv, CpuInv, TypeOK
  <2>3. Head(stack'[cpu']) \notin Halts
    BY <1>4, <1>5, <1>7 DEF Resumable, Halts, BootFrames
  <2> QED
    BY <1>4, <1>5, <1>7, <1>8, <2>1, <2>2, <2>3 DEF CpuInv, ContextSwitch, ring
<1>11. LockInv'
  BY <1>1, <1>8 DEF IInv, LockInv, ContextSwitch
<1>12. BootInv'
  BY <1>2, <1>6, BootKept DEF ContextSwitch, ring
<1>13. RingInv'
  BY <1>4, <1>5, RingUnchanged DEF IInv, TypeOK, ContextSwitch, ring
<1>14. TypeOK'
  <2>1. old' \in [Threads -> Seq(Threads)]
    <3>1. <<>> \in Seq(Threads)
      OBVIOUS
    <3> QED
      BY <1>5, <3>1 DEF IInv, TypeOK
  <2>2. esp' \in [Threads -> Threads \cup {Null}]
    BY <1>1, <1>5 DEF IInv, TypeOK
  <2>3. stack' \in [Threads -> Seq(Frames)]
    BY <1>6 DEF TopStep
  <2>4. cpu' \in Threads \cup {Null}
    BY <1>4, <1>5
  <2>5. UNCHANGED <<current, next, state, wake_at, lock, flags, prev, candidate,
                    eif, ticks, irq1, made, left, untimely>>
    BY DEF ContextSwitch, ring, locals, signals
  <2> QED
    BY <2>1, <2>2, <2>3, <2>4, <2>5 DEF IInv, TypeOK
<1> QED
  BY <1>9, <1>10, <1>11, <1>12, <1>13, <1>14 DEF IInv

(* A command outside of the scheduler, on top of some interrupted stack.   *)
LEMMA InCommand ==
  ASSUME IInv, Running("keyboard_isr")
  PROVE  /\ current # Null /\ cpu \in Threads /\ cpu \in Linked
         /\ Stage(stack[Boot]) = "booted"
         /\ stack[cpu] # <<>> /\ current \in Linked /\ Linked \subseteq Threads
         /\ Head(stack[cpu]) = "keyboard_isr"
         /\ ~Running("scan") /\ ~Running("window")
         /\ \A t \in Threads : old[t] = <<>>
<1>1. current # Null
  BY AfterBoot DEF Frames, BootFrames
<1>2. Head(stack[cpu]) = "keyboard_isr" /\ ~Running("scan") /\ ~Running("window")
  BY DEF Running
<1>3. Linked \subseteq Threads
  BY DEF Linked
<1> QED
  BY <1>1, <1>2, <1>3, CommandBooted DEF IInv, CpuInv, RingInv

(* thread_create takes a header that nobody knows.                         *)
LEMMA CreateKeepsRing ==
  ASSUME IInv, current # Null, made = Null,
         NEW w \in Threads, NEW frames, ThreadCreate(w, frames),
         UNCHANGED <<current, cpu>>
  PROVE  RingInv' /\ Linked' = Linked /\ w \notin Linked /\ w # cpu
<1>1. state[w] = "FREE" /\ made' = w /\ next' = [next EXCEPT ![w] = Null]
  BY DEF ThreadCreate
<1>2. w \notin Linked /\ w # cpu
  BY <1>1 DEF IInv, RingInv
<1>3. \A t \in Threads : next'[t] = next[t]
  BY <1>1, <1>2 DEF Linked, IInv, TypeOK
<1>4. Linked' = Linked
  BY <1>3 DEF Linked
<1>5. state' = [state EXCEPT ![w] = "READY"] /\ state \in [Threads -> States]
  BY DEF ThreadCreate, IInv, TypeOK
<1>6. /\ state'[w] = "READY"
      /\ \A t \in Threads \ {w} : state'[t] = state[t]
  BY <1>5
<1>7. Linked \subseteq Threads
  BY DEF Linked
<1>8. /\ \A t \in Linked' : next'[t] \in Linked'
      /\ \A s, t \in Linked' : next'[s] = next'[t] => s = t
      /\ \A S \in SUBSET Linked' :
           S # {} /\ (\A t \in S : next'[t] \in S) => S = Linked'
  BY <1>3, <1>4, <1>7 DEF IInv, RingInv
<1>9. \A t \in Linked' : state'[t] # "FREE" /\ t # made'
  BY <1>1, <1>2, <1>4, <1>6, <1>7 DEF IInv, RingInv
<1>10. \A t \in Threads \ Linked' : state'[t] = "FREE" \/ t = made'
  BY <1>1, <1>4, <1>6, ThreadsAssumption DEF IInv, RingInv
<1>11. RingInv'
  BY <1>1, <1>4, <1>6, <1>8, <1>9, <1>10 DEF IInv, RingInv
<1> QED
  BY <1>2, <1>4, <1>11

(* scheduler_add puts the thread into the ring.                            *)
LEMMA AddKeepsRing ==
  ASSUME IInv, current # Null, made # Null, SchedulerAdd(made), made' = Null,
         UNCHANGED <<current, cpu, state>>
  PROVE  RingInv'
<1>1. /\ made \in Threads \ Linked /\ current \in Linked /\ cpu \in Linked
      /\ state[made] # "FREE"
  BY DEF IInv, TypeOK, RingInv
<1>2. next' = [next EXCEPT ![made] = next[current], ![current] = made]
  BY DEF SchedulerAdd
<1>3. RingInv /\ next \in [Threads -> Threads \cup {Null}]
  BY DEF IInv, TypeOK
<1>4. /\ Linked' = Linked \cup {made}
      /\ \A t \in Linked' : next'[t] \in Linked'
      /\ \A s, t \in Linked' : next'[s] = next'[t] => s = t
      /\ \A S \in SUBSET Linked' :
           S # {} /\ (\A t \in S : next'[t] \in S) => S = Linked'
  BY <1>1, <1>2, <1>3, Link
<1>5. \A t \in Linked' : state'[t] # "FREE" /\ t # made'
  BY <1>1, <1>3, <1>4, ThreadsAssumption DEF Linked, RingInv
<1>6. \A t \in Threads \ Linked' : state'[t] = "FREE" \/ t = made'
  BY <1>3, <1>4 DEF RingInv
<1> QED
  BY <1>1, <1>4, <1>5, <1>6 DEF RingInv

LEMMA TestCreateKeeps ==
  ASSUME IInv, TestCreate
  PROVE  IInv'
<1>1. PICK w \in Workers : ThreadCreate(w, stack[cpu])
  BY DEF TestCreate
<1>2. w \in Threads /\ made = Null /\ Running("keyboard_isr")
  BY DEF TestCreate, Threads
<1>3. UNCHANGED <<current, wake_at, lock, flags, prev, candidate, old, cpu, eif,
                  ticks, irq1, left, untimely>>
  BY DEF TestCreate, locals, signals
<1>4. RingInv' /\ Linked' = Linked /\ w \notin Linked /\ w # cpu
  BY <1>1, <1>2, <1>3, InCommand, CreateKeepsRing
<1>5. /\ state' = [state EXCEPT ![w] = "READY"]
      /\ esp' = [esp EXCEPT ![w] = w]
      /\ next' = [next EXCEPT ![w] = Null]
      /\ stack' = [stack EXCEPT ![w] = <<"thread_trampoline">>, ![cpu] = stack[cpu]]
      /\ made' = w
  BY <1>1 DEF ThreadCreate
<1>6. "thread_trampoline" \in Bases /\ "thread_trampoline" \notin BootFrames
  BY DEF Bases, BootFrames
<1>7. /\ GoodStack(<<"thread_trampoline">>) /\ <<"thread_trampoline">> # <<>>
      /\ Head(<<"thread_trampoline">>) = "thread_trampoline"
      /\ Stage(<<"thread_trampoline">>) = "booted"
      /\ ~On("keyboard_isr", <<"thread_trampoline">>)
      /\ <<"thread_trampoline">> \in Seq(Frames)
  BY <1>6, SingletonGood DEF GoodStack
<1>8. /\ stack' \in [Threads -> Seq(Frames)]
      /\ stack'[w] = <<"thread_trampoline">>
      /\ \A t \in Threads \ {w} : stack'[t] = stack[t]
  BY <1>2, <1>4, <1>5, <1>7, InCommand DEF IInv, TypeOK
<1>9. /\ state' \in [Threads -> States] /\ esp' \in [Threads -> Threads \cup {Null}]
      /\ next' \in [Threads -> Threads \cup {Null}]
      /\ state'[w] = "READY" /\ esp'[w] = w
      /\ \A t \in Threads \ {w} : state'[t] = state[t] /\ esp'[t] = esp[t]
  BY <1>2, <1>5 DEF IInv, TypeOK, States
<1>10. ~Running("scan")' /\ ~Running("window")' /\ stack'[cpu] = stack[cpu]
  BY <1>2, <1>3, <1>4, <1>8, InCommand DEF Running
<1>11. StacksInv'
  BY <1>7, <1>8, <1>9 DEF IInv, StacksInv
<1>12. CpuInv'
  <2>1. \A t \in Threads \ {cpu} :
          stack'[t] # <<>> => esp'[t] = t /\ Head(stack'[t]) \in Resumable
    BY <1>7, <1>8, <1>9 DEF IInv, CpuInv, Resumable
  <2> QED
    BY <1>2, <1>3, <1>10, <2>1, InCommand DEF IInv, CpuInv
<1>13. LockInv'
  BY <1>2, <1>3, <1>10, InCommand DEF IInv, LockInv
<1>14. BootInv'
  <2>1. \A t \in Threads : Stage(stack'[t]) = "booted"
    BY <1>2, <1>7, <1>8, InCommand DEF IInv, BootInv
  <2>2. current' # Null /\ Boot \in Threads
    BY <1>2, <1>3, InCommand DEF Threads
  <2> QED
    BY <2>1, <2>2 DEF BootInv
<1>15. TypeOK'
  <2>1. {prev', candidate', cpu', made'} \subseteq Threads \cup {Null}
    BY <1>2, <1>3, <1>5 DEF IInv, TypeOK
  <2> QED
    BY <1>3, <1>8, <1>9, <2>1 DEF IInv, TypeOK
<1> QED
  BY <1>4, <1>11, <1>12, <1>13, <1>14, <1>15 DEF IInv

LEMMA TestAddKeeps ==
  ASSUME IInv, TestAdd
  PROVE  IInv'
<1>1. /\ Running("keyboard_isr") /\ made # Null /\ made \in Threads
      /\ SchedulerAdd(made) /\ made' = Null
  BY DEF TestAdd, IInv, TypeOK
<1>2. UNCHANGED <<current, state, wake_at, esp, lock, flags, prev, candidate, old,
                  cpu, eif, stack, ticks, irq1, left, untimely>>
  BY DEF TestAdd, locals, signals
<1>3. Running("scan")' = Running("scan") /\ Running("window")' = Running("window")
  BY <1>2 DEF Running
<1>4. RingInv'
  BY <1>1, <1>2, InCommand, AddKeepsRing
<1>5. StacksInv'
  BY <1>2 DEF IInv, StacksInv
<1>6. CpuInv'
  BY <1>2, <1>3 DEF IInv, CpuInv
<1>7. LockInv'
  BY <1>1, <1>2, <1>3, InCommand DEF IInv, LockInv
<1>8. BootInv'
  BY <1>1, <1>2, InCommand DEF IInv, BootInv
<1>9. TypeOK'
  <2>1. next' \in [Threads -> Threads \cup {Null}]
    BY <1>1, InCommand DEF SchedulerAdd, IInv, TypeOK
  <2> QED
    BY <1>1, <1>2, <2>1 DEF IInv, TypeOK
<1> QED
  BY <1>4, <1>5, <1>6, <1>7, <1>8, <1>9 DEF IInv

LEMMA TestDestroyKeeps ==
  ASSUME IInv, TestDestroy
  PROVE  IInv'
<1>1. /\ Running("keyboard_isr") /\ made # Null /\ made \in Threads
      /\ made \notin Linked /\ made # cpu /\ made' = Null
  BY InCommand DEF TestDestroy, IInv, TypeOK, RingInv
<1>2. UNCHANGED <<current, next, wake_at, lock, flags, prev, candidate, old, cpu,
                  eif, ticks, irq1, left, untimely>>
  BY <1>1 DEF TestDestroy, ThreadDestroy, ring, locals, signals
<1>3. /\ state' = [state EXCEPT ![made] = "FREE"]
      /\ stack' = [stack EXCEPT ![made] = <<>>]
      /\ esp' = [esp EXCEPT ![made] = Null]
  BY DEF TestDestroy, ThreadDestroy
<1>4. <<>> \in Seq(Frames)
  OBVIOUS
<1>5. /\ stack' \in [Threads -> Seq(Frames)]
      /\ state' \in [Threads -> States] /\ esp' \in [Threads -> Threads \cup {Null}]
  BY <1>1, <1>3, <1>4 DEF IInv, TypeOK, States
<1>6. /\ stack'[made] = <<>> /\ state'[made] = "FREE"
      /\ \A t \in Threads \ {made} : /\ stack'[t] = stack[t] /\ state'[t] = state[t]
                                     /\ esp'[t] = esp[t]
  BY <1>1, <1>3 DEF IInv, TypeOK
<1>7. ~Running("scan")' /\ ~Running("window")' /\ stack'[cpu] = stack[cpu]
  BY <1>1, <1>2, <1>6, InCommand DEF Running
<1>8. StacksInv'
  BY <1>6, EmptyGood DEF IInv, StacksInv
<1>9. CpuInv'
  BY <1>1, <1>2, <1>6, <1>7, InCommand DEF IInv, CpuInv
<1>10. LockInv'
  BY <1>1, <1>2, <1>7, InCommand DEF IInv, LockInv
<1>11. BootInv'
  <2>1. \A t \in Threads : Stage(stack'[t]) = "booted"
    BY <1>1, <1>6, EmptyGood, InCommand DEF IInv, BootInv
  <2>2. current' # Null /\ Boot \in Threads
    BY <1>1, <1>2, InCommand DEF Threads
  <2> QED
    BY <2>1, <2>2 DEF BootInv
<1>12. RingInv'
  <2>1. Linked' = Linked
    BY <1>2 DEF Linked
  <2>2. \A t \in Linked : state'[t] # "FREE" /\ t # Null
    BY <1>1, <1>6, InCommand, ThreadsAssumption DEF IInv, RingInv
  <2>3. \A t \in Threads \ Linked : state'[t] = "FREE"
    BY <1>1, <1>6, InCommand DEF IInv, RingInv
  <2> QED
    BY <1>1, <1>2, <2>1, <2>2, <2>3, InCommand DEF IInv, RingInv
<1>13. TypeOK'
  BY <1>1, <1>2, <1>5 DEF IInv, TypeOK
<1> QED
  BY <1>8, <1>9, <1>10, <1>11, <1>12, <1>13 DEF IInv

-----------------------------------------------------------------------------
(* The start-up of kmain, still alone on the CPU *)

LEMMA InBoot ==
  ASSUME IInv, NEW f \in BootFrames, Running(f)
  PROVE  /\ cpu = Boot /\ Boot \in Threads /\ Boot # Null
         /\ Head(stack[Boot]) = f /\ eif /\ Stage(stack[Boot]) = f
         /\ current = Null <=> f = "scheduler_initialize"
         /\ made = Null <=> f # "add_idle"
         /\ ~Running("scan") /\ ~Running("window")
         /\ stack[Boot] \in Seq(Frames) /\ Len(stack[Boot]) = 1
         /\ \A t \in Threads : old[t] = <<>>
         /\ \A t \in Threads : ~On("keyboard_isr", stack[t])
         /\ Idle \in Threads /\ Idle # Boot
<1>1. cpu \in Threads /\ stack[cpu] # <<>> /\ Head(stack[cpu]) = f
  BY DEF Running, IInv, CpuInv
<1>2. stack[cpu] \in Seq(Frames)
  BY <1>1 DEF IInv, TypeOK
<1>3. 1 \in 1 .. Len(stack[cpu]) /\ stack[cpu][1] = f /\ f \in Bases
  BY <1>1, <1>2, TailFacts DEF Bases, Halts
<1>4. Len(stack[cpu]) = 1
  BY <1>1, <1>3 DEF IInv, StacksInv, GoodStack
<1>5. Stage(stack[cpu]) = f /\ f # "booted"
  BY <1>1, <1>3, <1>4 DEF Stage, BootFrames
<1>6. cpu = Boot
  BY <1>1, <1>5 DEF IInv, BootInv
<1>7. ~Running("scan") /\ ~Running("window")
  BY <1>1 DEF Running, BootFrames
<1>8. eif
  BY <1>1 DEF IInv, CpuInv, Halts
<1>9. Boot \in Threads /\ Boot # Null /\ Idle \in Threads /\ Idle # Boot
  BY ThreadsAssumption DEF Threads
<1>10. /\ current = Null <=> f = "scheduler_initialize"
       /\ made = Null <=> f # "add_idle"
       /\ \A t \in Threads : ~On("keyboard_isr", stack[t])
  BY <1>5, <1>6 DEF IInv, BootInv
<1>11. \A t \in Threads : old[t] = <<>>
  BY <1>7 DEF IInv, CpuInv
<1> QED
  BY <1>1, <1>2, <1>4, <1>5, <1>6, <1>7, <1>8, <1>9, <1>10, <1>11

LEMMA BootGoto ==
  ASSUME NEW s \in Seq(Frames), Len(s) = 1, NEW f \in Halts
  PROVE  /\ GoodStack(<<f>> \o Tail(s)) /\ <<f>> \o Tail(s) # <<>>
         /\ <<f>> \o Tail(s) \in Seq(Frames)
         /\ Head(<<f>> \o Tail(s)) = f /\ Len(<<f>> \o Tail(s)) = 1
         /\ Stage(<<f>> \o Tail(s)) = IF f \in BootFrames THEN f ELSE "booted"
         /\ ~On("keyboard_isr", <<f>> \o Tail(s))
<1>1. <<f>> \o Tail(s) = <<f>>
  <2>1. s # <<>>
    BY DEF Frames
  <2>2. Tail(s) \in Seq(Frames) /\ Len(Tail(s)) = 0
    BY <2>1, TailFacts
  <2>3. ASSUME NEW r \in Seq(Frames), Len(r) = 0 PROVE r = <<>>
    <3>1. r # <<>> => Len(r) >= 1
      BY TailFacts
    <3> QED
      BY <2>3, <3>1
  <2>4. <<f>> \o <<>> = <<f>>
    OBVIOUS
  <2> QED
    BY <2>2, <2>3, <2>4
<1>2. f \in Bases /\ f # "keyboard_isr"
  BY DEF Bases, Halts, BootFrames
<1>3. GoodStack(<<f>>) => <<f>> \in Seq(Frames)
  BY DEF GoodStack
<1> QED
  BY <1>1, <1>2, <1>3, SingletonGood

(* The next frame of kmain in place of the last one.                       *)
LEMMA BootFrame ==
  ASSUME IInv, NEW f \in BootFrames, Running(f), NEW g \in Halts, Goto(g)
  PROVE  /\ stack' \in [Threads -> Seq(Frames)]
         /\ GoodStack(stack'[Boot]) /\ stack'[Boot] # <<>>
         /\ Head(stack'[Boot]) = g /\ Len(stack'[Boot]) = 1
         /\ Stage(stack'[Boot]) = IF g \in BootFrames THEN g ELSE "booted"
         /\ ~On("keyboard_isr", stack'[Boot])
         /\ \A t \in Threads \ {Boot} : stack'[t] = stack[t]
<1>1. cpu = Boot /\ Boot \in Threads /\ stack[Boot] \in Seq(Frames) /\ Len(stack[Boot]) = 1
  BY InBoot
<1>2. stack' = [stack EXCEPT ![Boot] = <<g>> \o Tail(stack[Boot])]
  BY <1>1 DEF Goto, Below
<1>3. <<g>> \o Tail(stack[Boot]) \in Seq(Frames)
  BY <1>1, BootGoto
<1>4. /\ stack' \in [Threads -> Seq(Frames)]
      /\ stack'[Boot] = <<g>> \o Tail(stack[Boot])
      /\ \A t \in Threads \ {Boot} : stack'[t] = stack[t]
  BY <1>1, <1>2, <1>3 DEF IInv, TypeOK
<1> QED
  BY <1>1, <1>4, BootGoto

LEMMA InitCurrentKeeps ==
  ASSUME IInv, InitCurrent
  PROVE  IInv'
<1> DEFINE f == "scheduler_initialize"
<1>1. /\ f \in BootFrames /\ Running(f)
      /\ "create_idle" \in BootFrames /\ "create_idle" \in Halts
  BY DEF BootFrames, Halts, InitCurrent
<1>2. /\ cpu = Boot /\ current = Null /\ made = Null /\ eif
      /\ Boot \in Threads /\ Boot # Null
      /\ \A t \in Threads : old[t] = <<>>
      /\ \A t \in Threads : ~On("keyboard_isr", stack[t])
  BY <1>1, InBoot
<1>3. /\ stack' \in [Threads -> Seq(Frames)]
      /\ GoodStack(stack'[Boot]) /\ stack'[Boot] # <<>>
      /\ Head(stack'[Boot]) = "create_idle" /\ Len(stack'[Boot]) = 1
      /\ Stage(stack'[Boot]) = "create_idle" /\ ~On("keyboard_isr", stack'[Boot])
      /\ \A t \in Threads \ {Boot} : stack'[t] = stack[t]
  BY <1>1, BootFrame DEF InitCurrent
<1>4. UNCHANGED <<wake_at, esp, flags, prev, candidate, old, cpu, eif, ticks,
                  irq1, made, left, untimely>>
  BY DEF InitCurrent, locals, signals
<1>5. /\ current' = Boot /\ next' = [next EXCEPT ![Boot] = Boot] /\ ~lock'
      /\ state' = [state EXCEPT ![Boot] = "RUNNING"]
  BY DEF InitCurrent
<1>6. /\ next' \in [Threads -> Threads \cup {Null}] /\ state' \in [Threads -> States]
      /\ next'[Boot] = Boot /\ state'[Boot] = "RUNNING"
      /\ \A t \in Threads \ {Boot} : next'[t] = next[t] /\ state'[t] = state[t]
  BY <1>2, <1>5 DEF IInv, TypeOK, States
<1>7. ~Running("scan")' /\ ~Running("window")'
  BY <1>2, <1>3, <1>4 DEF Running
<1>8. Linked = {} /\ \A t \in Threads : state[t] = "FREE" <=> t # Boot
  BY <1>2 DEF IInv, RingInv
<1>9. Linked' = {Boot}
  BY <1>2, <1>6, <1>8 DEF Linked
<1>10. StacksInv'
  BY <1>3, <1>6 DEF IInv, StacksInv
<1>11. CpuInv'
  BY <1>2, <1>3, <1>4, <1>5, <1>7 DEF IInv, CpuInv
<1>12. LockInv'
  BY <1>5, <1>7 DEF LockInv
<1>13. BootInv'
  BY <1>1, <1>2, <1>3, <1>4, <1>5 DEF IInv, BootInv
<1>14. RingInv'
  <2>1. \A S \in SUBSET Linked' : S # {} => S = Linked'
    BY <1>9
  <2> QED
    BY <1>2, <1>4, <1>5, <1>6, <1>8, <1>9, <2>1 DEF RingInv
<1>15. TypeOK'
  <2>1. {prev', candidate', cpu', made'} \subseteq Threads \cup {Null}
    BY <1>4 DEF IInv, TypeOK
  <2>2. current' \in Threads /\ lock' \in BOOLEAN
    BY <1>2, <1>5 DEF InitCurrent
  <2> QED
    BY <1>3, <1>4, <1>6, <2>1, <2>2 DEF IInv, TypeOK
<1> QED
  BY <1>10, <1>11, <1>12, <1>13, <1>14, <1>15 DEF IInv

LEMMA AddIdleKeeps ==
  ASSUME IInv, AddIdle
  PROVE  IInv'
<1>1. /\ "add_idle" \in BootFrames /\ Running("add_idle")
      /\ "pit_initialize" \in BootFrames /\ "pit_initialize" \in Halts
  BY DEF BootFrames, Halts, AddIdle
<1>2. /\ cpu = Boot /\ current # Null /\ made # Null /\ eif
      /\ Boot \in Threads /\ Boot # Null /\ ~Running("scan") /\ ~Running("window")
      /\ \A t \in Threads : old[t] = <<>>
      /\ \A t \in Threads : ~On("keyboard_isr", stack[t])
  BY <1>1, InBoot
<1>3. /\ stack' \in [Threads -> Seq(Frames)]
      /\ GoodStack(stack'[Boot]) /\ stack'[Boot] # <<>>
      /\ Head(stack'[Boot]) = "pit_initialize" /\ Len(stack'[Boot]) = 1
      /\ Stage(stack'[Boot]) = "pit_initialize" /\ ~On("keyboard_isr", stack'[Boot])
      /\ \A t \in Threads \ {Boot} : stack'[t] = stack[t]
  BY <1>1, BootFrame DEF AddIdle
<1>4. UNCHANGED <<current, state, wake_at, esp, lock, flags, prev, candidate, old,
                  cpu, eif, ticks, irq1, left, untimely>>
  BY DEF AddIdle, locals, signals
<1>5. SchedulerAdd(made) /\ made' = Null
  BY DEF AddIdle
<1>6. ~Running("scan")' /\ ~Running("window")'
  BY <1>2, <1>3, <1>4 DEF Running
<1>7. RingInv'
  BY <1>2, <1>4, <1>5, AddKeepsRing
<1>8. StacksInv'
  BY <1>3, <1>4, <1>2 DEF IInv, StacksInv, CpuInv
<1>9. CpuInv'
  BY <1>2, <1>3, <1>4, <1>6 DEF IInv, CpuInv
<1>10. LockInv'
  BY <1>2, <1>4, <1>6 DEF IInv, LockInv
<1>11. BootInv'
  BY <1>1, <1>2, <1>3, <1>4, <1>5 DEF IInv, BootInv
<1>12. TypeOK'
  <2>1. next' \in [Threads -> Threads \cup {Null}]
    BY <1>2, <1>5 DEF SchedulerAdd, IInv, TypeOK
  <2>2. {prev', candidate', cpu', made'} \subseteq Threads \cup {Null}
    BY <1>4, <1>5 DEF IInv, TypeOK
  <2> QED
    BY <1>3, <1>4, <2>1, <2>2 DEF IInv, TypeOK
<1> QED
  BY <1>7, <1>8, <1>9, <1>10, <1>11, <1>12 DEF IInv

LEMMA StartTimerKeeps ==
  ASSUME IInv, StartTimer
  PROVE  IInv'
<1>1. /\ "pit_initialize" \in BootFrames /\ Running("pit_initialize")
      /\ "kmain" \in Halts /\ "kmain" \notin BootFrames
  BY DEF BootFrames, Halts, StartTimer
<1>2. /\ cpu = Boot /\ current # Null /\ made = Null /\ eif
      /\ Boot \in Threads /\ Boot # Null /\ ~Running("scan") /\ ~Running("window")
      /\ \A t \in Threads : old[t] = <<>>
  BY <1>1, InBoot
<1>3. /\ stack' \in [Threads -> Seq(Frames)]
      /\ GoodStack(stack'[Boot]) /\ stack'[Boot] # <<>>
      /\ Head(stack'[Boot]) = "kmain" /\ Stage(stack'[Boot]) = "booted"
      /\ \A t \in Threads \ {Boot} : stack'[t] = stack[t]
  BY <1>1, BootFrame DEF StartTimer
<1>4. UNCHANGED <<current, next, state, wake_at, esp, lock, flags, prev,
                  candidate, old, cpu, eif, ticks, irq1, made, left, untimely>>
  BY DEF StartTimer, ring, locals, signals
<1>5. ~Running("scan")' /\ ~Running("window")'
  BY <1>2, <1>3, <1>4 DEF Running
<1>6. RingInv'
  BY <1>4, RingUnchanged DEF IInv, TypeOK
<1>7. StacksInv'
  BY <1>3, <1>4, <1>2 DEF IInv, StacksInv, CpuInv
<1>8. CpuInv'
  BY <1>2, <1>3, <1>4, <1>5 DEF IInv, CpuInv
<1>9. LockInv'
  BY <1>2, <1>4, <1>5 DEF IInv, LockInv
<1>10. BootInv'
  BY <1>2, <1>3, <1>4 DEF IInv, BootInv
<1>11. TypeOK'
  BY <1>3, <1>4 DEF IInv, TypeOK
<1> QED
  BY <1>6, <1>7, <1>8, <1>9, <1>10, <1>11 DEF IInv

LEMMA CreateIdleKeeps ==
  ASSUME IInv, CreateIdle
  PROVE  IInv'
<1> DEFINE frames == <<"add_idle">> \o Below
<1>1. /\ "create_idle" \in BootFrames /\ Running("create_idle")
      /\ "add_idle" \in BootFrames /\ "add_idle" \in Halts
      /\ "thread_trampoline" \in Bases /\ "thread_trampoline" \notin BootFrames
  BY DEF BootFrames, Bases, Halts, CreateIdle
<1>2. /\ cpu = Boot /\ current # Null /\ made = Null /\ eif
      /\ Boot \in Threads /\ Boot # Null /\ ~Running("scan") /\ ~Running("window")
      /\ stack[Boot] \in Seq(Frames) /\ Len(stack[Boot]) = 1
      /\ Idle \in Threads /\ Idle # Boot
      /\ \A t \in Threads : old[t] = <<>>
      /\ \A t \in Threads : ~On("keyboard_isr", stack[t])
  BY <1>1, InBoot
<1>3. /\ GoodStack(frames) /\ frames # <<>> /\ frames \in Seq(Frames)
      /\ Head(frames) = "add_idle" /\ Len(frames) = 1
      /\ Stage(frames) = "add_idle" /\ ~On("keyboard_isr", frames)
  BY <1>1, <1>2, BootGoto DEF Below
<1>4. /\ GoodStack(<<"thread_trampoline">>) /\ <<"thread_trampoline">> # <<>>
      /\ Head(<<"thread_trampoline">>) = "thread_trampoline"
      /\ Stage(<<"thread_trampoline">>) = "booted"
      /\ ~On("keyboard_isr", <<"thread_trampoline">>)
      /\ <<"thread_trampoline">> \in Seq(Frames)
  BY <1>1, SingletonGood DEF GoodStack
<1>5. UNCHANGED <<current, wake_at, lock, flags, prev, candidate, old, cpu, eif,
                  ticks, irq1, left, untimely>>
  BY DEF CreateIdle, locals, signals
<1>6. /\ ThreadCreate(Idle, frames)
      /\ state' = [state EXCEPT ![Idle] = "READY"]
      /\ esp' = [esp EXCEPT ![Idle] = Idle]
      /\ next' = [next EXCEPT ![Idle] = Null]
      /\ stack' = [stack EXCEPT ![Idle] = <<"thread_trampoline">>, ![cpu] = frames]
      /\ made' = Idle
  BY DEF CreateIdle, ThreadCreate
<1>7. RingInv' /\ Linked' = Linked
  <2> HIDE DEF frames
  <2> QED
    BY <1>2, <1>5, <1>6, CreateKeepsRing
<1>8. /\ stack' \in [Threads -> Seq(Frames)]
      /\ stack'[Idle] = <<"thread_trampoline">> /\ stack'[Boot] = frames
      /\ \A t \in Threads \ {Idle, Boot} : stack'[t] = stack[t]
  <2> HIDE DEF frames
  <2> QED
    BY <1>2, <1>3, <1>4, <1>6 DEF IInv, TypeOK
<1>9. /\ state' \in [Threads -> States] /\ esp' \in [Threads -> Threads \cup {Null}]
      /\ next' \in [Threads -> Threads \cup {Null}]
      /\ state'[Idle] = "READY" /\ esp'[Idle] = Idle
      /\ \A t \in Threads \ {Idle} : state'[t] = state[t] /\ esp'[t] = esp[t]
  BY <1>2, <1>6 DEF IInv, TypeOK, States
<1> HIDE DEF frames
<1>10. ~Running("scan")' /\ ~Running("window")'
  BY <1>2, <1>3, <1>5, <1>8 DEF Running
<1>11. StacksInv'
  <2>1. state[Boot] # "FREE" /\ state'[Boot] = state[Boot]
    BY <1>2, <1>9 DEF IInv, StacksInv, CpuInv
  <2>2. \A t \in Threads : GoodStack(stack'[t])
    BY <1>3, <1>4, <1>8 DEF IInv, StacksInv
  <2>3. \A t \in Threads \ {Idle, Boot} : stack'[t] = <<>> <=> state'[t] = "FREE"
    BY <1>8, <1>9 DEF IInv, StacksInv
  <2> QED
    BY <1>3, <1>4, <1>8, <1>9, <2>1, <2>2, <2>3 DEF StacksInv
<1>12. CpuInv'
  <2>1. \A t \in Threads \ {cpu} :
          stack'[t] # <<>> => esp'[t] = t /\ Head(stack'[t]) \in Resumable
    BY <1>2, <1>4, <1>8, <1>9 DEF IInv, CpuInv, Resumable
  <2> QED
    BY <1>2, <1>3, <1>5, <1>8, <1>10, <2>1 DEF IInv, CpuInv
<1>13. LockInv'
  BY <1>2, <1>5, <1>10 DEF IInv, LockInv
<1>14. BootInv'
  <2>1. Idle # Null
    BY ThreadsAssumption DEF Threads
  <2>2. /\ \A t \in Threads \ {Boot} : Stage(stack'[t]) = "booted"
        /\ \A t \in Threads : ~On("keyboard_isr", stack'[t])
    BY <1>2, <1>3, <1>4, <1>8 DEF IInv, BootInv
  <2> QED
    BY <1>1, <1>2, <1>3, <1>5, <1>6, <1>8, <2>1, <2>2 DEF BootInv
<1>15. TypeOK'
  <2>1. {prev', candidate', cpu', made'} \subseteq Threads \cup {Null}
    BY <1>2, <1>5, <1>6 DEF IInv, TypeOK
  <2> QED
    BY <1>5, <1>8, <1>9, <2>1 DEF IInv, TypeOK
<1> QED
  BY <1>7, <1>11, <1>12, <1>13, <1>14, <1>15 DEF IInv

-----------------------------------------------------------------------------
(* The inductive invariant, and what it shows *)

LEMMA InitIInv ==
  ASSUME Init
  PROVE  IInv
<1> DEFINE f == "scheduler_initialize"
<1>1. /\ Boot \in Threads /\ Boot # Null
      /\ f \in Bases /\ f \in BootFrames /\ f \in Halts /\ f # "add_idle"
      /\ f # "scan" /\ f # "window"
  BY ThreadsAssumption DEF Threads, Bases, BootFrames, Halts
<1>2. GoodStack(<<f>>) /\ <<f>> # <<>> /\ Len(<<f>>) = 1 /\ Head(<<f>>) = f
  BY <1>1, SingletonGood
<1>3. <<f>> \in Seq(Frames) /\ <<>> \in Seq(Frames) /\ <<>> \in Seq(Threads)
  BY <1>2 DEF GoodStack
<1>4. /\ stack[Boot] = <<f>> /\ \A t \in Threads \ {Boot} : stack[t] = <<>>
      /\ stack \in [Threads -> Seq(Frames)]
      /\ cpu = Boot /\ current = Null /\ made = Null /\ eif /\ ~lock
      /\ state[Boot] = "RUNNING" /\ \A t \in Threads \ {Boot} : state[t] = "FREE"
      /\ \A t \in Threads : old[t] = <<>>
  BY <1>1, <1>3 DEF Init
<1>5. Linked = {}
  BY DEF Init, Linked
<1>6. ~Running("scan") /\ ~Running("window")
  BY <1>1, <1>2, <1>4 DEF Running
<1>7. TypeOK
  <2>1. 0 \in 0 .. TickMod - 1 /\ 0 \in 0 .. MaxSleep
    BY ClockAssumption
  <2>2. state \in [Threads -> States]
    BY DEF Init, States
  <2>3. {prev, candidate, cpu, made} \subseteq Threads \cup {Null}
    BY <1>1 DEF Init
  <2> QED
    BY <1>3, <1>4, <2>1, <2>2, <2>3 DEF Init, TypeOK
<1>8. StacksInv
  BY <1>1, <1>2, <1>4, EmptyGood DEF StacksInv
<1>9. CpuInv
  BY <1>1, <1>2, <1>4, <1>6 DEF CpuInv
<1>10. LockInv
  BY <1>4, <1>6 DEF LockInv
<1>11. BootInv
  <2>1. Stage(<<f>>) = f /\ ~On("keyboard_isr", <<f>>)
    BY <1>1, SingletonGood
  <2> QED
    BY <1>1, <1>2, <1>4, <2>1, EmptyGood DEF BootInv
<1>12. RingInv
  BY <1>1, <1>4, <1>5 DEF RingInv
<1> QED
  BY <1>7, <1>8, <1>9, <1>10, <1>11, <1>12 DEF IInv

LEMMA NextIInv ==
  ASSUME IInv, ~untimely', [Next]_vars
  PROVE  IInv'
<1>1. CASE BootStep
  BY <1>1, InitCurrentKeeps, CreateIdleKeeps, AddIdleKeeps, StartTimerKeeps DEF BootStep
<1>2. CASE Scan
  BY <1>2, ScanReapKeeps, ScanSkipKeeps, ScanPickKeeps, ScanNoneKeeps DEF Scan
<1>3. CASE ContextSwitch
  BY <1>3, ContextSwitchKeeps
<1>4. CASE ReturnFromSwitch
  BY <1>4, ReturnFromSwitchKeeps
<1>5. CASE StartThread
  BY <1>5, StartThreadKeeps
<1>6. CASE Iret
  BY <1>6, IretKeeps
<1>7. CASE Block
  BY <1>7, BlockKeeps
<1>8. CASE SleepYield
  BY <1>8, SleepYieldKeeps
<1>9. CASE SleepReturn
  BY <1>9, SleepReturnKeeps
<1>10. CASE ExitYield
  BY <1>10, ExitYieldKeeps
<1>11. CASE Command
  BY <1>11, TestStiKeeps, TestCreateKeeps, TestAddKeeps, TestDestroyKeeps,
     KeyboardReturnKeeps DEF Command
<1>12. CASE EntryReturn
  BY <1>12, EntryReturnKeeps
<1>13. CASE CallYield
  BY <1>13, CallYieldKeeps
<1>14. CASE Sleep
  BY <1>14, SleepKeeps
<1>15. CASE TimerInterrupt
  BY <1>15, TimerInterruptKeeps
<1>16. CASE KeyboardInterrupt
  BY <1>16, KeyboardInterruptKeeps
<1>17. CASE UNCHANGED vars
  <2>1. UNCHANGED <<current, next, state, wake_at, esp, lock, flags, prev,
                    candidate, old, cpu, eif, stack, ticks, irq1, made, left, untimely>>
    BY <1>17 DEF vars, ring, locals, signals
  <2>2. TypeOK'
    BY <2>1 DEF IInv, TypeOK
  <2>3. StacksInv' /\ BootInv'
    BY <2>1 DEF IInv, StacksInv, BootInv
  <2>4. Linked' = Linked /\ Running("scan")' = Running("scan")
        /\ Running("window")' = Running("window")
    BY <2>1 DEF Linked, Running
  <2>5. CpuInv'
    BY <2>1, <2>4 DEF IInv, CpuInv
  <2>6. LockInv'
    BY <2>1, <2>4 DEF IInv, LockInv
  <2>7. RingInv'
    BY <2>1, <2>4 DEF IInv, RingInv
  <2> QED
    BY <2>2, <2>3, <2>5, <2>6, <2>7 DEF IInv
<1> QED
  BY <1>1, <1>2, <1>3, <1>4, <1>5, <1>6, <1>7, <1>8, <1>9, <1>10, <1>11,
     <1>12, <1>13, <1>14, <1>15, <1>16, <1>17 DEF Next, CodeStep

(* The history variable only ever becomes true.                            *)
LEMMA UntimelyStays ==
  ASSUME untimely, [Next]_vars
  PROVE  untimely'
  BY DEF Next, CodeStep, BootStep, Scan, Command, vars, signals, InitCurrent,
     CreateIdle, AddIdle, StartTimer, ScanReap, ScanSkip, ScanPick, ScanNone,
     ContextSwitch, ReturnFromSwitch, StartThread, Iret, Block, SleepYield,
     SleepReturn, ExitYield, TestSti, TestCreate, TestAdd, TestDestroy,
     KeyboardReturn, EntryReturn, CallYield, Sleep, TimerInterrupt,
     KeyboardInterrupt

(* The inductive invariant holds in every state of every execution until   *)
(* an interrupt comes before `current` is valid or between the unlock and  *)
(* the switch: the machine never halts, stacks are well nested, the CPU    *)
(* and the list agree on who runs, and the list is one cycle.              *)
THEOREM Inductive ==
  Spec => [](~untimely => IInv)
<1>1. Init => (~untimely => IInv)
  BY InitIInv
<1>2. (~untimely => IInv) /\ [Next]_vars => (~untimely' => IInv')
  BY NextIInv, UntimelyStays
<1> QED
  BY <1>1, <1>2, PTL DEF Spec

(* Every variable keeps its type, until an interrupt comes untimely.       *)
THEOREM TypeCorrect ==
  Spec => [](~untimely => TypeOK)
<1>1. IInv => TypeOK
  BY DEF IInv
<1> QED
  BY <1>1, Inductive, PTL

(* Until an interrupt comes untimely, scheduler_lock is held exactly while *)
(* a scan runs, with interrupts off: nobody spins on it.                   *)
THEOREM LockIsDisciplined ==
  Spec => []LockDiscipline
<1>1. (~untimely => IInv) => LockDiscipline
  BY DEF IInv, LockInv, LockDiscipline
<1> QED
  BY <1>1, Inductive, PTL

(* However the interrupts nest, as long as none of them came untimely the  *)
(* CPU is on the stack of `current` and context_switch can resume every    *)
(* other thread.                                                           *)
THEOREM ContextsAreSound ==
  Spec => []ContextsSound
<1>1. ASSUME ~untimely => IInv PROVE ContextsSound
  <2> SUFFICES ASSUME IInv PROVE ContextsSound
    BY <1>1 DEF ContextsSound
  <2>1. cpu # Null
    BY ThreadsAssumption DEF IInv, CpuInv
  <2>2. ASSUME NEW t \in Threads, t # cpu, stack[t] # <<>>
        PROVE  esp[t] = t /\ Suspended(t)
    BY <2>2, ThreadsAssumption DEF IInv, CpuInv, Suspended, Resumable
  <2> QED
    BY <2>1, <2>2 DEF IInv, CpuInv, ContextsSound
<1> QED
  BY <1>1, Inductive, PTL

(* Until an interrupt comes untimely, the thread list is one cycle through *)
(* every thread that exists, whatever the scan has reaped so far and       *)
(* whatever a command added.                                               *)
THEOREM RingIsOneCycle ==
  Spec => []RingWellFormed
<1>1. ASSUME ~untimely => IInv PROVE RingWellFormed
  <2> SUFFICES ASSUME IInv, current # Null PROVE RingWellFormed
    BY <1>1 DEF RingWellFormed
  <2>1. Linked = {t \in Threads : state[t] # "FREE"} \ {made}
    BY DEF IInv, RingInv, Linked
  <2>2. /\ \A t \in Linked : next[t] \in Linked
        /\ \A s, t \in Linked : next[s] = next[t] => s = t
    BY DEF IInv, RingInv
  <2>3. ASSUME NEW S \in SUBSET Linked, current \in S, \A t \in S : next[t] \in S
        PROVE  S = Linked
    BY <2>3 DEF IInv, RingInv
  <2> QED
    BY <2>1, <2>2, <2>3 DEF RingWellFormed
<1> QED
  BY <1>1, Inductive, PTL

(* Until an interrupt comes untimely, no thread halts the CPU with         *)
(* interrupts masked, whichever switches it came back from.                *)
THEOREM HaltsOnlyUnmasked ==
  Spec => []HltNeverMasked
<1>1. (~untimely => IInv) => HltNeverMasked
  BY DEF IInv, CpuInv, HltNeverMasked, Running, Halts
<1> QED
  BY <1>1, Inductive, PTL

(* Until an interrupt comes untimely, thread_destroy frees neither the     *)
(* stack the CPU is on nor `current`.                                      *)
THEOREM NeverReapsTheRunning ==
  Spec => ReapsOnlyOthers
<1> DEFINE Reaps == ~untimely => \A t \in Threads : Freed(t) => t \notin {cpu, current}
<1>1. ASSUME ~untimely => IInv, [Next]_vars
      PROVE  Reaps
  <2> SUFFICES ASSUME IInv, NEW t \in Threads, state[t] # "FREE", state'[t] = "FREE"
               PROVE  t \notin {cpu, current}
    BY <1>1 DEF Freed
  <2>1. state \in [Threads -> States]
    BY DEF IInv, TypeOK
  <2>2. CASE ScanReap
    <3>1. candidate # current /\ current = cpu
      BY <1>1, <2>2, InScan DEF ScanReap
    <3>2. t = candidate
      BY <2>1, <2>2 DEF ScanReap, ThreadDestroy
    <3> QED
      BY <3>1, <3>2
  <2>3. CASE TestDestroy
    <3>1. /\ made \notin Linked /\ cpu \in Linked /\ current \in Linked
      BY <1>1, <2>3, InCommand DEF TestDestroy, IInv, RingInv
    <3>2. t = made
      BY <2>1, <2>3 DEF TestDestroy, ThreadDestroy
    <3> QED
      BY <3>1, <3>2
  <2>4. CASE BootStep
    BY <2>1, <2>4 DEF BootStep, InitCurrent, CreateIdle, ThreadCreate, AddIdle, StartTimer
  <2>5. CASE ScanPick
    BY <2>1, <2>5 DEF ScanPick
  <2>6. CASE Block \/ EntryReturn
    BY <2>1, <2>6 DEF Block, EntryReturn
  <2>7. CASE TestCreate
    BY <2>1, <2>7 DEF TestCreate, ThreadCreate
  <2>8. CASE state' = state
    BY <2>8
  <2>9. \/ ScanReap \/ TestDestroy \/ BootStep \/ ScanPick \/ Block \/ EntryReturn
        \/ TestCreate \/ state' = state
    BY <1>1 DEF Next, CodeStep, Command, Scan, vars, ScanSkip, ScanNone,
       ContextSwitch, ReturnFromSwitch, StartThread, Iret, SleepYield,
       SleepReturn, ExitYield, TestSti, TestAdd, KeyboardReturn, CallYield,
       Sleep, TimerInterrupt, KeyboardInterrupt
  <2> QED
    BY <2>2, <2>3, <2>4, <2>5, <2>6, <2>7, <2>8, <2>9
<1>2. (~untimely => IInv) /\ [Next]_vars => Reaps
  BY <1>1
<1> QED
  BY <1>2, Inductive, PTL DEF Spec, ReapsOnlyOthers
=============================================================================
