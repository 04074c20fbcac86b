------------------------ MODULE SchedulerSleepProofs ------------------------
(***************************************************************************)
(* Proofs about thread_sleep and about who scheduler_yield can find: no    *)
(* sleep returns early, a thread that cannot go on never gets the CPU back *)
(* from its own scan, and wake_at is compared exactly across every wrap.   *)
(***************************************************************************)
EXTENDS SchedulerProofs, FiniteSetTheorems

(* The pieces of thread_sleep, and the code that calls it. *)
Naps == {"thread_sleep", "blocked", "slept"}
Code == {"entry", "keyboard_isr"}

(* thread_sleep is on top of its caller, and a command is never on top of  *)
(* a sleep or of another command.                                          *)
GoodNaps(s) ==
  \A i \in 1 .. Len(s) :
    /\ s[i] \in Naps => i < Len(s) /\ s[i + 1] \in Code
    /\ s[i] = "keyboard_isr" => \A j \in i + 1 .. Len(s) : s[j] \notin Naps \cup {"keyboard_isr"}

(* Only one command at a time, and until its EOI no other; kmain and the   *)
(* idle loop are no entry points that return.                              *)
FramesInv ==
  /\ \A t \in Threads : GoodNaps(stack[t])
  /\ \A t \in Threads : On("keyboard_isr", stack[t]) => irq1
  /\ \A t, u \in Threads :
       On("keyboard_isr", stack[t]) /\ On("keyboard_isr", stack[u]) => t = u
  /\ \A f \in {"entry", "exit"} : ~On(f, stack[Idle])
  /\ \A f \in {"entry", "exit", "thread_trampoline"} : ~On(f, stack[Boot])

-----------------------------------------------------------------------------
(* What is on a stack after a push and below a pop *)

LEMMA OnPush ==
  ASSUME NEW s \in Seq(Frames), NEW f \in Frames
  PROVE  \A g : On(g, <<f>> \o s) <=> g = f \/ On(g, s)
<1> DEFINE c == <<f>> \o s
<1>1. /\ c[1] = f /\ Len(c) = Len(s) + 1 /\ Len(s) \in Nat
      /\ \A i \in 2 .. Len(s) + 1 : c[i] = s[i - 1]
  BY ConsFacts
<1> HIDE DEF c
<1>2. ASSUME NEW g, On(g, c) PROVE g = f \/ On(g, s)
  <2>1. PICK i \in 1 .. Len(c) : c[i] = g
    BY <1>2 DEF On
  <2>2. CASE i = 1
    BY <1>1, <2>1, <2>2
  <2>3. CASE i # 1
    <3>1. i - 1 \in 1 .. Len(s) /\ s[i - 1] = g
      BY <1>1, <2>1, <2>3
    <3> QED BY <3>1 DEF On
  <2> QED BY <2>2, <2>3
<1>3. ASSUME NEW g, g = f \/ On(g, s) PROVE On(g, c)
  <2>1. CASE g = f
    <3>1. 1 \in 1 .. Len(c) /\ c[1] = g
      BY <1>1, <2>1
    <3> QED BY <3>1 DEF On
  <2>2. CASE On(g, s)
    <3>1. PICK i \in 1 .. Len(s) : s[i] = g
      BY <2>2 DEF On
    <3>2. i + 1 \in 1 .. Len(c) /\ c[i + 1] = g
      BY <1>1, <3>1
    <3> QED BY <3>2 DEF On
  <2> QED BY <1>3, <2>1, <2>2
<1> QED BY <1>2, <1>3 DEF c

LEMMA OnPop ==
  ASSUME NEW s \in Seq(Frames), s # <<>>
  PROVE  \A g : On(g, s) <=> g = Head(s) \/ On(g, Tail(s))
<1> DEFINE f == Head(s)
           r == Tail(s)
<1>1. f \in Frames /\ r \in Seq(Frames) /\ s = <<f>> \o r
  OBVIOUS
<1> HIDE DEF f, r
<1>2. \A g : On(g, <<f>> \o r) <=> g = f \/ On(g, r)
  BY <1>1, OnPush
<1> QED BY <1>1, <1>2 DEF f, r

LEMMA PushNaps ==
  ASSUME NEW s \in Seq(Frames), GoodNaps(s), NEW f \in Frames,
         f \in Naps => s # <<>> /\ Head(s) \in Code,
         f = "keyboard_isr" => \A g \in Naps \cup {"keyboard_isr"} : ~On(g, s)
  PROVE  GoodNaps(<<f>> \o s)
<1> DEFINE c == <<f>> \o s
<1>1. /\ c[1] = f /\ Len(c) = Len(s) + 1 /\ Len(s) \in Nat
      /\ \A i \in 2 .. Len(s) + 1 : c[i] = s[i - 1]
  BY ConsFacts
<1>2. s # <<>> => Head(s) = s[1] /\ Len(s) >= 1
  BY TailFacts
<1> HIDE DEF c
<1>3. ASSUME NEW i \in 1 .. Len(c), c[i] \in Naps
      PROVE  i < Len(c) /\ c[i + 1] \in Code
  <2>1. CASE i = 1
    BY <1>1, <1>2, <1>3, <2>1
  <2>2. CASE i # 1
    <3>1. i - 1 \in 1 .. Len(s) /\ s[i - 1] \in Naps
      BY <1>1, <1>3, <2>2
    <3>2. i - 1 < Len(s) /\ s[i] \in Code
      BY <3>1 DEF GoodNaps
    <3>3. i + 1 \in 2 .. Len(s) + 1 /\ i < Len(c)
      BY <1>1, <3>1, <3>2
    <3>4. c[i + 1] = s[(i + 1) - 1]
      BY <1>1, <3>3
    <3> QED BY <3>2, <3>3, <3>4
  <2> QED BY <2>1, <2>2
<1>4. ASSUME NEW i \in 1 .. Len(c), c[i] = "keyboard_isr", NEW j \in i + 1 .. Len(c)
      PROVE  c[j] \notin Naps \cup {"keyboard_isr"}
  <2>1. j - 1 \in 1 .. Len(s) /\ c[j] = s[j - 1]
    BY <1>1
  <2>2. CASE i = 1
    <3>1. \A g \in Naps \cup {"keyboard_isr"} : ~On(g, s)
      BY <1>1, <1>4, <2>2
    <3> QED BY <2>1, <3>1 DEF On
  <2>3. CASE i # 1
    <3>1. /\ i - 1 \in 1 .. Len(s) /\ s[i - 1] = "keyboard_isr"
          /\ j - 1 \in (i - 1) + 1 .. Len(s)
      BY <1>1, <1>4, <2>3
    <3> QED BY <2>1, <3>1 DEF GoodNaps
  <2> QED BY <2>2, <2>3
<1> QED BY <1>3, <1>4 DEF GoodNaps, c

LEMMA PopNaps ==
  ASSUME NEW s \in Seq(Frames), s # <<>>, GoodNaps(s)
  PROVE  /\ GoodNaps(Tail(s))
         /\ Head(s) \in Naps => Tail(s) # <<>> /\ Head(Tail(s)) \in Code
         /\ Head(s) = "keyboard_isr" => \A g \in Naps \cup {"keyboard_isr"} : ~On(g, Tail(s))
<1> DEFINE r == Tail(s)
<1>1. /\ r \in Seq(Frames) /\ Len(s) \in Nat /\ Len(s) >= 1
      /\ Len(r) = Len(s) - 1 /\ Head(s) = s[1]
      /\ \A i \in 1 .. Len(s) - 1 : r[i] = s[i + 1]
  BY TailFacts
<1>3. r # <<>> => Head(r) = r[1]
  BY <1>1, TailFacts
<1> HIDE DEF r
<1>2. Len(r) # 0 => r # <<>>
  OBVIOUS
<1>4. GoodNaps(r)
  <2>1. ASSUME NEW i \in 1 .. Len(r), r[i] \in Naps
        PROVE  i < Len(r) /\ r[i + 1] \in Code
    <3>1. i + 1 \in 1 .. Len(s) /\ s[i + 1] \in Naps
      BY <1>1, <2>1
    <3>2. i + 1 < Len(s) /\ s[(i + 1) + 1] \in Code
      BY <3>1 DEF GoodNaps
    <3> QED BY <1>1, <3>2
  <2>2. ASSUME NEW i \in 1 .. Len(r), r[i] = "keyboard_isr", NEW j \in i + 1 .. Len(r)
        PROVE  r[j] \notin Naps \cup {"keyboard_isr"}
    <3>1. /\ i + 1 \in 1 .. Len(s) /\ s[i + 1] = "keyboard_isr"
          /\ j + 1 \in (i + 1) + 1 .. Len(s) /\ r[j] = s[j + 1]
      BY <1>1, <2>2
    <3> QED BY <3>1 DEF GoodNaps
  <2> QED BY <2>1, <2>2 DEF GoodNaps
<1>5. ASSUME Head(s) \in Naps PROVE r # <<>> /\ Head(r) \in Code
  <2>1. 1 \in 1 .. Len(s) /\ s[1] \in Naps
    BY <1>1, <1>5
  <2>2. 1 < Len(s) /\ s[1 + 1] \in Code
    BY <2>1 DEF GoodNaps
  <2> QED BY <1>1, <1>2, <1>3, <2>2
<1>6. ASSUME Head(s) = "keyboard_isr", NEW g \in Naps \cup {"keyboard_isr"}, On(g, r)
      PROVE  FALSE
  <2>1. PICK i \in 1 .. Len(r) : r[i] = g
    BY <1>6 DEF On
  <2>2. 1 \in 1 .. Len(s) /\ s[1] = "keyboard_isr" /\ i + 1 \in 1 + 1 .. Len(s) /\ s[i + 1] = g
    BY <1>1, <1>6, <2>1
  <2> QED BY <1>6, <2>2 DEF GoodNaps
<1> QED BY <1>4, <1>5, <1>6 DEF r

(* A sleep has a caller: the thread's own code or a command. *)
LEMMA NapHasCaller ==
  ASSUME NEW s, GoodNaps(s), NEW g \in Naps, On(g, s)
  PROVE  On("entry", s) \/ On("keyboard_isr", s)
<1>1. PICK i \in 1 .. Len(s) : s[i] = g
  BY DEF On
<1>2. i < Len(s) /\ s[i + 1] \in Code
  BY <1>1 DEF GoodNaps
<1>3. i + 1 \in 1 .. Len(s)
  BY <1>2
<1> QED BY <1>2, <1>3 DEF On, Code

(* A base frame in front is the whole stack. *)
LEMMA BaseAlone ==
  ASSUME NEW s, GoodStack(s), s # <<>>, Head(s) \in Bases
  PROVE  Tail(s) = <<>>
<1> DEFINE r == Tail(s)
<1>1. s \in Seq(Frames)
  BY DEF GoodStack
<1>2. Len(s) \in Nat /\ Len(s) >= 1 /\ Head(s) = s[1] /\ Len(r) = Len(s) - 1
      /\ r \in Seq(Frames)
  BY <1>1, TailFacts
<1> HIDE DEF r
<1>3. 1 \in 1 .. Len(s) /\ s[1] \in Bases
  BY <1>2
<1>4. 1 = Len(s)
  BY <1>3 DEF GoodStack
<1>5. Len(r) = 0
  BY <1>1, <1>2, <1>4
<1>6. r = <<>>
  BY <1>2, <1>5
<1> QED BY <1>6 DEF r

-----------------------------------------------------------------------------
(* FramesInv, step by step *)

Marks == {"keyboard_isr", "entry", "exit", "thread_trampoline"}

LEMMA OnCpu ==
  ASSUME IInv
  PROVE  /\ cpu \in Threads /\ cpu # Null
         /\ stack \in [Threads -> Seq(Frames)]
         /\ stack[cpu] \in Seq(Frames) /\ stack[cpu] # <<>> /\ GoodStack(stack[cpu])
         /\ Below \in Seq(Frames) /\ Head(stack[cpu]) \in Frames
<1>1. /\ cpu \in Threads /\ stack \in [Threads -> Seq(Frames)]
      /\ stack[cpu] # <<>> /\ GoodStack(stack[cpu])
  BY DEF IInv, TypeOK, CpuInv, StacksInv
<1>2. stack[cpu] \in Seq(Frames)
  BY <1>1
<1>3. Below \in Seq(Frames) /\ Head(stack[cpu]) \in Frames
  BY <1>1, <1>2, TailFacts DEF Below
<1> QED BY <1>1, <1>2, <1>3, ThreadsAssumption

(* A step that puts no command and no entry point on any stack. *)
LEMMA FramesStep ==
  ASSUME FramesInv, irq1' = irq1,
         \A t \in Threads :
           /\ GoodNaps(stack'[t])
           /\ \A g \in Marks : On(g, stack'[t]) => \/ On(g, stack[t])
                                                   \/ g = "thread_trampoline" /\ t # Boot
  PROVE  FramesInv'
<1>1. Boot \in Threads /\ Idle \in Threads
  BY DEF Threads
<1>2. \A t \in Threads : \A g \in {"keyboard_isr", "entry", "exit"} :
        On(g, stack'[t]) => On(g, stack[t])
  BY DEF Marks
<1>3. ~On("thread_trampoline", stack'[Boot])
  BY <1>1 DEF Marks, FramesInv
<1> QED BY <1>1, <1>2, <1>3 DEF FramesInv

LEMMA FramesTop ==
  ASSUME IInv, FramesInv, irq1' = irq1, NEW s, stack' = [stack EXCEPT ![cpu] = s],
         GoodNaps(s), \A g \in Marks : On(g, s) => On(g, stack[cpu])
  PROVE  FramesInv'
<1>1. stack'[cpu] = s /\ \A t \in Threads \ {cpu} : stack'[t] = stack[t]
  BY OnCpu
<1>2. ASSUME NEW t \in Threads
      PROVE  GoodNaps(stack'[t]) /\ \A g \in Marks : On(g, stack'[t]) => On(g, stack[t])
  BY <1>1 DEF FramesInv
<1> QED BY <1>2, FramesStep

LEMMA FramesCall ==
  ASSUME IInv, FramesInv, irq1' = irq1, NEW f \in Frames \ Marks, Call(f),
         f \in Naps => Head(stack[cpu]) \in Code
  PROVE  FramesInv'
<1> DEFINE s == stack[cpu]
<1>1. s \in Seq(Frames) /\ s # <<>> /\ GoodNaps(s)
  BY OnCpu DEF FramesInv
<1>2. GoodNaps(<<f>> \o s)
  BY <1>1, PushNaps DEF Marks
<1>3. \A g \in Marks : On(g, <<f>> \o s) => On(g, s)
  BY <1>1, OnPush
<1>4. stack' = [stack EXCEPT ![cpu] = <<f>> \o s]
  BY DEF Call
<1> HIDE DEF s
<1> QED BY <1>2, <1>3, <1>4, FramesTop DEF s

LEMMA FramesReturn ==
  ASSUME IInv, FramesInv, irq1' = irq1, Return
  PROVE  FramesInv'
<1>1. stack[cpu] \in Seq(Frames) /\ stack[cpu] # <<>> /\ GoodNaps(stack[cpu])
  BY OnCpu DEF FramesInv
<1>2. GoodNaps(Below)
  BY <1>1, PopNaps DEF Below
<1>3. \A g \in Marks : On(g, Below) => On(g, stack[cpu])
  BY <1>1, OnPop DEF Below
<1> QED BY <1>2, <1>3, FramesTop DEF Return

LEMMA FramesGoto ==
  ASSUME IInv, FramesInv, irq1' = irq1, NEW f \in Frames \ Marks, Goto(f),
         f \in Naps => Head(stack[cpu]) \in Naps
  PROVE  FramesInv'
<1>1. /\ stack[cpu] \in Seq(Frames) /\ stack[cpu] # <<>> /\ GoodNaps(stack[cpu])
      /\ Below \in Seq(Frames)
  BY OnCpu DEF FramesInv
<1>2. GoodNaps(Below) /\ (f \in Naps => Below # <<>> /\ Head(Below) \in Code)
  BY <1>1, PopNaps DEF Below
<1>3. GoodNaps(<<f>> \o Below)
  BY <1>1, <1>2, PushNaps DEF Marks
<1>4. \A g \in Marks : On(g, <<f>> \o Below) => On(g, stack[cpu])
  BY <1>1, OnPop, OnPush DEF Below
<1> QED BY <1>3, <1>4, FramesTop DEF Goto

LEMMA FramesEnter ==
  ASSUME IInv, FramesInv, irq1' = irq1, NEW s \in Seq(Frames), NEW saved,
         EnterYield(s, saved), GoodNaps(s),
         \A g \in Marks : On(g, s) => On(g, stack[cpu])
  PROVE  FramesInv'
<1>1. "scan" \in Frames \ (Marks \cup Naps)
  BY DEF Frames, Marks, Naps
<1>2. GoodNaps(<<"scan">> \o s)
  BY <1>1, PushNaps DEF Marks
<1>3. \A g \in Marks : On(g, <<"scan">> \o s) => On(g, stack[cpu])
  BY <1>1, OnPush
<1> QED BY <1>2, <1>3, FramesTop DEF EnterYield

(* The code that calls the scheduler is not inside a sleep. *)
LEMMA CodeIsAwake ==
  ASSUME IInv, FramesInv, InCode
  PROVE  \A g \in Naps : ~On(g, stack[cpu])
<1>1. /\ stack[cpu] \in Seq(Frames) /\ stack[cpu] # <<>> /\ GoodNaps(stack[cpu])
      /\ GoodStack(stack[cpu])
  BY OnCpu DEF FramesInv
<1>2. \A g : On(g, stack[cpu]) <=> g = Head(stack[cpu]) \/ On(g, Tail(stack[cpu]))
  BY <1>1, OnPop
<1>3. CASE Running("entry")
  <2>1. Head(stack[cpu]) = "entry" /\ Head(stack[cpu]) \in Bases
    BY <1>3 DEF Running, Bases
  <2>2. Tail(stack[cpu]) = <<>>
    BY <1>1, <2>1, BaseAlone
  <2>3. \A g : ~On(g, <<>>)
    BY DEF On
  <2> QED BY <1>2, <2>1, <2>2, <2>3 DEF Naps
<1>4. CASE Running("keyboard_isr")
  <2>1. Head(stack[cpu]) = "keyboard_isr"
    BY <1>4 DEF Running
  <2>2. \A g \in Naps \cup {"keyboard_isr"} : ~On(g, Tail(stack[cpu]))
    BY <1>1, <2>1, PopNaps
  <2> QED BY <1>2, <2>1, <2>2 DEF Naps
<1> QED BY <1>3, <1>4 DEF InCode

(* A key comes only while nobody of kmain's and the idle thread sleeps,    *)
(* and no worker exists.                                                   *)
LEMMA KeyFindsAwake ==
  ASSUME IInv, FramesInv, KeyboardInterrupt
  PROVE  \A g \in Naps \cup {"keyboard_isr"} : ~On(g, stack[cpu])
<1>1. ~irq1 /\ Quiet
  BY DEF KeyboardInterrupt
<1>2. cpu \in {Boot, Idle}
  <2>1. cpu \in Threads /\ stack[cpu] # <<>>
    BY OnCpu
  <2>2. state[cpu] # "FREE"
    BY <2>1 DEF IInv, StacksInv
  <2> QED BY <1>1, <2>1, <2>2 DEF Quiet, Threads
<1>3. GoodNaps(stack[cpu]) /\ ~On("keyboard_isr", stack[cpu])
  BY <1>1, OnCpu DEF FramesInv
<1>4. ~On("entry", stack[cpu])
  BY <1>2 DEF FramesInv
<1> QED BY <1>3, <1>4, NapHasCaller

LEMMA FramesEntry ==
  ASSUME IInv, FramesInv, irq1' = irq1, NEW f \in {"entry", "exit"}, Goto(f),
         cpu \notin {Boot, Idle}
  PROVE  FramesInv'
<1>1. /\ stack[cpu] \in Seq(Frames) /\ stack[cpu] # <<>> /\ GoodNaps(stack[cpu])
      /\ Below \in Seq(Frames) /\ stack \in [Threads -> Seq(Frames)] /\ cpu \in Threads
      /\ f \in Frames \ (Naps \cup {"keyboard_isr"})
  BY OnCpu DEF FramesInv, Frames, Naps
<1>2. GoodNaps(Below)
  BY <1>1, PopNaps DEF Below
<1>3. GoodNaps(<<f>> \o Below)
  BY <1>1, <1>2, PushNaps
<1>4. On("keyboard_isr", <<f>> \o Below) => On("keyboard_isr", stack[cpu])
  BY <1>1, OnPop, OnPush DEF Below
<1>5. stack'[cpu] = <<f>> \o Below /\ \A t \in Threads \ {cpu} : stack'[t] = stack[t]
  BY <1>1 DEF Goto
<1>6. Boot \in Threads \ {cpu} /\ Idle \in Threads \ {cpu}
  BY DEF Threads
<1>7. \A t \in Threads :
        /\ GoodNaps(stack'[t])
        /\ On("keyboard_isr", stack'[t]) => On("keyboard_isr", stack[t])
  BY <1>3, <1>4, <1>5 DEF FramesInv
<1> QED BY <1>5, <1>6, <1>7 DEF FramesInv

LEMMA FramesKeyIn ==
  ASSUME IInv, FramesInv, KeyboardInterrupt
  PROVE  FramesInv'
<1> DEFINE k == "keyboard_isr"
           s == <<k>> \o stack[cpu]
<1>1. /\ stack[cpu] \in Seq(Frames) /\ stack[cpu] # <<>> /\ GoodNaps(stack[cpu])
      /\ stack \in [Threads -> Seq(Frames)] /\ cpu \in Threads
      /\ k \in Frames \ Naps
  BY OnCpu DEF FramesInv, Frames, Naps
<1>2. GoodNaps(s)
  BY <1>1, KeyFindsAwake, PushNaps
<1>3. \A g : On(g, s) <=> g = k \/ On(g, stack[cpu])
  BY <1>1, OnPush
<1>4. stack' = [stack EXCEPT ![cpu] = s] /\ irq1' /\ ~irq1
  BY DEF KeyboardInterrupt, Call
<1> HIDE DEF s
<1>5. stack'[cpu] = s /\ \A t \in Threads \ {cpu} : stack'[t] = stack[t]
  BY <1>1, <1>4
<1>6. \A t \in Threads : ~On(k, stack[t])
  BY <1>4 DEF FramesInv
<1>7. \A t \in Threads : /\ GoodNaps(stack'[t])
                         /\ On(k, stack'[t]) => t = cpu
                         /\ \A g \in {"entry", "exit", "thread_trampoline"} :
                              On(g, stack'[t]) => On(g, stack[t])
  BY <1>2, <1>3, <1>5, <1>6 DEF FramesInv
<1>8. Boot \in Threads /\ Idle \in Threads
  BY DEF Threads
<1> QED BY <1>4, <1>7, <1>8 DEF FramesInv

LEMMA FramesKeyOut ==
  ASSUME IInv, FramesInv, KeyboardReturn
  PROVE  FramesInv'
<1> DEFINE k == "keyboard_isr"
<1>1. /\ stack[cpu] \in Seq(Frames) /\ stack[cpu] # <<>> /\ GoodNaps(stack[cpu])
      /\ stack \in [Threads -> Seq(Frames)] /\ cpu \in Threads
      /\ Head(stack[cpu]) = k
  BY OnCpu DEF FramesInv, KeyboardReturn, Running
<1>2. GoodNaps(Below) /\ ~On(k, Below)
  BY <1>1, PopNaps DEF Below
<1>3. \A g : On(g, stack[cpu]) <=> g = k \/ On(g, Below)
  BY <1>1, OnPop DEF Below
<1>4. stack' = [stack EXCEPT ![cpu] = Below]
  BY DEF KeyboardReturn, Return
<1>5. stack'[cpu] = Below /\ \A t \in Threads \ {cpu} : stack'[t] = stack[t]
  BY <1>1, <1>4
<1>6. \A t \in Threads \ {cpu} : ~On(k, stack[t])
  BY <1>1, <1>3 DEF FramesInv
<1>7. \A t \in Threads : /\ GoodNaps(stack'[t])
                         /\ ~On(k, stack'[t])
                         /\ \A g \in {"entry", "exit", "thread_trampoline"} :
                              On(g, stack'[t]) => On(g, stack[t])
  BY <1>2, <1>3, <1>5, <1>6 DEF FramesInv
<1>8. Boot \in Threads /\ Idle \in Threads
  BY DEF Threads
<1> QED BY <1>7, <1>8 DEF FramesInv

(* A stack is mapped for a new thread or unmapped. *)
LEMMA FramesMapped ==
  ASSUME IInv, FramesInv, irq1' = irq1, NEW t \in Threads,
         \A u \in Threads \ {t} : stack'[u] = stack[u],
         \/ stack'[t] = <<>>
         \/ stack'[t] = <<"thread_trampoline">> /\ t # Boot
  PROVE  FramesInv'
<1>1. \A g : ~On(g, <<>>)
  BY DEF On
<1>2. \A g : On(g, <<"thread_trampoline">>) => g = "thread_trampoline"
  BY DEF On
<1>3. GoodNaps(<<>>) /\ GoodNaps(<<"thread_trampoline">>)
  BY DEF GoodNaps, Naps
<1>4. ASSUME NEW u \in Threads
      PROVE  /\ GoodNaps(stack'[u])
             /\ \A g \in Marks : On(g, stack'[u]) => \/ On(g, stack[u])
                                                     \/ g = "thread_trampoline" /\ u # Boot
  <2>1. CASE u = t
    BY <1>1, <1>2, <1>3, <2>1
  <2>2. CASE u # t
    BY <2>2 DEF FramesInv
  <2> QED BY <2>1, <2>2
<1> QED BY <1>4, FramesStep

LEMMA FramesCreateIdle ==
  ASSUME IInv, FramesInv, CreateIdle
  PROVE  FramesInv'
<1>1. /\ stack[cpu] \in Seq(Frames) /\ stack[cpu] # <<>> /\ GoodNaps(stack[cpu])
      /\ Below \in Seq(Frames) /\ stack \in [Threads -> Seq(Frames)] /\ cpu \in Threads
      /\ Idle \in Threads /\ Idle # Boot
      /\ "add_idle" \in Frames \ (Naps \cup Marks)
  BY OnCpu, ThreadsAssumption DEF FramesInv, Frames, Naps, Marks, Threads
<1>2. cpu # Idle
  BY <1>1 DEF IInv, StacksInv, CreateIdle, ThreadCreate
<1>3. GoodNaps(<<"add_idle">> \o Below)
  <2>1. GoodNaps(Below)
    BY <1>1, PopNaps DEF Below
  <2> QED BY <1>1, <2>1, PushNaps DEF Marks
<1>4. \A g \in Marks : On(g, <<"add_idle">> \o Below) => On(g, stack[cpu])
  BY <1>1, OnPop, OnPush DEF Below
<1>5. /\ stack'[Idle] = <<"thread_trampoline">> /\ stack'[cpu] = <<"add_idle">> \o Below
      /\ \A t \in Threads \ {cpu, Idle} : stack'[t] = stack[t]
      /\ irq1' = irq1
  BY <1>1, <1>2 DEF CreateIdle, ThreadCreate, signals
<1>6. /\ GoodNaps(<<"thread_trampoline">>)
      /\ \A g : On(g, <<"thread_trampoline">>) => g = "thread_trampoline"
  BY DEF GoodNaps, Naps, On
<1>7. ASSUME NEW t \in Threads
      PROVE  /\ GoodNaps(stack'[t])
             /\ \A g \in Marks : On(g, stack'[t]) => \/ On(g, stack[t])
                                                     \/ g = "thread_trampoline" /\ t # Boot
  <2>1. CASE t = Idle
    BY <1>1, <1>5, <1>6, <2>1
  <2>2. CASE t = cpu
    BY <1>3, <1>4, <1>5, <2>2
  <2>3. CASE t \notin {cpu, Idle}
    BY <1>5, <2>3 DEF FramesInv
  <2> QED BY <2>1, <2>2, <2>3
<1> QED BY <1>5, <1>7, FramesStep

LEMMA FramesKeeps ==
  ASSUME IInv, FramesInv, ~untimely', [Next]_vars
  PROVE  FramesInv'
<1>0. /\ stack[cpu] \in Seq(Frames) /\ stack[cpu] # <<>> /\ GoodNaps(stack[cpu])
      /\ Below \in Seq(Frames) /\ stack \in [Threads -> Seq(Frames)] /\ cpu \in Threads
      /\ \A g : On(g, stack[cpu]) <=> g = Head(stack[cpu]) \/ On(g, Below)
  BY OnCpu, OnPop DEF FramesInv, Below
<1>1. CASE irq1' = irq1 /\ stack' = stack
  BY <1>1, FramesStep DEF FramesInv
<1>2. CASE irq1' = irq1 /\ Return
  BY <1>2, FramesReturn
<1>3. CASE irq1' = irq1 /\ \E f \in Frames \ (Marks \cup Naps) : Goto(f)
  BY <1>3, FramesGoto
<1>4. CASE CreateIdle
  BY <1>4, FramesCreateIdle
<1>5. CASE ScanReap
  <2>1. candidate \in Threads /\ irq1' = irq1 /\ stack' = [stack EXCEPT ![candidate] = <<>>]
    BY <1>5, InScan DEF ScanReap, ThreadDestroy, signals
  <2> QED BY <1>0, <2>1, FramesMapped
<1>6. CASE StartThread
  <2>1. Head(stack[cpu]) = "thread_trampoline" /\ irq1' = irq1
    BY <1>6 DEF StartThread, Running, signals
  <2>2. CASE cpu = Idle
    <3>1. Goto("idle_loop") /\ "idle_loop" \in Frames \ (Marks \cup Naps)
      BY <1>6, <2>2 DEF StartThread, Frames, Marks, Naps
    <3> QED BY <2>1, <3>1, FramesGoto
  <2>3. CASE cpu # Idle
    <3>1. On("thread_trampoline", stack[cpu])
      BY <1>0, <2>1
    <3>2. cpu # Boot
      BY <3>1 DEF FramesInv
    <3>3. Goto("entry")
      BY <1>6, <2>3 DEF StartThread
    <3> QED BY <2>1, <2>3, <3>2, <3>3, FramesEntry
  <2> QED BY <2>2, <2>3
<1>7. CASE Block
  <2>1. /\ Goto("blocked") /\ irq1' = irq1 /\ Head(stack[cpu]) \in Naps
        /\ "blocked" \in Frames \ Marks
    BY <1>7 DEF Block, Running, signals, Naps, Frames, Marks
  <2> QED BY <2>1, FramesGoto
<1>8. CASE SleepYield
  <2> DEFINE s == <<"slept">> \o Below
  <2>1. /\ Head(stack[cpu]) \in Naps /\ "slept" \in Frames \ Marks /\ irq1' = irq1
        /\ EnterYield(s, eif)
    BY <1>8 DEF SleepYield, Running, signals, Naps, Frames, Marks
  <2>2. GoodNaps(Below) /\ Below # <<>> /\ Head(Below) \in Code
    BY <1>0, <2>1, PopNaps DEF Below
  <2>3. GoodNaps(s)
    BY <1>0, <2>1, <2>2, PushNaps DEF Marks
  <2>4. \A g \in Marks : On(g, s) => On(g, stack[cpu])
    BY <1>0, <2>1, OnPush
  <2>5. s \in Seq(Frames)
    BY <1>0, <2>1, ConsFacts
  <2> HIDE DEF s
  <2> QED BY <2>1, <2>3, <2>4, <2>5, FramesEnter
<1>9. CASE ExitYield \/ CallYield
  <2>1. EnterYield(stack[cpu], eif) /\ irq1' = irq1
    BY <1>9 DEF ExitYield, CallYield, signals
  <2> QED BY <1>0, <2>1, FramesEnter
<1>10. CASE TimerInterrupt
  <2> DEFINE s == <<"timer_isr">> \o stack[cpu]
  <2>1. current # Null
    BY <1>10 DEF TimerInterrupt, Untimely
  <2>2. EnterYield(s, FALSE) /\ irq1' = irq1
    BY <1>10, <2>1 DEF TimerInterrupt, signals
  <2>3. "timer_isr" \in Frames \ (Marks \cup Naps)
    BY DEF Frames, Marks, Naps
  <2>4. s \in Seq(Frames) /\ GoodNaps(s)
    BY <1>0, <2>3, ConsFacts, PushNaps DEF Marks
  <2>5. \A g \in Marks : On(g, s) => On(g, stack[cpu])
    BY <1>0, <2>3, OnPush
  <2> HIDE DEF s
  <2> QED BY <2>2, <2>4, <2>5, FramesEnter
<1>11. CASE EntryReturn
  <2>1. Head(stack[cpu]) = "entry" /\ irq1' = irq1 /\ Goto("exit")
    BY <1>11 DEF EntryReturn, Running, signals
  <2>2. cpu \notin {Boot, Idle}
    BY <1>0, <2>1 DEF FramesInv
  <2> QED BY <2>1, <2>2, FramesEntry
<1>12. CASE Sleep
  <2>1. Head(stack[cpu]) \in Code /\ Call("thread_sleep") /\ irq1' = irq1
        /\ "thread_sleep" \in Frames \ Marks
    BY <1>12 DEF Sleep, InCode, Running, signals, Code, Frames, Marks
  <2> QED BY <2>1, FramesCall
<1>13. CASE KeyboardInterrupt
  BY <1>13, FramesKeyIn
<1>14. CASE KeyboardReturn
  BY <1>14, FramesKeyOut
<1>15. CASE TestCreate
  <2>1. PICK w \in Workers : ThreadCreate(w, stack[cpu])
    BY <1>15 DEF TestCreate
  <2>2. w \in Threads /\ w # Boot /\ w # cpu
    BY <1>0, <2>1, ThreadsAssumption DEF Threads, ThreadCreate, IInv, StacksInv
  <2>3. /\ stack'[w] = <<"thread_trampoline">>
        /\ \A u \in Threads \ {w} : stack'[u] = stack[u]
        /\ irq1' = irq1
    BY <1>0, <1>15, <2>1, <2>2 DEF ThreadCreate, TestCreate, signals
  <2> QED BY <2>2, <2>3, FramesMapped
<1>16. CASE TestDestroy
  <2>1. /\ made \in Threads /\ irq1' = irq1
        /\ stack' = [stack EXCEPT ![made] = <<>>]
    BY <1>16 DEF TestDestroy, ThreadDestroy, signals, IInv, TypeOK
  <2> QED BY <1>0, <2>1, FramesMapped
<1>17. /\ InitCurrent => irq1' = irq1 /\ Goto("create_idle")
       /\ AddIdle => irq1' = irq1 /\ Goto("pit_initialize")
       /\ StartTimer => irq1' = irq1 /\ Goto("kmain")
       /\ ScanPick => irq1' = irq1 /\ Goto("window")
       /\ ContextSwitch => irq1' = irq1 /\ Goto("context_switch")
       /\ {"create_idle", "pit_initialize", "kmain", "window", "context_switch"}
            \subseteq Frames \ (Marks \cup Naps)
  BY DEF InitCurrent, AddIdle, StartTimer, ScanPick, ContextSwitch, signals, Frames,
     Marks, Naps
<1>18. ScanNone \/ ReturnFromSwitch \/ Iret \/ SleepReturn => irq1' = irq1 /\ Return
  BY DEF ScanNone, ReturnFromSwitch, Iret, SleepReturn, signals
<1>19. ScanSkip \/ TestSti \/ TestAdd \/ UNCHANGED vars => irq1' = irq1 /\ stack' = stack
  BY DEF ScanSkip, TestSti, TestAdd, vars, signals
<1> QED
  BY <1>1, <1>2, <1>3, <1>4, <1>5, <1>6, <1>7, <1>8, <1>9, <1>10, <1>11, <1>12, <1>13,
     <1>14, <1>15, <1>16, <1>17, <1>18, <1>19
     DEF Next, CodeStep, BootStep, Scan, Command

-----------------------------------------------------------------------------
(* kmain's thread and the idle thread stay in the list for good, from the  *)
(* step of the start-up that puts them there.                              *)

Early == {"scheduler_initialize", "create_idle", "add_idle"}

KeeperInv ==
  /\ state[Boot] # "TERMINATED" /\ state[Idle] # "TERMINATED"
  /\ Stage(stack[Boot]) # "scheduler_initialize" => Boot \in Linked
  /\ Stage(stack[Boot]) \notin Early => Idle \in Linked
  /\ Stage(stack[Boot]) = "add_idle" => made = Idle

(* Before `current` is valid there is one frame, kmain's. *)
LEMMA AloneAwake ==
  ASSUME IInv, current = Null
  PROVE  \A g : On(g, stack[Boot]) => g = "scheduler_initialize"
<1>1. /\ stack[Boot] # <<>> /\ Len(stack[Boot]) = 1
      /\ Stage(stack[Boot]) = "scheduler_initialize"
  BY DEF IInv, CpuInv, BootInv
<1>2. stack[Boot][1] = "scheduler_initialize"
  BY <1>1 DEF Stage
<1> QED BY <1>1, <1>2 DEF On

(* Only kmain's own steps get its start-up on, and no thread is created by *)
(* anybody else before it is done.                                         *)
LEMMA StageKept ==
  ASSUME IInv, state[Boot] # "TERMINATED", ~untimely', Next, ~BootStep
  PROVE  /\ Stage(stack'[Boot]) = Stage(stack[Boot])
         /\ Stage(stack[Boot]) # "booted" => made' = made
<1>0. /\ cpu \in Threads /\ stack \in [Threads -> Seq(Frames)] /\ Boot \in Threads
      /\ stack[cpu] # <<>> /\ GoodStack(stack[cpu]) /\ stack[cpu] \in Seq(Frames)
  BY OnCpu DEF Threads
<1>1. CASE TopStep /\ made' = made
  BY <1>0, <1>1 DEF TopStep
<1>2. CASE stack'[Boot] = stack[Boot] /\ made' = made
  BY <1>2
<1>3. CASE Command /\ ~KeyboardReturn
  <2>1. Stage(stack[Boot]) = "booted"
    BY <1>3, CommandBooted DEF Command, TestSti, TestCreate, TestAdd, TestDestroy
  <2>2. stack'[Boot] = stack[Boot] \/ stack'[Boot] = <<>>
    <3>1. CASE TestSti \/ TestAdd
      BY <3>1 DEF TestSti, TestAdd
    <3>2. CASE TestCreate
      <4>1. PICK w \in Workers : ThreadCreate(w, stack[cpu])
        BY <3>2 DEF TestCreate
      <4>2. w # Boot
        BY ThreadsAssumption
      <4> QED BY <1>0, <4>1, <4>2 DEF ThreadCreate
    <3>3. CASE TestDestroy
      BY <1>0, <3>3 DEF TestDestroy, ThreadDestroy
    <3> QED BY <1>3, <3>1, <3>2, <3>3 DEF Command
  <2> QED BY <2>1, <2>2 DEF Stage
<1>4. CASE ScanReap
  <2>1. candidate # Boot
    BY <1>4 DEF ScanReap
  <2>2. stack'[Boot] = stack[Boot] /\ made' = made
    BY <1>0, <1>4, <2>1 DEF ScanReap, ThreadDestroy
  <2> QED BY <1>2, <2>2
<1>5. CASE ScanSkip \/ TestSti
  BY <1>2, <1>5 DEF ScanSkip, TestSti
<1>6. CASE ScanNone \/ ReturnFromSwitch \/ Iret \/ SleepReturn \/ KeyboardReturn
  <2>1. /\ Return /\ made' = made
        /\ Head(stack[cpu]) \in {"scan", "context_switch", "timer_isr", "slept", "keyboard_isr"}
    BY <1>6 DEF ScanNone, ReturnFromSwitch, Iret, SleepReturn, KeyboardReturn, Running
  <2>2. Head(stack[cpu]) \notin Bases
    BY <2>1 DEF Bases, Halts, BootFrames
  <2> QED BY <1>1, <2>1, <2>2, ReturnTop
<1>7. CASE ScanPick \/ Block \/ ContextSwitch
  <2>1. PICK f \in {"window", "blocked", "context_switch"} : Goto(f) /\ made' = made
    BY <1>7 DEF ScanPick, Block, ContextSwitch
  <2>2. Head(stack[cpu]) \in {"scan", "thread_sleep", "window"}
    BY <1>7 DEF ScanPick, Block, ContextSwitch, Running
  <2>3. /\ f \in Frames \ BootFrames /\ f # "keyboard_isr" /\ f \notin Bases
        /\ Head(stack[cpu]) \notin Isrs \cup BootFrames \cup Bases
    BY <2>1, <2>2 DEF Frames, BootFrames, Bases, Halts, Isrs
  <2> QED BY <1>1, <2>1, <2>3, GotoTop
<1>8. CASE EntryReturn \/ StartThread
  <2>1. PICK f \in {"exit", "entry", "idle_loop"} : Goto(f) /\ made' = made
    BY <1>8 DEF EntryReturn, StartThread
  <2>2. Head(stack[cpu]) \in {"entry", "thread_trampoline"}
    BY <1>8 DEF EntryReturn, StartThread, Running
  <2>3. /\ f \in Frames \ BootFrames /\ f # "keyboard_isr" /\ f \in Bases
        /\ Head(stack[cpu]) \notin Isrs \cup BootFrames /\ Head(stack[cpu]) \in Bases
    BY <2>1, <2>2 DEF Frames, BootFrames, Bases, Halts, Isrs
  <2> QED BY <1>1, <2>1, <2>3, GotoTop
<1>9. CASE Sleep
  <2>1. Call("thread_sleep") /\ made' = made /\ Head(stack[cpu]) \in {"entry", "keyboard_isr"}
    BY <1>9 DEF Sleep, InCode, Running
  <2>2. /\ "thread_sleep" \in Frames \ Bases
        /\ Head(stack[cpu]) \notin Critical /\ Head(stack[cpu]) \notin Halts
    BY <2>1 DEF Frames, BootFrames, Bases, Halts, Critical
  <2> QED BY <1>1, <2>1, <2>2, CallTop
<1>10. CASE KeyboardInterrupt
  <2>1. Stage(stack[Boot]) = "booted" /\ Call("keyboard_isr") /\ made' = made
    BY <1>10 DEF KeyboardInterrupt, Quiet, Stage, BootFrames
  <2>2. Head(stack[cpu]) \notin Critical
    BY <1>10, TimelyInterrupt DEF KeyboardInterrupt
  <2>3. "keyboard_isr" \in Frames \ Bases /\ "keyboard_isr" \in Isrs
    BY DEF Frames, BootFrames, Bases, Halts, Isrs
  <2> QED BY <1>1, <2>1, <2>2, <2>3, CallTop
<1>11. CASE CallYield \/ ExitYield
  <2>1. /\ EnterYield(stack[cpu], eif) /\ made' = made
        /\ Head(stack[cpu]) \in {"entry", "keyboard_isr", "exit"}
    BY <1>11 DEF CallYield, ExitYield, InCode, Running
  <2>2. Head(stack[cpu]) \notin Critical \cup Halts
    BY <2>1 DEF BootFrames, Halts, Critical
  <2> QED BY <1>0, <1>1, <2>1, <2>2, YieldTop
<1>12. CASE SleepYield
  <2> DEFINE s == <<"slept">> \o Below
  <2>1. EnterYield(s, eif) /\ made' = made /\ Head(stack[cpu]) = "blocked"
    BY <1>12 DEF SleepYield, Running
  <2>2. /\ "slept" \in Frames /\ "slept" \notin Bases \cup Critical \cup Halts \cup BootFrames
        /\ Head(stack[cpu]) \notin Isrs \cup Bases \cup BootFrames
    BY <2>1 DEF Frames, Bases, Halts, BootFrames, Critical, Isrs
  <2>3. /\ GoodStack(s) /\ s # <<>> /\ Head(s) = "slept"
        /\ Stage(s) = Stage(stack[cpu])
        /\ On("keyboard_isr", s) => On("keyboard_isr", stack[cpu])
    BY <1>0, <2>2, SwapGood DEF Below
  <2> HIDE DEF s
  <2> QED BY <1>1, <2>1, <2>2, <2>3, YieldTop
<1>13. CASE TimerInterrupt
  <2> DEFINE s == <<"timer_isr">> \o stack[cpu]
  <2>1. current # Null /\ Head(stack[cpu]) \notin Critical
    BY <1>13, TimelyInterrupt DEF TimerInterrupt
  <2>2. EnterYield(s, FALSE) /\ made' = made
    BY <1>13, <2>1 DEF TimerInterrupt
  <2>3. /\ "timer_isr" \in Frames \ Bases /\ "timer_isr" \in Isrs
        /\ "timer_isr" \notin Critical \cup Halts
    BY DEF Frames, Bases, Halts, BootFrames, Critical, Isrs
  <2>4. /\ GoodStack(s) /\ s # <<>> /\ Head(s) = "timer_isr"
        /\ Stage(s) = Stage(stack[cpu])
        /\ On("keyboard_isr", s) => On("keyboard_isr", stack[cpu])
    BY <1>0, <2>1, <2>3, PushGood
  <2> HIDE DEF s
  <2> QED BY <1>1, <2>2, <2>3, <2>4, YieldTop
<1> QED
  BY <1>3, <1>4, <1>5, <1>6, <1>7, <1>8, <1>9, <1>10, <1>11, <1>12, <1>13
     DEF Next, CodeStep, Command, Scan

LEMMA KeeperBoot ==
  ASSUME IInv, KeeperInv, BootStep
  PROVE  KeeperInv'
<1>1. Boot \in Threads /\ Idle \in Threads /\ Boot # Idle /\ Null \notin Threads
  BY ThreadsAssumption DEF Threads
<1>2. state \in [Threads -> States] /\ next \in [Threads -> Threads \cup {Null}]
      /\ stack \in [Threads -> Seq(Frames)]
  BY DEF IInv, TypeOK
<1>3. /\ BootFrames \subseteq Halts /\ "kmain" \in Halts \ BootFrames
      /\ BootFrames = Early \cup {"pit_initialize"}
  BY DEF BootFrames, Halts, Early
<1>4. CASE InitCurrent
  <2>1. /\ Running("scheduler_initialize") /\ Goto("create_idle")
        /\ next' = [next EXCEPT ![Boot] = Boot] /\ state' = [state EXCEPT ![Boot] = "RUNNING"]
        /\ "scheduler_initialize" \in BootFrames /\ "create_idle" \in BootFrames
    BY <1>4 DEF InitCurrent, BootFrames
  <2>2. Stage(stack'[Boot]) = "create_idle"
    BY <1>3, <2>1, BootFrame
  <2>3. Boot \in Linked' /\ state'[Boot] = "RUNNING" /\ state'[Idle] = state[Idle]
    BY <1>1, <1>2, <2>1 DEF Linked
  <2> QED BY <2>2, <2>3 DEF KeeperInv, Early
<1>5. CASE CreateIdle
  <2>1. /\ Running("create_idle") /\ "create_idle" \in BootFrames /\ "add_idle" \in BootFrames
        /\ ThreadCreate(Idle, <<"add_idle">> \o Below)
    BY <1>5 DEF CreateIdle, BootFrames
  <2>2. /\ cpu = Boot /\ stack[Boot] \in Seq(Frames) /\ Len(stack[Boot]) = 1
        /\ Stage(stack[Boot]) = "create_idle"
    BY <2>1, InBoot
  <2>3. stack'[Boot] = <<"add_idle">> \o Tail(stack[Boot])
    BY <1>1, <1>2, <2>1, <2>2 DEF ThreadCreate, Below
  <2>4. Stage(stack'[Boot]) = "add_idle"
    BY <1>3, <2>1, <2>2, <2>3, BootGoto
  <2>5. /\ state'[Boot] = state[Boot] /\ state'[Idle] = "READY" /\ made' = Idle
        /\ next'[Boot] = next[Boot]
    BY <1>1, <1>2, <2>1 DEF ThreadCreate
  <2> QED BY <1>1, <2>2, <2>4, <2>5 DEF KeeperInv, Early, Linked
<1>6. CASE AddIdle
  <2>1. /\ Running("add_idle") /\ "add_idle" \in BootFrames /\ "pit_initialize" \in BootFrames
        /\ Goto("pit_initialize") /\ state' = state
        /\ next' = [next EXCEPT ![made] = next[current], ![current] = made]
    BY <1>6 DEF AddIdle, SchedulerAdd, BootFrames
  <2>2. Stage(stack[Boot]) = "add_idle" /\ current # Null /\ ~Running("window") /\ cpu = Boot
    BY <2>1, InBoot
  <2>3. made = Idle /\ current = Boot
    BY <2>2 DEF KeeperInv, IInv, CpuInv
  <2>4. next[Boot] # Null
    BY <2>2 DEF KeeperInv, Linked
  <2>5. next'[Idle] # Null /\ next'[Boot] # Null
    BY <1>1, <1>2, <2>1, <2>3, <2>4
  <2>6. Stage(stack'[Boot]) = "pit_initialize"
    BY <1>3, <2>1, BootFrame
  <2> QED BY <1>1, <2>1, <2>5, <2>6 DEF KeeperInv, Early, Linked
<1>7. CASE StartTimer
  <2>1. /\ Running("pit_initialize") /\ "pit_initialize" \in BootFrames \ Early
        /\ Goto("kmain") /\ state' = state /\ next' = next
    BY <1>7 DEF StartTimer, ring, BootFrames, Early
  <2>2. Stage(stack[Boot]) = "pit_initialize"
    BY <2>1, InBoot
  <2>3. Stage(stack'[Boot]) = "booted"
    BY <1>3, <2>1, BootFrame
  <2> QED BY <2>1, <2>2, <2>3 DEF KeeperInv, Early, Linked
<1> QED BY <1>4, <1>5, <1>6, <1>7 DEF BootStep

LEMMA KeeperKeeps ==
  ASSUME IInv, FramesInv, KeeperInv, ~untimely', [Next]_vars
  PROVE  KeeperInv'
<1>1. CASE UNCHANGED vars
  <2>1. UNCHANGED <<state, next, stack, made>>
    BY <1>1 DEF vars
  <2> QED BY <2>1 DEF KeeperInv, Linked
<1>2. CASE BootStep
  BY <1>2, KeeperBoot
<1>3. CASE Next /\ ~BootStep
  <2>1. /\ Stage(stack'[Boot]) = Stage(stack[Boot])
        /\ Stage(stack[Boot]) # "booted" => made' = made
    BY <1>3, StageKept DEF KeeperInv
  <2>4. Boot \in Threads /\ Idle \in Threads /\ Boot \notin Workers /\ Idle \notin Workers
    BY ThreadsAssumption DEF Threads
  <2>5. state \in [Threads -> States] /\ next \in [Threads -> Threads \cup {Null}]
    BY DEF IInv, TypeOK
  <2>6. ASSUME NEW t \in {Boot, Idle}
        PROVE  state'[t] # "TERMINATED" /\ (t \in Linked => t \in Linked')
    <3>1. state[t] # "TERMINATED" /\ t \in Threads /\ (t \in Linked => next[t] # Null)
      BY <2>4 DEF KeeperInv, Linked
    <3>2. CASE ScanReap
      <4>1. candidate \in Linked /\ next[candidate] \in Linked /\ candidate # t
        BY <3>1, <3>2, InScan DEF ScanReap
      <4>2. next[candidate] # Null /\ candidate \in Threads
        BY <4>1 DEF Linked
      <4>3. (t \in Linked => next'[t] # Null) /\ state'[t] = state[t]
        BY <2>5, <3>1, <3>2, <4>1, <4>2 DEF ScanReap, ThreadDestroy
      <4> QED BY <3>1, <4>3 DEF Linked
    <3>3. CASE TestCreate
      <4>1. PICK w \in Workers : ThreadCreate(w, stack[cpu])
        BY <3>3 DEF TestCreate
      <4>2. w # t
        BY <2>4
      <4> QED BY <2>5, <3>1, <4>1, <4>2 DEF ThreadCreate, Linked
    <3>4. CASE TestAdd
      <4>1. /\ next' = [next EXCEPT ![made] = next[current], ![current] = made]
            /\ state' = state /\ made # Null /\ made \in Threads
        BY <3>4 DEF TestAdd, SchedulerAdd, IInv, TypeOK
      <4>2. next[current] # Null /\ current \in Threads
        BY <3>4, InCommand DEF TestAdd, Linked
      <4>3. t \in Linked => next'[t] # Null
        BY <2>5, <3>1, <4>1, <4>2
      <4> QED BY <3>1, <4>1, <4>3 DEF Linked
    <3>5. CASE EntryReturn
      <4>1. Running("entry") /\ next' = next /\ state' = [state EXCEPT ![current] = "TERMINATED"]
        BY <3>5 DEF EntryReturn, ring
      <4>2. current = cpu /\ Head(stack[cpu]) = "entry"
        <5>1. "entry" \in Frames \ BootFrames
          BY DEF Frames, BootFrames
        <5> QED BY <4>1, <5>1, AfterBoot DEF IInv, CpuInv, Running
      <4>3. On("entry", stack[cpu])
        <5>1. stack[cpu] \in Seq(Frames) /\ stack[cpu] # <<>>
          BY OnCpu
        <5> QED BY <4>2, <5>1, OnPop
      <4>4. t # current
        BY <4>2, <4>3 DEF FramesInv
      <4> QED BY <2>5, <3>1, <4>1, <4>4 DEF Linked
    <3>6. CASE TestDestroy
      <4>1. made \in Threads /\ next' = next /\ state' = [state EXCEPT ![made] = "FREE"]
        BY <3>6 DEF TestDestroy, ThreadDestroy, ring, IInv, TypeOK
      <4> QED BY <2>5, <3>1, <4>1 DEF Linked
    <3>7. CASE Block
      <4>1. next' = next /\ state' = [state EXCEPT ![cpu] = "BLOCKED"]
        BY <3>7 DEF Block, ring
      <4> QED BY <2>5, <3>1, <4>1 DEF Linked
    <3>8. CASE ScanPick
      <4>1. /\ next' = next
            /\ state' = [state EXCEPT ![candidate] = IF @ = "BLOCKED" THEN "READY" ELSE @]
        BY <3>8 DEF ScanPick
      <4> QED BY <2>5, <3>1, <4>1 DEF Linked
    <3>9. CASE next' = next /\ state' = state
      BY <3>1, <3>9 DEF Linked
    <3> QED
      BY <1>3, <3>2, <3>3, <3>4, <3>5, <3>6, <3>7, <3>8, <3>9
         DEF Next, CodeStep, Command, Scan, ScanSkip, ScanNone,
         ContextSwitch, ReturnFromSwitch, StartThread, Iret, SleepYield,
         SleepReturn, ExitYield, TestSti, KeyboardReturn,
         CallYield, Sleep, TimerInterrupt, KeyboardInterrupt, ring
  <2> QED BY <2>1, <2>6 DEF KeeperInv
<1> QED BY <1>1, <1>2, <1>3

-----------------------------------------------------------------------------
(* Sleepers *)

Waits(s) == On("blocked", s) \/ On("slept", s)

(* A sleeper whose ticks have not passed is blocked, only who is in        *)
(* thread_sleep is, and whoever is past its yield is not.                  *)
SleepInv ==
  /\ \A t \in Threads : left[t] > 0 => wake_at[t] = (ticks + left[t]) % TickMod
  /\ \A t \in Threads : left[t] > 0 /\ Waits(stack[t]) => state[t] = "BLOCKED"
  /\ \A t \in Threads : state[t] = "BLOCKED" => Waits(stack[t])
  /\ current # Null /\ state[current] = "BLOCKED"
       => Head(stack[current]) \in {"blocked", "scan"}

LEMMA ModWithin ==
  ASSUME NEW x \in 0 .. TickMod - 1
  PROVE  x % TickMod = x
  BY ClockAssumption

LEMMA ModOver ==
  ASSUME NEW x \in TickMod .. 2 * TickMod - 1
  PROVE  x % TickMod = x - TickMod
  BY ClockAssumption

LEMMA ModUnder ==
  ASSUME NEW x \in -TickMod .. -1
  PROVE  x % TickMod = x + TickMod
  BY ClockAssumption

(* (a + n) % TickMod without the remainder *)
LEMMA ModPlus ==
  ASSUME NEW a \in 0 .. TickMod - 1, NEW n \in 0 .. TickMod - 1
  PROVE  (a + n) % TickMod = IF a + n < TickMod THEN a + n ELSE a + n - TickMod
<1> DEFINE x == a + n
<1>1. TickMod \in Nat /\ TickMod >= 2 /\ x \in 0 .. 2 * TickMod - 1
  BY ClockAssumption
<1> HIDE DEF x
<1>2. x % TickMod = IF x < TickMod THEN x ELSE x - TickMod
  <2>1. CASE x < TickMod
    BY <1>1, <2>1, ModWithin
  <2>2. CASE ~(x < TickMod)
    <3>1. x \in TickMod .. 2 * TickMod - 1
      BY <1>1, <2>2
    <3> QED BY <2>2, <3>1, ModOver
  <2> QED BY <2>1, <2>2
<1> QED BY <1>1, <1>2 DEF x

LEMMA ModMinus ==
  ASSUME NEW a \in 0 .. TickMod - 1, NEW b \in 0 .. TickMod - 1
  PROVE  (a - b) % TickMod = IF b <= a THEN a - b ELSE a - b + TickMod
<1> DEFINE x == a - b
<1>1. TickMod \in Nat /\ TickMod >= 2 /\ x \in -TickMod .. TickMod - 1 /\ (b <= a <=> 0 <= x)
  BY ClockAssumption
<1> HIDE DEF x
<1>2. x % TickMod = IF 0 <= x THEN x ELSE x + TickMod
  <2>1. CASE 0 <= x
    BY <1>1, <2>1, ModWithin
  <2>2. CASE ~(0 <= x)
    <3>1. x \in -TickMod .. -1
      BY <1>1, <2>2
    <3> QED BY <2>2, <3>1, ModUnder
  <2> QED BY <2>1, <2>2
<1> QED BY <1>1, <1>2 DEF x

LEMMA SleepIsShort ==
  ASSUME NEW n \in 0 .. MaxSleep
  PROVE  n \in 0 .. TickMod - 1 /\ n <= TickMod - ((TickMod + 1) \div 2)
<1>1. n \in 0 .. TickMod \div 2
  BY ClockAssumption, SleepAssumption
<1> QED BY <1>1, ClockAssumption

(* The comparison of scheduler_yield holds a sleeper back while its ticks  *)
(* have not passed.                                                        *)
LEMMA AsleepWhileLeft ==
  ASSUME TypeOK, SleepInv, NEW t \in Threads, left[t] > 0, state[t] = "BLOCKED"
  PROVE  Asleep(t)
<1>1. /\ ticks \in 0 .. TickMod - 1 /\ left[t] \in 0 .. MaxSleep
      /\ wake_at[t] \in 0 .. TickMod - 1 /\ wake_at[t] = (ticks + left[t]) % TickMod
      /\ TickMod \in Nat
  BY ClockAssumption DEF TypeOK, SleepInv
<1> DEFINE a == ticks
           n == left[t]
           w == wake_at[t]
<1>2. n \in 0 .. TickMod - 1 /\ n <= TickMod - ((TickMod + 1) \div 2) /\ n > 0
  BY <1>1, SleepIsShort
<1> HIDE DEF a, n, w
<1>3. a \in 0 .. TickMod - 1 /\ w \in 0 .. TickMod - 1 /\ w = (a + n) % TickMod
  BY <1>1 DEF a, n, w
<1>4. w = IF a + n < TickMod THEN a + n ELSE a + n - TickMod
  BY <1>2, <1>3, ModPlus
<1>5. (a - w) % TickMod = IF w <= a THEN a - w ELSE a - w + TickMod
  BY <1>3, ModMinus
<1>6. (a - w) % TickMod = TickMod - n
  BY <1>1, <1>2, <1>3, <1>4, <1>5
<1>7. (a - w) % TickMod >= (TickMod + 1) \div 2
  BY <1>1, <1>2, <1>6, ClockAssumption
<1> QED BY <1>7 DEF Asleep, a, w

LEMMA SameWake ==
  ASSUME NEW a \in 0 .. TickMod - 1, NEW n \in 1 .. MaxSleep
  PROVE  (((a + 1) % TickMod) + (n - 1)) % TickMod = (a + n) % TickMod
<1>1. n \in 0 .. TickMod - 1 /\ n - 1 \in 0 .. TickMod - 1 /\ 1 \in 0 .. TickMod - 1
      /\ TickMod \in Nat
  BY SleepIsShort, ClockAssumption
<1> DEFINE b == (a + 1) % TickMod
<1>2. b = IF a + 1 < TickMod THEN a + 1 ELSE a + 1 - TickMod
  BY <1>1, ModPlus
<1> HIDE DEF b
<1>3. b \in 0 .. TickMod - 1
  BY <1>1, <1>2
<1>4. (b + (n - 1)) % TickMod = IF b + (n - 1) < TickMod THEN b + (n - 1)
                                ELSE b + (n - 1) - TickMod
  BY <1>1, <1>3, ModPlus
<1>5. (a + n) % TickMod = IF a + n < TickMod THEN a + n ELSE a + n - TickMod
  BY <1>1, ModPlus
<1>6. (b + (n - 1)) % TickMod = (a + n) % TickMod
  BY <1>1, <1>2, <1>3, <1>4, <1>5
<1> QED BY <1>6 DEF b

-----------------------------------------------------------------------------
(* What the scan has left behind: all of it asleep. *)

Passed(V) ==
  /\ \A t \in V : Asleep(t)
  /\ \A t \in V \cup {current} : next[t] \in V \cup {candidate}
ScanInv == lock => \E V \in SUBSET Linked : Passed(V)

(* Nobody else gets in while the lock is held. *)
LEMMA OnlyScan ==
  ASSUME IInv, lock, Next
  PROVE  Scan
<1>1. Running("scan") /\ ~eif /\ current # Null
  BY DEF IInv, LockInv
<1>2. ASSUME NEW f, Running(f) PROVE f = "scan"
  BY <1>1, <1>2 DEF Running
<1>3. ~TimerInterrupt /\ ~KeyboardInterrupt
  BY <1>1 DEF TimerInterrupt, KeyboardInterrupt, Interruptible
<1>4. ~BootStep
  BY <1>2 DEF BootStep, InitCurrent, CreateIdle, AddIdle, StartTimer
<1>5. /\ ~ContextSwitch /\ ~ReturnFromSwitch /\ ~StartThread /\ ~Iret /\ ~Block
      /\ ~SleepYield /\ ~SleepReturn /\ ~ExitYield
  BY <1>2 DEF ContextSwitch, ReturnFromSwitch, StartThread, Iret, Block, SleepYield,
     SleepReturn, ExitYield
<1>6. ~Command /\ ~EntryReturn /\ ~CallYield /\ ~Sleep
  BY <1>2 DEF Command, TestSti, TestCreate, TestAdd, TestDestroy, KeyboardReturn,
     EntryReturn, CallYield, Sleep, InCode
<1> QED BY <1>3, <1>4, <1>5, <1>6 DEF Next, CodeStep

(* Only a call of scheduler_yield takes the lock. *)
LEMMA OnlyEnter ==
  ASSUME IInv, ~untimely', ~lock, Next, lock'
  PROVE  /\ \E s, saved : EnterYield(s, saved)
         /\ next' = next /\ current' = current
<1>2. CASE TimerInterrupt
  <2>1. current # Null
    BY <1>2 DEF TimerInterrupt, Untimely
  <2> QED BY <1>2, <2>1 DEF TimerInterrupt, ring
<1>3. CASE CallYield \/ ExitYield \/ SleepYield
  BY <1>3 DEF CallYield, ExitYield, SleepYield, ring
<1>4. ASSUME ~TimerInterrupt, ~CallYield, ~ExitYield, ~SleepYield PROVE FALSE
  BY <1>4 DEF Next, CodeStep, Command, BootStep, InitCurrent, CreateIdle, AddIdle,
     StartTimer, Scan, ScanReap, ScanSkip, ScanPick, ScanNone, ContextSwitch,
     ReturnFromSwitch, StartThread, Iret, Block, SleepReturn, TestSti, TestCreate,
     TestAdd, TestDestroy, KeyboardReturn, EntryReturn, Sleep, KeyboardInterrupt
<1> QED BY <1>2, <1>3, <1>4

LEMMA ScanKeeps ==
  ASSUME IInv, ScanInv, ~untimely', [Next]_vars
  PROVE  ScanInv'
<1>1. CASE UNCHANGED vars
  <2>1. UNCHANGED <<lock, next, current, candidate, state, ticks, wake_at>>
    BY <1>1 DEF vars, ring, locals
  <2> QED BY <2>1 DEF ScanInv, Passed, Asleep, Linked
<1>2. CASE Next /\ ~lock
  <2> SUFFICES ASSUME lock' PROVE \E V \in SUBSET Linked' : Passed(V)'
    BY DEF ScanInv
  <2>1. next' = next /\ current' = current /\ candidate' = next[current]
    BY <1>2, OnlyEnter DEF EnterYield
  <2>2. Passed({})'
    BY <2>1 DEF Passed
  <2> QED BY <2>2
<1>3. CASE Next /\ lock
  <2>0. Running("scan") /\ Scan
    BY <1>3, OnlyScan DEF IInv, LockInv
  <2>1. PICK V \in SUBSET Linked : Passed(V)
    BY <1>3 DEF ScanInv
  <2>2. CASE ScanSkip
    <3>1. /\ UNCHANGED <<next, current, state, ticks, wake_at>>
          /\ candidate' = next[candidate] /\ Asleep(candidate)
          /\ candidate \in Linked
      BY <2>0, <2>2, InScan DEF ScanSkip, ring
    <3>2. PICK W : W = V \cup {candidate}
      OBVIOUS
    <3>3. Passed(W)'
      <4>1. \A t \in W : Asleep(t)'
        BY <2>1, <3>1, <3>2 DEF Passed, Asleep
      <4>2. \A t \in W \cup {current} : next[t] \in W \cup {next[candidate]}
        BY <2>1, <3>2 DEF Passed
      <4> QED BY <3>1, <4>1, <4>2 DEF Passed
    <3>4. W \in SUBSET Linked'
      BY <3>1, <3>2 DEF Linked
    <3> QED BY <3>3, <3>4 DEF ScanInv
  <2>3. CASE ScanReap
    <3>1. /\ current' = current /\ ticks' = ticks /\ wake_at' = wake_at
          /\ candidate' = next[candidate]
          /\ next' = [next EXCEPT ![prev] = next[candidate], ![candidate] = Null]
          /\ state' = [state EXCEPT ![candidate] = "FREE"]
          /\ state[candidate] = "TERMINATED" /\ candidate # current
      BY <2>3 DEF ScanReap, ThreadDestroy
    <3>2. /\ candidate \in Linked /\ prev \in Linked /\ next[prev] = candidate
          /\ Linked \subseteq Threads /\ current \in Linked
      BY <2>0, InScan
    <3>3. state \in [Threads -> States] /\ next \in [Threads -> Threads \cup {Null}]
      BY DEF IInv, TypeOK
    <3>4. \A t \in V : t # candidate /\ t \in Threads
      BY <2>1, <3>1, <3>2 DEF Passed, Asleep
    <3>5. \A t \in V : Asleep(t)'
      BY <2>1, <3>1, <3>3, <3>4 DEF Passed, Asleep
    <3>6. ASSUME NEW t \in V \cup {current}
          PROVE  next'[t] \in V \cup {next[candidate]}
      <4>1. t \in Linked /\ t # candidate /\ next[t] \in V \cup {candidate}
        BY <2>1, <3>1, <3>2, <3>4 DEF Passed
      <4>2. CASE next[t] = candidate
        <5>1. t = prev
          BY <3>2, <4>1, <4>2 DEF IInv, RingInv
        <5>2. next'[t] = next[candidate]
          BY <3>1, <3>2, <3>3, <4>1, <5>1
        <5> QED BY <5>2
      <4>3. CASE next[t] # candidate
        <5>1. t # prev
          BY <3>2, <4>3
        <5>2. next'[t] = next[t]
          BY <3>1, <3>2, <3>3, <4>1, <5>1
        <5> QED BY <4>1, <4>3, <5>2
      <4> QED BY <4>2, <4>3
    <3>7. Passed(V)'
      BY <3>1, <3>5, <3>6 DEF Passed
    <3>8. ASSUME NEW t \in V PROVE t \in Linked'
      <4>1. t \in Linked /\ t # candidate /\ next[candidate] \in Linked
        BY <3>2, <3>4 DEF IInv, RingInv
      <4>2. next'[t] # Null
        BY <3>1, <3>2, <3>3, <4>1 DEF Linked
      <4> QED BY <3>4, <4>2 DEF Linked
    <3> QED BY <3>7, <3>8 DEF ScanInv
  <2>4. CASE ScanPick \/ ScanNone
    BY <2>4 DEF ScanPick, ScanNone, ScanInv
  <2> QED BY <2>0, <2>2, <2>3, <2>4 DEF Scan
<1> QED BY <1>1, <1>2, <1>3

(* A scan that comes round to where it started was not a sleeper's or a    *)
(* parked thread's: kmain's thread or the idle thread would have been      *)
(* found, because at most one of them can be inside a sleep, and only with *)
(* the command that sleeps on its stack.                                   *)
LEMMA FoundSomebody ==
  ASSUME IInv, FramesInv, KeeperInv, SleepInv, ScanInv, ScanNone
  PROVE  state[current] \in {"RUNNING", "READY"}
<1>1. /\ lock /\ current \in Linked /\ Linked \subseteq Threads
      /\ candidate = current /\ current # Null
      /\ Head(stack[cpu]) = "scan" /\ current = cpu
  BY InScan DEF ScanNone
<1>2. PICK V \in SUBSET Linked : Passed(V)
  BY <1>1 DEF ScanInv
<1>3. V \cup {current} = Linked
  <2> DEFINE S == V \cup {current}
  <2>1. S \in SUBSET Linked /\ S # {} /\ \A t \in S : next[t] \in S
    BY <1>1, <1>2 DEF Passed
  <2> HIDE DEF S
  <2>2. S = Linked
    BY <2>1 DEF IInv, RingInv
  <2> QED BY <2>2 DEF S
<1>4. /\ Boot \in Linked /\ Boot # Idle /\ Boot \in Threads /\ Idle \in Threads
      /\ Idle \in Linked \/ \A t \in Threads : ~On("keyboard_isr", stack[t])
  BY <1>1, ThreadsAssumption DEF KeeperInv, Early, IInv, BootInv, Threads
<1>5. ASSUME NEW t \in {Boot, Idle}, state[t] = "BLOCKED"
      PROVE  On("keyboard_isr", stack[t])
  <2>1. t \in Threads /\ GoodNaps(stack[t]) /\ Waits(stack[t]) /\ ~On("entry", stack[t])
    BY <1>4, <1>5 DEF FramesInv, SleepInv
  <2>2. "blocked" \in Naps /\ "slept" \in Naps
    BY DEF Naps
  <2> QED BY <2>1, <2>2, NapHasCaller DEF Waits
<1>6. \A t \in {Boot, Idle} \cap Linked : t # current => state[t] = "BLOCKED"
  BY <1>2, <1>3 DEF Passed, Asleep
<1>7. current \in {Boot, Idle} /\ state[current] # "BLOCKED"
  <2>1. CASE Idle \in Linked
    BY <1>4, <1>5, <1>6, <2>1 DEF FramesInv
  <2>2. CASE Idle \notin Linked
    BY <1>4, <1>5, <1>6, <2>2
  <2> QED BY <2>1, <2>2
<1>8. state[current] # "TERMINATED" /\ state[current] # "FREE" /\ state[current] \in States
  BY <1>1, <1>7 DEF KeeperInv, IInv, RingInv, TypeOK
<1> QED BY <1>7, <1>8 DEF States

-----------------------------------------------------------------------------
(* SleepInv, step by step *)

Awaits == {"blocked", "slept"}

(* Who runs anything but the end of a sleep is not blocked. *)
LEMMA RunnerAwake ==
  ASSUME IInv, SleepInv, current # Null, NEW f \in Frames, Running(f),
         f \notin {"blocked", "scan", "window"}
  PROVE  current = cpu /\ state[current] # "BLOCKED"
<1>1. ~Running("window") /\ Head(stack[cpu]) = f
  BY DEF Running
<1>2. current = cpu
  BY <1>1 DEF IInv, CpuInv
<1> QED BY <1>1, <1>2 DEF SleepInv

LEMMA SleepSame ==
  ASSUME SleepInv, UNCHANGED <<ticks, left, wake_at, state>>,
         \A t \in Threads : Waits(stack'[t]) <=> Waits(stack[t]),
         current' # Null /\ state[current'] = "BLOCKED"
           => Head(stack'[current']) \in {"blocked", "scan"}
  PROVE  SleepInv'
  BY DEF SleepInv

(* Pushing, popping and replacing frames that are no part of a sleep. *)
LEMMA WaitsTop ==
  ASSUME IInv, NEW s, stack' = [stack EXCEPT ![cpu] = s],
         Waits(s) <=> Waits(stack[cpu])
  PROVE  \A t \in Threads : Waits(stack'[t]) <=> Waits(stack[t])
<1>1. stack'[cpu] = s /\ \A t \in Threads \ {cpu} : stack'[t] = stack[t]
  BY OnCpu
<1> QED BY <1>1

LEMMA WaitsCall ==
  ASSUME IInv, NEW f \in Frames \ Awaits, Call(f)
  PROVE  \A t \in Threads : Waits(stack'[t]) <=> Waits(stack[t])
<1>1. \A g : On(g, <<f>> \o stack[cpu]) <=> g = f \/ On(g, stack[cpu])
  BY OnCpu, OnPush
<1>2. Waits(<<f>> \o stack[cpu]) <=> Waits(stack[cpu])
  BY <1>1 DEF Waits, Awaits
<1>3. stack' = [stack EXCEPT ![cpu] = <<f>> \o stack[cpu]]
  BY DEF Call
<1> QED BY <1>2, <1>3, WaitsTop

LEMMA WaitsReturn ==
  ASSUME IInv, Return, Head(stack[cpu]) \notin Awaits
  PROVE  \A t \in Threads : Waits(stack'[t]) <=> Waits(stack[t])
<1>1. \A g : On(g, stack[cpu]) <=> g = Head(stack[cpu]) \/ On(g, Below)
  BY OnCpu, OnPop DEF Below
<1>2. Waits(Below) <=> Waits(stack[cpu])
  BY <1>1 DEF Waits, Awaits
<1> QED BY <1>2, WaitsTop DEF Return

LEMMA WaitsGoto ==
  ASSUME IInv, NEW f \in Frames, Goto(f),
         f \in Awaits <=> Head(stack[cpu]) \in Awaits
  PROVE  \A t \in Threads : Waits(stack'[t]) <=> Waits(stack[t])
<1>1. \A g : On(g, stack[cpu]) <=> g = Head(stack[cpu]) \/ On(g, Below)
  BY OnCpu, OnPop DEF Below
<1>2. \A g : On(g, <<f>> \o Below) <=> g = f \/ On(g, Below)
  BY OnCpu, OnPush
<1>3. Waits(<<f>> \o Below) <=> Waits(stack[cpu])
  BY <1>1, <1>2 DEF Waits, Awaits
<1> QED BY <1>3, WaitsTop DEF Goto

LEMMA WaitsEnter ==
  ASSUME IInv, NEW s \in Seq(Frames), NEW saved, EnterYield(s, saved),
         Waits(s) <=> Waits(stack[cpu])
  PROVE  /\ \A t \in Threads : Waits(stack'[t]) <=> Waits(stack[t])
         /\ Head(stack'[cpu]) = "scan"
<1>1. "scan" \in Frames \ Awaits
  BY DEF Frames, Awaits
<1>2. \A g : On(g, <<"scan">> \o s) <=> g = "scan" \/ On(g, s)
  BY <1>1, OnPush
<1>3. Waits(<<"scan">> \o s) <=> Waits(stack[cpu])
  BY <1>2 DEF Waits, Awaits
<1>4. stack' = [stack EXCEPT ![cpu] = <<"scan">> \o s]
  BY DEF EnterYield
<1>5. Head(stack'[cpu]) = "scan"
  BY <1>1, <1>4, ConsFacts, OnCpu
<1> QED BY <1>3, <1>4, <1>5, WaitsTop

LEMMA SleepInitCurrent ==
  ASSUME IInv, SleepInv, InitCurrent
  PROVE  SleepInv'
<1>1. /\ Running("scheduler_initialize") /\ Goto("create_idle")
      /\ UNCHANGED <<ticks, left, wake_at>> /\ current' = Boot
      /\ state' = [state EXCEPT ![Boot] = "RUNNING"]
  BY DEF InitCurrent
<1>2. "create_idle" \in Frames \ Awaits /\ Head(stack[cpu]) \notin Awaits
  BY <1>1 DEF Frames, Awaits, Running
<1>3. \A t \in Threads : Waits(stack'[t]) <=> Waits(stack[t])
  BY <1>1, <1>2, WaitsGoto
<1>4. Boot \in Threads /\ state \in [Threads -> States]
  BY DEF Threads, IInv, TypeOK
<1>5. ~Waits(stack[Boot])
  <2>1. "scheduler_initialize" \in BootFrames
    BY DEF BootFrames
  <2>2. current = Null
    BY <1>1, <2>1, InBoot
  <2> QED BY <2>2, AloneAwake DEF Waits
<1>6. state'[Boot] = "RUNNING" /\ \A t \in Threads : t # Boot => state'[t] = state[t]
  BY <1>1, <1>4
<1> QED BY <1>1, <1>3, <1>4, <1>5, <1>6 DEF SleepInv

(* A stack is mapped for a new thread or unmapped; the running one does    *)
(* what it did.                                                            *)
LEMMA SleepMapped ==
  ASSUME IInv, SleepInv, UNCHANGED <<ticks, left, wake_at, current>>,
         NEW t \in Threads, current # t,
         \A u \in Threads \ {t} : Waits(stack'[u]) <=> Waits(stack[u]),
         \A u \in Threads \ {t} : state'[u] = state[u],
         stack'[t] = <<>> \/ stack'[t] = <<"thread_trampoline">>,
         state'[t] \in {"READY", "FREE"},
         current # Null /\ state[current] = "BLOCKED" => stack'[current] = stack[current]
  PROVE  SleepInv'
<1>1. ~Waits(<<>>) /\ ~Waits(<<"thread_trampoline">>)
  BY DEF Waits, On
<1>2. ~Waits(stack'[t]) /\ state'[t] # "BLOCKED"
  BY <1>1
<1>3. current # Null => state'[current] = state[current]
  BY DEF IInv, TypeOK
<1> QED BY <1>2, <1>3 DEF SleepInv

LEMMA SleepPick ==
  ASSUME IInv, SleepInv, ScanPick
  PROVE  SleepInv'
<1>1. /\ Running("scan") /\ Goto("window") /\ UNCHANGED <<ticks, left, wake_at>>
      /\ current' = candidate /\ ~Asleep(candidate)
      /\ state' = [state EXCEPT ![candidate] = IF @ = "BLOCKED" THEN "READY" ELSE @]
  BY DEF ScanPick
<1>2. "window" \in Frames \ Awaits /\ Head(stack[cpu]) \notin Awaits
  BY <1>1 DEF Frames, Awaits, Running
<1>3. \A t \in Threads : Waits(stack'[t]) <=> Waits(stack[t])
  BY <1>1, <1>2, WaitsGoto
<1>4. candidate \in Threads /\ state \in [Threads -> States]
  BY <1>1, InScan DEF IInv, TypeOK
<1>5. /\ state'[candidate] # "BLOCKED"
      /\ \A t \in Threads : t # candidate => state'[t] = state[t]
  BY <1>1, <1>4
<1>6. left[candidate] > 0 => ~Waits(stack[candidate])
  <2>1. left[candidate] > 0 /\ Waits(stack[candidate]) => state[candidate] = "BLOCKED"
    BY <1>4 DEF SleepInv
  <2>2. left[candidate] > 0 /\ state[candidate] = "BLOCKED" => FALSE
    BY <1>1, <1>4, AsleepWhileLeft DEF IInv
  <2> QED BY <2>1, <2>2
<1> QED BY <1>1, <1>3, <1>4, <1>5, <1>6 DEF SleepInv

LEMMA SleepTick ==
  ASSUME IInv, SleepInv, ~untimely', TimerInterrupt
  PROVE  SleepInv'
<1> DEFINE s == <<"timer_isr">> \o stack[cpu]
<1>1. current # Null /\ ~Running("window") /\ "timer_isr" \in Frames
  BY DEF TimerInterrupt, Untimely, Frames
<1>2. /\ EnterYield(s, FALSE) /\ UNCHANGED <<wake_at, state, current>>
      /\ ticks' = (ticks + 1) % TickMod
      /\ left' = [t \in Threads |-> IF left[t] = 0 THEN 0 ELSE left[t] - 1]
  BY <1>1 DEF TimerInterrupt, ring
<1>3. s \in Seq(Frames) /\ (Waits(s) <=> Waits(stack[cpu]))
  <2>1. stack[cpu] \in Seq(Frames)
    BY OnCpu
  <2>2. \A g : On(g, s) <=> g = "timer_isr" \/ On(g, stack[cpu])
    BY <1>1, <2>1, OnPush
  <2>3. s \in Seq(Frames)
    BY <1>1, <2>1, ConsFacts
  <2> HIDE DEF s
  <2> QED BY <2>2, <2>3 DEF Waits
<1> HIDE DEF s
<1>4. (\A t \in Threads : Waits(stack'[t]) <=> Waits(stack[t])) /\ Head(stack'[cpu]) = "scan"
  BY <1>2, <1>3, WaitsEnter
<1>5. current = cpu
  BY <1>1 DEF IInv, CpuInv
<1>6. ASSUME NEW t \in Threads, left'[t] > 0
      PROVE  left[t] > 0 /\ wake_at'[t] = (ticks' + left'[t]) % TickMod
  <2>1. left[t] \in 0 .. MaxSleep /\ ticks \in 0 .. TickMod - 1 /\ MaxSleep \in Nat
    BY ClockAssumption DEF IInv, TypeOK
  <2>2. left'[t] = left[t] - 1 /\ left[t] > 0 /\ left[t] \in 1 .. MaxSleep
    BY <1>2, <1>6, <2>1
  <2>3. (((ticks + 1) % TickMod) + (left[t] - 1)) % TickMod = (ticks + left[t]) % TickMod
    BY <2>1, <2>2, SameWake
  <2>4. wake_at[t] = (ticks + left[t]) % TickMod
    BY <2>2 DEF SleepInv
  <2> QED BY <1>2, <2>2, <2>3, <2>4
<1> QED BY <1>2, <1>4, <1>5, <1>6 DEF SleepInv

LEMMA SleepCall ==
  ASSUME IInv, FramesInv, SleepInv, Sleep
  PROVE  SleepInv'
<1>1. /\ InCode /\ Call("thread_sleep")
      /\ UNCHANGED <<ticks, state, current, cpu>>
  BY DEF Sleep, ring
<1>2. current # Null /\ current = cpu /\ state[current] # "BLOCKED"
  <2>1. \A f \in {"entry", "keyboard_isr"} :
          f \in Frames \ BootFrames /\ f \notin {"blocked", "scan", "window"}
    BY DEF Frames, BootFrames
  <2>2. current # Null
    BY <1>1, <2>1, AfterBoot DEF InCode
  <2> QED BY <1>1, <2>1, <2>2, RunnerAwake DEF InCode
<1>3. \A t \in Threads : Waits(stack'[t]) <=> Waits(stack[t])
  <2>1. "thread_sleep" \in Frames \ Awaits
    BY DEF Frames, Awaits
  <2> QED BY <1>1, <2>1, WaitsCall
<1>4. ~Waits(stack[cpu])
  BY <1>1, CodeIsAwake DEF Waits, Naps
<1>5. PICK n \in 0 .. MaxSleep :
        /\ wake_at' = [wake_at EXCEPT ![current] = (ticks + n) % TickMod]
        /\ left' = [left EXCEPT ![current] = n]
  BY DEF Sleep
<1>6. /\ wake_at'[cpu] = (ticks + n) % TickMod /\ left'[cpu] = n
      /\ \A t \in Threads : t # cpu => wake_at'[t] = wake_at[t] /\ left'[t] = left[t]
  BY <1>2, <1>5, OnCpu DEF IInv, TypeOK
<1> QED BY <1>1, <1>2, <1>3, <1>4, <1>6 DEF SleepInv

LEMMA SleepBlock ==
  ASSUME IInv, SleepInv, Block
  PROVE  SleepInv'
<1>1. /\ Running("thread_sleep") /\ Goto("blocked")
      /\ UNCHANGED <<ticks, left, wake_at, current, cpu>>
      /\ state' = [state EXCEPT ![cpu] = "BLOCKED"]
  BY DEF Block, ring
<1>2. current # Null /\ current = cpu
  <2>1. "thread_sleep" \in Frames \ BootFrames /\ "thread_sleep" \notin {"blocked", "scan", "window"}
    BY DEF Frames, BootFrames
  <2> QED BY <1>1, <2>1, AfterBoot, RunnerAwake
<1>3. /\ cpu \in Threads /\ stack \in [Threads -> Seq(Frames)] /\ Below \in Seq(Frames)
      /\ state \in [Threads -> States] /\ "blocked" \in Frames
  BY OnCpu DEF IInv, TypeOK, Frames
<1>4. stack'[cpu] = <<"blocked">> \o Below /\ \A t \in Threads \ {cpu} : stack'[t] = stack[t]
  BY <1>1, <1>3 DEF Goto
<1>5. Head(<<"blocked">> \o Below) = "blocked" /\ Waits(<<"blocked">> \o Below)
  BY <1>3, ConsFacts, OnPush DEF Waits
<1>6. state'[cpu] = "BLOCKED" /\ \A t \in Threads \ {cpu} : state'[t] = state[t]
  BY <1>1, <1>3
<1> QED BY <1>1, <1>2, <1>3, <1>4, <1>5, <1>6 DEF SleepInv

LEMMA SleepYields ==
  ASSUME IInv, SleepInv, SleepYield
  PROVE  SleepInv'
<1> DEFINE s == <<"slept">> \o Below
<1>1. /\ Head(stack[cpu]) = "blocked" /\ EnterYield(s, eif)
      /\ UNCHANGED <<ticks, left, wake_at, state, current>> /\ "slept" \in Frames
  BY DEF SleepYield, Running, ring, Frames
<1>2. s \in Seq(Frames) /\ (Waits(s) <=> Waits(stack[cpu]))
  <2>1. \A g : On(g, stack[cpu]) <=> g = "blocked" \/ On(g, Below)
    BY <1>1, OnCpu, OnPop DEF Below
  <2>2. Below \in Seq(Frames)
    BY OnCpu
  <2>3. \A g : On(g, s) <=> g = "slept" \/ On(g, Below)
    BY <1>1, <2>2, OnPush
  <2>4. s \in Seq(Frames)
    BY <1>1, <2>2, ConsFacts
  <2> HIDE DEF s
  <2> QED BY <2>1, <2>3, <2>4 DEF Waits
<1> HIDE DEF s
<1>3. (\A t \in Threads : Waits(stack'[t]) <=> Waits(stack[t])) /\ Head(stack'[cpu]) = "scan"
  BY <1>1, <1>2, WaitsEnter
<1>4. current # Null => current = cpu
  BY <1>1 DEF IInv, CpuInv, Running
<1> QED BY <1>1, <1>3, <1>4, SleepSame

LEMMA SleepReturns ==
  ASSUME IInv, SleepInv, SleepReturn
  PROVE  SleepInv'
<1>1. /\ Running("slept") /\ Return
      /\ UNCHANGED <<ticks, left, wake_at, state, current>>
  BY DEF SleepReturn, ring
<1>2. current = cpu /\ state[current] # "BLOCKED"
  <2>1. "slept" \in Frames \ BootFrames /\ "slept" \notin {"blocked", "scan", "window"}
    BY DEF Frames, BootFrames
  <2> QED BY <1>1, <2>1, AfterBoot, RunnerAwake
<1>3. stack'[cpu] = Below /\ \A t \in Threads \ {cpu} : stack'[t] = stack[t]
  BY <1>1, OnCpu DEF Return
<1>4. Waits(Below) => Waits(stack[cpu])
  BY OnCpu, OnPop DEF Below, Waits
<1> QED BY <1>1, <1>2, <1>3, <1>4, OnCpu DEF SleepInv

LEMMA SleepEnds ==
  ASSUME IInv, FramesInv, SleepInv, EntryReturn
  PROVE  SleepInv'
<1>1. /\ Running("entry") /\ Goto("exit") /\ Head(stack[cpu]) = "entry"
      /\ UNCHANGED <<ticks, left, wake_at, current>>
      /\ state' = [state EXCEPT ![current] = "TERMINATED"]
  BY DEF EntryReturn, ring, Running
<1>2. current # Null /\ current = cpu /\ current \in Threads
  <2>1. "entry" \in Frames \ BootFrames /\ "entry" \notin {"blocked", "scan", "window"}
    BY DEF Frames, BootFrames
  <2> QED BY <1>1, <2>1, AfterBoot, RunnerAwake, OnCpu
<1>3. \A t \in Threads : Waits(stack'[t]) <=> Waits(stack[t])
  <2>1. "exit" \in Frames /\ "exit" \notin Awaits /\ "entry" \notin Awaits
    BY DEF Frames, Awaits
  <2> QED BY <1>1, <2>1, WaitsGoto
<1>4. ~Waits(stack[cpu])
  BY <1>1, CodeIsAwake DEF InCode, Waits, Naps
<1>5. state'[cpu] = "TERMINATED" /\ \A t \in Threads : t # cpu => state'[t] = state[t]
  BY <1>1, <1>2 DEF IInv, TypeOK
<1> QED BY <1>1, <1>2, <1>3, <1>4, <1>5 DEF SleepInv

LEMMA SleepCreateIdle ==
  ASSUME IInv, SleepInv, CreateIdle
  PROVE  SleepInv'
<1>1. /\ Running("create_idle") /\ Head(stack[cpu]) = "create_idle"
      /\ UNCHANGED <<ticks, left, wake_at, current, cpu>>
      /\ stack' = [stack EXCEPT ![Idle] = <<"thread_trampoline">>,
                                ![cpu] = <<"add_idle">> \o Below]
      /\ state' = [state EXCEPT ![Idle] = "READY"] /\ state[Idle] = "FREE"
  BY DEF CreateIdle, ThreadCreate, Running
<1>2. /\ cpu \in Threads /\ Idle \in Threads /\ stack \in [Threads -> Seq(Frames)]
      /\ Below \in Seq(Frames) /\ state \in [Threads -> States]
      /\ "add_idle" \in Frames /\ cpu # Idle
  BY <1>1, OnCpu DEF Threads, IInv, TypeOK, StacksInv, Frames
<1>3. /\ stack'[Idle] = <<"thread_trampoline">> /\ stack'[cpu] = <<"add_idle">> \o Below
      /\ \A t \in Threads \ {cpu, Idle} : stack'[t] = stack[t]
      /\ state'[Idle] = "READY" /\ \A t \in Threads \ {Idle} : state'[t] = state[t]
  BY <1>1, <1>2
<1>4. Waits(<<"add_idle">> \o Below) <=> Waits(stack[cpu])
  <2>1. \A g : On(g, stack[cpu]) <=> g = "create_idle" \/ On(g, Below)
    BY <1>1, OnCpu, OnPop DEF Below
  <2>2. \A g : On(g, <<"add_idle">> \o Below) <=> g = "add_idle" \/ On(g, Below)
    BY <1>2, OnPush
  <2> QED BY <2>1, <2>2 DEF Waits
<1>5. current # Null => state[current] # "BLOCKED"
  <2>1. "create_idle" \in Frames /\ "create_idle" \notin {"blocked", "scan", "window"}
    BY DEF Frames
  <2> QED BY <1>1, <2>1, RunnerAwake
<1>6. current # Idle
  <2>1. current # Null => current = cpu
    BY <1>1 DEF IInv, CpuInv, Running
  <2> QED BY <1>2, <2>1, ThreadsAssumption
<1>7. \A t \in Threads \ {Idle} : Waits(stack'[t]) <=> Waits(stack[t])
  BY <1>3, <1>4
<1> QED BY <1>1, <1>2, <1>3, <1>5, <1>6, <1>7, SleepMapped

(* Whoever runs code outside of its sleep changes nobody's. *)
LEMMA SleepElsewhere ==
  ASSUME IInv, SleepInv, NEW f \in Frames, Running(f), f \notin {"blocked", "scan", "window"},
         \A t \in Threads : Waits(stack'[t]) <=> Waits(stack[t]),
         UNCHANGED <<ticks, left, wake_at, state, current>>
  PROVE  SleepInv'
<1>1. current # Null => state[current] # "BLOCKED"
  BY RunnerAwake
<1> QED BY <1>1, SleepSame

LEMMA SleepersKeep ==
  ASSUME IInv, FramesInv, KeeperInv, SleepInv, ScanInv, ~untimely', [Next]_vars
  PROVE  SleepInv'
<1>0. /\ cpu \in Threads /\ stack \in [Threads -> Seq(Frames)] /\ stack[cpu] \in Seq(Frames)
      /\ state \in [Threads -> States]
  BY OnCpu DEF IInv, TypeOK
<1>1. CASE InitCurrent
  BY <1>1, SleepInitCurrent
<1>2. CASE CreateIdle
  BY <1>2, SleepCreateIdle
<1>3. CASE ScanPick
  BY <1>3, SleepPick
<1>4. CASE TimerInterrupt
  BY <1>4, SleepTick
<1>5. CASE Sleep
  BY <1>5, SleepCall
<1>6. CASE Block
  BY <1>6, SleepBlock
<1>7. CASE SleepYield
  BY <1>7, SleepYields
<1>8. CASE SleepReturn
  BY <1>8, SleepReturns
<1>9. CASE EntryReturn
  BY <1>9, SleepEnds
<1>10. CASE ScanReap
  <2>1. /\ candidate \in Threads /\ current # candidate
        /\ stack' = [stack EXCEPT ![candidate] = <<>>]
        /\ state' = [state EXCEPT ![candidate] = "FREE"]
        /\ UNCHANGED <<ticks, left, wake_at, current>>
    BY <1>10, InScan DEF ScanReap, ThreadDestroy
  <2>2. /\ \A u \in Threads \ {candidate} : stack'[u] = stack[u] /\ state'[u] = state[u]
        /\ stack'[candidate] = <<>> /\ state'[candidate] = "FREE"
    BY <1>0, <2>1
  <2>3. current # Null => current \in Threads
    BY DEF IInv, TypeOK
  <2> QED BY <2>1, <2>2, <2>3, SleepMapped
<1>11. CASE TestCreate
  <2>1. PICK w \in Workers : ThreadCreate(w, stack[cpu])
    BY <1>11 DEF TestCreate
  <2>2. /\ w \in Threads /\ w # cpu /\ current = cpu
        /\ UNCHANGED <<ticks, left, wake_at, current>>
    BY <1>0, <1>11, <2>1, InCommand DEF Threads, ThreadCreate, TestCreate, IInv, StacksInv, CpuInv
  <2>3. /\ \A u \in Threads \ {w} : stack'[u] = stack[u] /\ state'[u] = state[u]
        /\ stack'[w] = <<"thread_trampoline">> /\ state'[w] = "READY"
    BY <1>0, <2>1, <2>2 DEF ThreadCreate
  <2> QED BY <1>0, <2>2, <2>3, SleepMapped
<1>12. CASE TestDestroy
  <2>1. /\ made \in Threads /\ made \notin Linked /\ current \in Linked
        /\ stack' = [stack EXCEPT ![made] = <<>>]
        /\ state' = [state EXCEPT ![made] = "FREE"]
        /\ UNCHANGED <<ticks, left, wake_at, current>>
    BY <1>12, InCommand DEF TestDestroy, ThreadDestroy, ring, IInv, TypeOK, RingInv
  <2>2. /\ \A u \in Threads \ {made} : stack'[u] = stack[u] /\ state'[u] = state[u]
        /\ stack'[made] = <<>> /\ state'[made] = "FREE"
    BY <1>0, <2>1
  <2>3. current # made /\ current \in Threads
    BY <2>1 DEF Linked
  <2> QED BY <2>1, <2>2, <2>3, SleepMapped
<1>13. CASE CallYield \/ ExitYield
  <2>1. /\ EnterYield(stack[cpu], eif) /\ UNCHANGED <<ticks, left, wake_at, state, current>>
        /\ ~Running("window")
    BY <1>13 DEF CallYield, ExitYield, ring, InCode, Running
  <2>2. current # Null => current = cpu
    BY <2>1 DEF IInv, CpuInv
  <2> QED BY <1>0, <2>1, <2>2, WaitsEnter, SleepSame
<1>14. CASE ScanNone
  <2>1. /\ Return /\ Head(stack[cpu]) \notin Awaits
        /\ UNCHANGED <<ticks, left, wake_at, state, current>>
    BY <1>14 DEF ScanNone, ring, Running, Awaits
  <2>2. state[current] # "BLOCKED"
    BY <1>14, FoundSomebody
  <2> QED BY <2>1, <2>2, WaitsReturn, SleepSame
<1>15. CASE KeyboardInterrupt
  <2>1. /\ Call("keyboard_isr") /\ "keyboard_isr" \in Frames \ Awaits
        /\ UNCHANGED <<ticks, left, wake_at, state, current>> /\ ~Running("window")
    BY <1>15 DEF KeyboardInterrupt, Untimely, ring, Frames, Awaits
  <2>2. current # Null => current = cpu /\ state[current] # "BLOCKED"
    <3>1. ~Waits(stack[cpu])
      BY <1>15, KeyFindsAwake DEF Waits, Naps
    <3> QED BY <1>0, <2>1, <3>1 DEF IInv, CpuInv, SleepInv
  <2> QED BY <2>1, <2>2, WaitsCall, SleepSame
<1>16. CASE ContextSwitch
  <2>1. /\ Goto("context_switch") /\ Running("window") /\ Head(stack[cpu]) \notin Awaits
        /\ "context_switch" \in Frames \ Awaits
        /\ UNCHANGED <<ticks, left, wake_at, state, current>>
    BY <1>16 DEF ContextSwitch, ring, Running, Awaits, Frames
  <2>2. current # Null => current # cpu /\ current \in Threads
    BY <2>1 DEF IInv, CpuInv, TypeOK
  <2>3. current # Null => stack'[current] = stack[current]
    BY <1>0, <2>1, <2>2 DEF Goto
  <2>4. current # Null /\ state[current] = "BLOCKED" => Head(stack'[current]) \in {"blocked", "scan"}
    BY <2>3 DEF SleepInv
  <2> QED BY <2>1, <2>4, WaitsGoto, SleepSame
<1>17. CASE AddIdle \/ StartTimer
  <2>1. \/ Running("add_idle") /\ Goto("pit_initialize")
        \/ Running("pit_initialize") /\ Goto("kmain")
    BY <1>17 DEF AddIdle, StartTimer
  <2>2. /\ UNCHANGED <<ticks, left, wake_at, state, current>>
        /\ {"add_idle", "pit_initialize", "kmain"} \subseteq Frames \ Awaits
        /\ Head(stack[cpu]) \in {"add_idle", "pit_initialize"}
    BY <1>17, <2>1 DEF AddIdle, StartTimer, ring, Frames, Awaits, Running
  <2>3. \A t \in Threads : Waits(stack'[t]) <=> Waits(stack[t])
    BY <2>1, <2>2, WaitsGoto
  <2> QED BY <2>1, <2>2, <2>3, SleepElsewhere
<1>18. CASE StartThread
  <2>1. PICK g \in {"idle_loop", "entry"} : Goto(g)
    BY <1>18 DEF StartThread
  <2>2. /\ g \in Frames \ Awaits /\ "thread_trampoline" \in Frames \ Awaits
        /\ Running("thread_trampoline") /\ Head(stack[cpu]) = "thread_trampoline"
        /\ UNCHANGED <<ticks, left, wake_at, state, current>>
    BY <1>18, <2>1 DEF Frames, Awaits, Running, StartThread, ring
  <2>3. \A t \in Threads : Waits(stack'[t]) <=> Waits(stack[t])
    BY <2>1, <2>2, WaitsGoto
  <2> QED BY <2>2, <2>3, SleepElsewhere
<1>19. CASE ReturnFromSwitch \/ Iret \/ KeyboardReturn
  <2>1. PICK f \in {"context_switch", "timer_isr", "keyboard_isr"} : Running(f)
    BY <1>19 DEF ReturnFromSwitch, Iret, KeyboardReturn
  <2>2. /\ f \in Frames \ Awaits /\ Head(stack[cpu]) = f /\ Return
        /\ f \notin {"blocked", "scan", "window"}
        /\ UNCHANGED <<ticks, left, wake_at, state, current>>
    BY <1>19, <2>1 DEF ReturnFromSwitch, Iret, KeyboardReturn, Frames, Awaits, Running, ring
  <2>3. \A t \in Threads : Waits(stack'[t]) <=> Waits(stack[t])
    BY <2>2, WaitsReturn
  <2> QED BY <2>1, <2>2, <2>3, SleepElsewhere
<1>20. CASE ScanSkip \/ TestSti \/ TestAdd \/ UNCHANGED vars
  <2>1. UNCHANGED <<ticks, left, wake_at, state, current, stack>>
    BY <1>20 DEF ScanSkip, TestSti, TestAdd, vars, ring
  <2> QED BY <2>1 DEF SleepInv
<1>21. \/ InitCurrent \/ CreateIdle \/ ScanPick \/ TimerInterrupt \/ Sleep \/ Block
       \/ SleepYield \/ SleepReturn \/ EntryReturn \/ ScanReap \/ TestCreate \/ TestDestroy
       \/ CallYield \/ ExitYield \/ ScanNone \/ KeyboardInterrupt \/ ContextSwitch
       \/ AddIdle \/ StartTimer \/ StartThread \/ ReturnFromSwitch \/ Iret
       \/ KeyboardReturn \/ ScanSkip \/ TestSti \/ TestAdd \/ UNCHANGED vars
  BY DEF Next, CodeStep, BootStep, Scan, Command
<1> QED
  BY <1>1, <1>2, <1>3, <1>4, <1>5, <1>6, <1>7, <1>8, <1>9, <1>10, <1>11, <1>12, <1>13,
     <1>14, <1>15, <1>16, <1>17, <1>18, <1>19, <1>20, <1>21

-----------------------------------------------------------------------------
(* The invariant, and what it shows *)

SInv == FramesInv /\ KeeperInv /\ SleepInv /\ ScanInv

LEMMA InitSInv ==
  ASSUME Init
  PROVE  SInv
<1> DEFINE f == "scheduler_initialize"
<1>1. /\ Boot \in Threads /\ Idle \in Threads /\ Boot # Idle
      /\ stack[Boot] = <<f>> /\ \A t \in Threads \ {Boot} : stack[t] = <<>>
      /\ state[Boot] = "RUNNING" /\ \A t \in Threads \ {Boot} : state[t] = "FREE"
      /\ \A t \in Threads : left[t] = 0
      /\ current = Null /\ ~lock /\ cpu = Boot
  BY ThreadsAssumption DEF Init, Threads
<1>2. /\ \A g : On(g, <<f>>) => g = f
      /\ \A g : ~On(g, <<>>)
      /\ GoodNaps(<<>>) /\ GoodNaps(<<f>>) /\ Head(<<f>>) = f
  BY DEF On, GoodNaps, Naps
<1>3. \A t \in Threads : GoodNaps(stack[t]) /\ \A g : On(g, stack[t]) => g = f
  BY <1>1, <1>2
<1>4. FramesInv
  BY <1>1, <1>3 DEF FramesInv
<1>5. KeeperInv
  <2>1. f \in Bases /\ f \in BootFrames
    BY DEF Bases, Halts, BootFrames
  <2>2. Stage(stack[Boot]) = f
    BY <1>1, <2>1, SingletonGood
  <2> QED BY <1>1, <2>2 DEF KeeperInv, Early
<1>6. SleepInv
  BY <1>1 DEF SleepInv
<1>7. ScanInv
  BY <1>1 DEF ScanInv
<1> QED BY <1>4, <1>5, <1>6, <1>7 DEF SInv

(* Until an interrupt comes untimely, every stack has its sleeps where     *)
(* they belong, the boot and idle threads stay in the list, who is asleep  *)
(* waits for its ticks, and a scan passed over sleepers only.              *)
THEOREM SleepInductive ==
  Spec => [](~untimely => IInv /\ SInv)
<1>1. Init => (~untimely => IInv /\ SInv)
  BY InitIInv, InitSInv
<1>2. ASSUME IInv, SInv, ~untimely', [Next]_vars PROVE (IInv /\ SInv)'
  BY <1>2, NextIInv, FramesKeeps, KeeperKeeps, SleepersKeep, ScanKeeps DEF SInv
<1>3. (~untimely => IInv /\ SInv) /\ [Next]_vars => (~untimely' => (IInv /\ SInv)')
  BY <1>2, UntimelyStays
<1> QED
  BY <1>1, <1>3, PTL DEF Spec

(* Until an interrupt comes untimely, thread_sleep does not return before  *)
(* its ticks have passed: whichever path of scheduler_yield and of the     *)
(* interrupt handlers leads back to it, the thread was found by a scan,    *)
(* and the scan passes over a thread whose ticks have not passed.          *)
THEOREM SleepIsHonoured ==
  Spec => []SleepHonoured
<1>1. ASSUME ~untimely => IInv /\ SInv PROVE SleepHonoured
  <2> SUFFICES ASSUME IInv, SInv, Running("slept") PROVE left[cpu] = 0
    BY <1>1 DEF SleepHonoured
  <2>1. current = cpu /\ state[current] # "BLOCKED"
    <3>1. "slept" \in Frames \ BootFrames /\ "slept" \notin {"blocked", "scan", "window"}
      BY DEF Frames, BootFrames
    <3> QED BY <3>1, AfterBoot, RunnerAwake DEF SInv
  <2>2. Waits(stack[cpu])
    <3>1. Head(stack[cpu]) = "slept" /\ stack[cpu] \in Seq(Frames) /\ stack[cpu] # <<>>
      BY OnCpu DEF Running
    <3> QED BY <3>1, OnPop DEF Waits
  <2>3. cpu \in Threads /\ left[cpu] \in 0 .. MaxSleep /\ MaxSleep \in Nat
    BY OnCpu, ClockAssumption DEF IInv, TypeOK
  <2>4. ~(left[cpu] > 0)
    BY <2>1, <2>2, <2>3 DEF SInv, SleepInv
  <2> QED BY <2>3, <2>4
<1> QED
  BY <1>1, SleepInductive, PTL

(* Until an interrupt comes untimely, a thread that cannot go on -         *)
(* blocked, or at its end - is not returned to by its own scan for want of *)
(* another: kmain's thread or the idle thread can always run.              *)
THEOREM YieldNeverGivesUp ==
  Spec => NeverGivesUp
<1> DEFINE Finds == ~untimely /\ lock /\ ~lock' /\ current' = current
                      => state[current] \in {"RUNNING", "READY"}
<1>1. ASSUME ~untimely => IInv /\ SInv, [Next]_vars
      PROVE  Finds
  <2> SUFFICES ASSUME IInv, SInv, lock, ~lock', current' = current
               PROVE  state[current] \in {"RUNNING", "READY"}
    BY <1>1
  <2>1. Scan
    BY <1>1, OnlyScan DEF vars
  <2>2. CASE ScanNone
    BY <1>1, <2>2, FoundSomebody DEF SInv
  <2>3. CASE ~ScanNone
    BY <2>1, <2>3 DEF Scan, ScanReap, ScanSkip, ScanPick
  <2> QED BY <2>2, <2>3
<1>2. (~untimely => IInv /\ SInv) /\ [Next]_vars => Finds
  BY <1>1
<1> QED
  BY <1>2, SleepInductive, PTL DEF Spec, NeverGivesUp

-----------------------------------------------------------------------------
(* How late a sleeper can be: the comparison with a wake_at in the past is *)
(* exact for half a wrap, so somebody has to find the sleeper before.      *)

Many == Cardinality(Threads)
Longest == MaxLate + Many
FewThreads == IsFiniteSet(Workers) /\ MaxLate + 2 * Many <= (TickMod + 1) \div 2

Late(t) == (ticks - wake_at[t]) % TickMod
Sleepy(s) == On("thread_sleep", s) \/ On("blocked", s)
Preempted(t) == left[t] = 0 /\ Sleepy(stack[t])
Due(t) == left[t] = 0 /\ state[t] = "BLOCKED"

(* P holds whoever may still come before t in the list, or be added before *)
(* it, and t: each tick gives the CPU to one of them.                      *)
Ahead(t, P) ==
  /\ t \in P /\ Threads \ Linked \subseteq P
  /\ \A s \in (P \cap Linked) \ {t} : next[s] \in P
  /\ IF lock THEN candidate \in P /\ (prev \in P => prev = t)
             ELSE next[current] \in P /\ current \notin P

Turns(P) == IF lock THEN Cardinality(P) - 1 ELSE Cardinality(P)

Bounded(t, P) ==
  /\ Preempted(t) => Late(t) + Turns(P) <= Longest
  /\ Due(t) => Late(t) + Turns(P) <= Longest + Many - 1

LateInv ==
  /\ \A t \in Linked : lock \/ t # current =>
       \E P \in SUBSET Threads : Ahead(t, P) /\ Bounded(t, P)
  /\ ~lock /\ current # Null /\ Preempted(current) => Late(current) <= Longest

(* A thread that is created but not added has not run. *)
MadeInv == made # Null => state[made] = "READY" /\ stack[made] = <<"thread_trampoline">>

LEMMA FewFacts ==
  ASSUME FewThreads
  PROVE  /\ Many \in Nat /\ Many >= 1
         /\ Longest \in Nat /\ Longest >= Many /\ Longest + Many <= (TickMod + 1) \div 2
         /\ \A P \in SUBSET Threads :
              /\ Cardinality(P) \in Nat /\ Cardinality(P) <= Many
              /\ \A c \in P : /\ Cardinality(P) >= 1
                              /\ Cardinality(P \ {c}) = Cardinality(P) - 1
<1>1. IsFiniteSet(Threads)
  <2>1. IsFiniteSet({}) /\ IsFiniteSet(Workers)
    BY FS_EmptySet DEF FewThreads
  <2>2. IsFiniteSet(Workers \cup {Boot})
    BY <2>1, FS_AddElement
  <2>3. IsFiniteSet((Workers \cup {Boot}) \cup {Idle})
    BY <2>2, FS_AddElement
  <2>4. (Workers \cup {Boot}) \cup {Idle} = Threads
    BY DEF Threads
  <2> QED BY <2>3, <2>4
<1>2. ASSUME NEW P \in SUBSET Threads
      PROVE  Cardinality(P) \in Nat /\ Cardinality(P) <= Many
  <2>1. IsFiniteSet(P) /\ Cardinality(P) <= Cardinality(Threads)
    BY <1>1, FS_Subset
  <2> QED BY <2>1, FS_CardinalityType DEF Many
<1>3. ASSUME NEW P \in SUBSET Threads, NEW c \in P
      PROVE  Cardinality(P) >= 1 /\ Cardinality(P \ {c}) = Cardinality(P) - 1
  <2>1. IsFiniteSet(P)
    BY <1>1, FS_Subset
  <2>2. Cardinality(P \ {c}) = Cardinality(P) - 1
    BY <2>1, FS_RemoveElement
  <2>3. Cardinality(P) \in Nat /\ Cardinality(P \ {c}) \in Nat
    <3>1. P \ {c} \in SUBSET Threads
      OBVIOUS
    <3> QED BY <1>2, <3>1
  <2> QED BY <2>2, <2>3
<1>4. Many \in Nat /\ Many >= 1
  <2>1. Threads \in SUBSET Threads /\ Boot \in Threads
    BY DEF Threads
  <2> QED BY <1>2, <1>3, <2>1 DEF Many
<1>5. Longest \in Nat /\ Longest >= Many /\ Longest + Many <= (TickMod + 1) \div 2
  BY <1>4, ClockAssumption DEF FewThreads, Longest
<1> QED BY <1>2, <1>3, <1>4, <1>5

LEMMA LateRange ==
  ASSUME TypeOK, NEW t \in Threads
  PROVE  /\ Late(t) \in 0 .. TickMod - 1
         /\ ticks = wake_at[t] => Late(t) = 0
<1> DEFINE a == ticks
           w == wake_at[t]
<1>1. a \in 0 .. TickMod - 1 /\ w \in 0 .. TickMod - 1 /\ TickMod \in Nat
  BY ClockAssumption DEF TypeOK
<1> HIDE DEF a, w
<1>2. (a - w) % TickMod = IF w <= a THEN a - w ELSE a - w + TickMod
  BY <1>1, ModMinus
<1>3. (a - w) % TickMod \in 0 .. TickMod - 1 /\ (a = w => (a - w) % TickMod = 0)
  BY <1>1, <1>2
<1> QED BY <1>3 DEF Late, a, w

(* A tick makes who is late one tick later. *)
LEMMA LaterByOne ==
  ASSUME NEW a \in 0 .. TickMod - 1, NEW w \in 0 .. TickMod - 1,
         (a - w) % TickMod < TickMod - 1
  PROVE  (((a + 1) % TickMod) - w) % TickMod = ((a - w) % TickMod) + 1
<1>1. TickMod \in Nat /\ TickMod >= 2 /\ 1 \in 0 .. TickMod - 1
  BY ClockAssumption
<1> DEFINE b == (a + 1) % TickMod
           d == (a - w) % TickMod
<1>2. b = IF a + 1 < TickMod THEN a + 1 ELSE a + 1 - TickMod
  BY <1>1, ModPlus
<1>3. d = IF w <= a THEN a - w ELSE a - w + TickMod
  BY ModMinus
<1> HIDE DEF b, d
<1>4. b \in 0 .. TickMod - 1
  BY <1>1, <1>2
<1>5. (b - w) % TickMod = IF w <= b THEN b - w ELSE b - w + TickMod
  BY <1>4, ModMinus
<1>6. d < TickMod - 1
  BY DEF d
<1>7. (b - w) % TickMod = d + 1
  BY <1>1, <1>2, <1>3, <1>5, <1>6
<1> QED BY <1>7 DEF b, d

LEMMA OnAfter ==
  ASSUME IInv, NEW f \in Frames, Goto(f) \/ Call(f) \/ Return
  PROVE  /\ \A t \in Threads : \A g : On(g, stack'[t]) => On(g, stack[t]) \/ g = f
         /\ \A t \in Threads \ {cpu} : stack'[t] = stack[t]
<1>1. \A g : On(g, stack[cpu]) <=> g = Head(stack[cpu]) \/ On(g, Below)
  BY OnCpu, OnPop DEF Below
<1>2. \A g : On(g, <<f>> \o Below) <=> g = f \/ On(g, Below)
  BY OnCpu, OnPush
<1>3. \A g : On(g, <<f>> \o stack[cpu]) <=> g = f \/ On(g, stack[cpu])
  BY OnCpu, OnPush
<1>4. \A t \in Threads \ {cpu} : stack'[t] = stack[t]
  BY OnCpu DEF Goto, Call, Return
<1>5. stack'[cpu] \in {<<f>> \o Below, <<f>> \o stack[cpu], Below}
  BY OnCpu DEF Goto, Call, Return
<1>6. \A g : On(g, stack'[cpu]) => On(g, stack[cpu]) \/ g = f
  BY <1>1, <1>2, <1>3, <1>5
<1> QED BY <1>4, <1>6

LEMMA OnEntered ==
  ASSUME IInv, NEW s \in Seq(Frames), NEW saved, EnterYield(s, saved)
  PROVE  /\ \A g : On(g, stack'[cpu]) => On(g, s) \/ g = "scan"
         /\ \A t \in Threads \ {cpu} : stack'[t] = stack[t]
<1>1. "scan" \in Frames
  BY DEF Frames
<1>2. \A g : On(g, <<"scan">> \o s) <=> g = "scan" \/ On(g, s)
  BY <1>1, OnPush
<1>3. stack' = [stack EXCEPT ![cpu] = <<"scan">> \o s]
  BY DEF EnterYield
<1>4. stack'[cpu] = <<"scan">> \o s /\ \A t \in Threads \ {cpu} : stack'[t] = stack[t]
  BY <1>3, OnCpu
<1> QED BY <1>2, <1>4

(* Whoever was created and not added is neither running nor in the list. *)
LEMMA MadeApart ==
  ASSUME IInv, made # Null
  PROVE  made \in Threads /\ made \notin Linked /\ made # cpu /\ made # current
         /\ current # Null
<1>1. made \in Threads /\ made \notin Linked
  BY DEF IInv, TypeOK, RingInv
<1>2. current # Null
  BY DEF IInv, BootInv
<1>3. current \in Linked /\ cpu \in Linked
  BY <1>2 DEF IInv, RingInv
<1> QED BY <1>1, <1>2, <1>3

LEMMA MadeKeeps ==
  ASSUME IInv, MadeInv, ~untimely', [Next]_vars
  PROVE  MadeInv'
<1>0. state \in [Threads -> States] /\ stack \in [Threads -> Seq(Frames)]
  BY DEF IInv, TypeOK
<1>1. CASE made' = Null
  BY <1>1 DEF MadeInv
<1>2. ASSUME made' = made, made # Null => state'[made] = state[made] /\ stack'[made] = stack[made]
      PROVE  MadeInv'
  BY <1>2 DEF MadeInv
<1>3. ASSUME NEW t \in Threads, t # cpu, NEW s, ThreadCreate(t, s) PROVE MadeInv'
  <2>1. made' = t /\ state'[t] = "READY" /\ stack'[t] = <<"thread_trampoline">>
    BY <1>0, <1>3 DEF ThreadCreate
  <2> QED BY <2>1 DEF MadeInv
<1>4. CASE CreateIdle
  <2>1. ThreadCreate(Idle, <<"add_idle">> \o Below) /\ Idle \in Threads
    BY <1>4 DEF CreateIdle, Threads
  <2>2. Idle # cpu
    BY <2>1, OnCpu DEF ThreadCreate, IInv, StacksInv
  <2> QED BY <1>3, <2>1, <2>2
<1>5. CASE TestCreate
  <2>1. PICK w \in Workers : ThreadCreate(w, stack[cpu])
    BY <1>5 DEF TestCreate
  <2>2. w \in Threads /\ w # cpu
    BY <2>1, OnCpu DEF ThreadCreate, IInv, StacksInv, Threads
  <2> QED BY <1>3, <2>1, <2>2
<1>6. CASE ScanReap
  <2>1. candidate \in Linked /\ candidate \in Threads
    BY <1>6, InScan DEF ScanReap
  <2>2. /\ made' = made /\ state' = [state EXCEPT ![candidate] = "FREE"]
        /\ stack' = [stack EXCEPT ![candidate] = <<>>]
    BY <1>6 DEF ScanReap, ThreadDestroy
  <2> QED BY <1>0, <1>2, <2>1, <2>2, MadeApart
<1>7. CASE ScanPick
  <2>1. candidate \in Linked
    BY <1>7, InScan DEF ScanPick
  <2>2. /\ made' = made /\ stack' = [stack EXCEPT ![cpu] = <<"window">> \o Below]
        /\ state' = [state EXCEPT ![candidate] = IF @ = "BLOCKED" THEN "READY" ELSE @]
    BY <1>7 DEF ScanPick, Goto
  <2> QED BY <1>0, <1>2, <2>1, <2>2, MadeApart
<1>8. CASE InitCurrent
  <2>1. Running("scheduler_initialize") /\ "scheduler_initialize" \in BootFrames
    BY <1>8 DEF InitCurrent, BootFrames
  <2>2. made = Null
    BY <2>1, InBoot
  <2> QED BY <1>8, <2>2 DEF InitCurrent, MadeInv
<1>9. CASE EntryReturn \/ Block
  <2>1. /\ made' = made
        /\ \/ state' = [state EXCEPT ![current] = "TERMINATED"]
           \/ state' = [state EXCEPT ![cpu] = "BLOCKED"]
        /\ stack' = [stack EXCEPT ![cpu] = <<"exit">> \o Below]
           \/ stack' = [stack EXCEPT ![cpu] = <<"blocked">> \o Below]
    BY <1>9 DEF EntryReturn, Block, Goto
  <2> QED BY <1>0, <1>2, <2>1, MadeApart
<1>10. ASSUME made' = made, state' = state, \E s : stack' = [stack EXCEPT ![cpu] = s]
       PROVE  MadeInv'
  BY <1>0, <1>2, <1>10, MadeApart
<1>11. CASE TimerInterrupt
  <2>1. current # Null
    BY <1>11 DEF TimerInterrupt, Untimely
  <2> QED BY <1>10, <1>11, <2>1 DEF TimerInterrupt, EnterYield
<1>12. CASE CallYield \/ ExitYield \/ SleepYield
  BY <1>10, <1>12 DEF CallYield, ExitYield, SleepYield, EnterYield
<1>13. CASE StartTimer \/ ScanNone \/ ContextSwitch \/ ReturnFromSwitch \/ StartThread
            \/ Iret \/ SleepReturn \/ Sleep \/ KeyboardReturn \/ KeyboardInterrupt
  BY <1>10, <1>13 DEF StartTimer, ScanNone, ContextSwitch, ReturnFromSwitch, StartThread,
     Iret, SleepReturn, Sleep, KeyboardReturn, KeyboardInterrupt, Goto, Call, Return, ring
<1>14. CASE ScanSkip \/ TestSti \/ UNCHANGED vars
  BY <1>2, <1>14 DEF ScanSkip, TestSti, vars
<1>15. CASE AddIdle \/ TestAdd \/ TestDestroy
  BY <1>1, <1>15 DEF AddIdle, TestAdd, TestDestroy
<1> QED
  BY <1>4, <1>5, <1>6, <1>7, <1>8, <1>9, <1>11, <1>12, <1>13, <1>14, <1>15
     DEF Next, CodeStep, BootStep, Scan, Command

(* The candidate's turn has come or gone: it is no longer ahead of t. *)
LEMMA DropCandidate ==
  ASSUME IInv, Running("scan"),
         NEW t \in Linked, t # candidate, NEW P, Ahead(t, P)
  PROVE  /\ t \in P \ {candidate} /\ Threads \ Linked \subseteq P \ {candidate}
         /\ candidate \in P /\ next[candidate] \in P \ {candidate}
         /\ \A s \in ((P \ {candidate}) \cap Linked) \ {t} : next[s] \in P \ {candidate}
<1>1. /\ lock /\ candidate \in Linked /\ prev \in Linked /\ next[prev] = candidate
      /\ current # Null
  BY InScan
<1>2. /\ t \in P /\ Threads \ Linked \subseteq P /\ candidate \in P /\ (prev \in P => prev = t)
      /\ \A s \in (P \cap Linked) \ {t} : next[s] \in P
  BY <1>1 DEF Ahead
<1>3. next[candidate] # candidate
  <2>1. {candidate} \in SUBSET Linked /\ {candidate} # {} /\ Linked # {candidate}
    BY <1>1
  <2> QED BY <2>1 DEF IInv, RingInv
<1>4. next[candidate] \in P \ {candidate}
  BY <1>1, <1>2, <1>3
<1>5. ASSUME NEW s \in ((P \ {candidate}) \cap Linked) \ {t}
      PROVE  next[s] \in P \ {candidate}
  <2>1. s # prev
    BY <1>2, <1>5
  <2>2. next[s] = next[prev] => s = prev
    BY <1>1 DEF IInv, RingInv
  <2> QED BY <1>1, <1>2, <2>1, <2>2
<1> QED BY <1>1, <1>2, <1>4, <1>5

(* A step that moves nobody, lets no tick pass and adds no sleeper. *)
LEMMA LateSame ==
  ASSUME LateInv, UNCHANGED <<next, current, lock, ticks, wake_at, left>>,
         lock => UNCHANGED <<prev, candidate>>,
         \A t \in Threads : Sleepy(stack'[t]) => Sleepy(stack[t]),
         current # Null => current \in Threads,
         \A t \in Threads : state'[t] = "BLOCKED" => state[t] = "BLOCKED" \/ (t = current /\ ~lock)
  PROVE  LateInv'
<1>1. Linked' = Linked /\ Linked \subseteq Threads
  BY DEF Linked
<1>2. ASSUME NEW t \in Linked, lock \/ t # current
      PROVE  \E P \in SUBSET Threads : Ahead(t, P)' /\ Bounded(t, P)'
  <2>1. PICK P \in SUBSET Threads : Ahead(t, P) /\ Bounded(t, P)
    BY <1>2 DEF LateInv
  <2>2. Ahead(t, P)'
    BY <1>1, <2>1 DEF Ahead
  <2>3. Late(t)' = Late(t) /\ Turns(P)' = Turns(P)
    BY DEF Late, Turns
  <2>4. (Preempted(t)' => Preempted(t)) /\ (Due(t)' => Due(t))
    BY <1>1, <1>2 DEF Preempted, Due
  <2>5. Bounded(t, P)'
    BY <2>1, <2>3, <2>4 DEF Bounded
  <2> QED BY <2>2, <2>5
<1>3. ASSUME ~lock, current # Null, Preempted(current)'
      PROVE  Late(current)' <= Longest
  <2>1. Preempted(current)
    BY <1>3 DEF Preempted
  <2>2. Late(current)' = Late(current)
    BY DEF Late
  <2> QED BY <1>3, <2>1, <2>2 DEF LateInv
<1> QED BY <1>1, <1>2, <1>3 DEF LateInv

(* The comparison is exact: a sleeper is found before half a wrap. *)
LEMMA ExactWake ==
  ASSUME IInv, SleepInv, MadeInv, LateInv, FewThreads, NEW t \in Threads, state[t] = "BLOCKED"
  PROVE  Asleep(t) <=> left[t] > 0
<1>1. left[t] > 0 => Asleep(t)
  BY AsleepWhileLeft DEF IInv
<1>2. ASSUME left[t] = 0 PROVE Late(t) <= Longest + Many - 1
  <2>1. t \in Linked /\ Due(t) /\ current # Null
    <3>1. current # Null
      <4>1. CASE current = Null
        <5>1. t = Boot /\ ~Waits(stack[Boot])
          <6>1. t = Boot
            BY <4>1 DEF IInv, RingInv
          <6> QED BY <4>1, <6>1, AloneAwake DEF Waits
        <5> QED BY <5>1 DEF SleepInv
      <4> QED BY <4>1
    <3>2. Due(t) /\ state[t] # "FREE" /\ t # Null
      BY <1>2, ThreadsAssumption DEF Due
    <3>3. t # made
      <4>1. CASE made = Null
        BY <3>2, <4>1
      <4>2. CASE made # Null
        BY <4>2 DEF MadeInv
      <4> QED BY <4>1, <4>2
    <3>4. t \in Linked
      BY <3>1, <3>2, <3>3 DEF IInv, RingInv
    <3> QED BY <3>1, <3>2, <3>4
  <2>2. Many \in Nat /\ Longest \in Nat /\ Many >= 1 /\ Late(t) \in 0 .. TickMod - 1 /\ TickMod \in Nat
    BY FewFacts, LateRange, ClockAssumption DEF IInv
  <2>3. CASE lock \/ t # current
    <3>1. PICK P \in SUBSET Threads : Ahead(t, P) /\ Bounded(t, P)
      BY <2>1, <2>3 DEF LateInv
    <3>2. Cardinality(P) \in Nat /\ Cardinality(P) >= 1
      BY <3>1, FewFacts DEF Ahead
    <3>3. Turns(P) \in Nat
      BY <3>2 DEF Turns
    <3>4. Late(t) + Turns(P) <= Longest + Many - 1
      BY <2>1, <3>1 DEF Bounded
    <3> QED BY <2>2, <3>3, <3>4
  <2>4. CASE ~lock /\ t = current
    <3>1. Head(stack[t]) = "blocked" /\ stack[t] # <<>>
      <4>1. Head(stack[t]) \in {"blocked", "scan"} /\ stack[t] # <<>>
        <5>1. Head(stack[t]) \in {"blocked", "scan"}
          BY <2>1, <2>4 DEF SleepInv
        <5>2. stack[t] # <<>>
          BY DEF IInv, StacksInv
        <5> QED BY <5>1, <5>2
      <4>2. CASE t = cpu
        <5>1. ~Running("scan")
          BY <2>4 DEF IInv, LockInv
        <5> QED BY <4>1, <4>2, <5>1, OnCpu DEF Running
      <4>3. CASE t # cpu
        BY <4>1, <4>3 DEF IInv, CpuInv, Resumable
      <4> QED BY <4>2, <4>3
    <3>2. On("blocked", stack[t])
      BY <3>1, OnPop DEF IInv, TypeOK
    <3>3. Late(t) <= Longest
      BY <1>2, <2>1, <2>4, <3>2 DEF LateInv, Preempted, Sleepy
    <3> QED BY <2>2, <3>3
  <2> QED BY <2>3, <2>4
<1>3. ASSUME left[t] = 0 PROVE ~Asleep(t)
  <2>1. /\ Many \in Nat /\ Longest \in Nat /\ Longest + Many <= (TickMod + 1) \div 2 /\ Late(t) \in 0 .. TickMod - 1
        /\ (TickMod + 1) \div 2 \in Nat
    BY FewFacts, LateRange, ClockAssumption DEF IInv
  <2>2. Late(t) < (TickMod + 1) \div 2
    BY <1>2, <1>3, <2>1
  <2>3. ~(Late(t) >= (TickMod + 1) \div 2)
    BY <2>1, <2>2
  <2> QED BY <2>3 DEF Asleep, Late
<1>4. left[t] \in Nat
  BY ClockAssumption DEF IInv, TypeOK
<1> QED BY <1>1, <1>3, <1>4

-----------------------------------------------------------------------------
(* LateInv, step by step: the scan *)

LEMMA LatePick ==
  ASSUME IInv, LateInv, FewThreads, ScanPick
  PROVE  LateInv'
<1>1. /\ Running("scan") /\ candidate # current /\ current' = candidate /\ ~lock'
      /\ UNCHANGED <<next, ticks, wake_at, left>> /\ Goto("window") /\ "window" \in Frames
      /\ state' = [state EXCEPT ![candidate] = IF @ = "BLOCKED" THEN "READY" ELSE @]
  BY DEF ScanPick, Frames
<1>2. lock /\ candidate \in Linked /\ Linked \subseteq Threads /\ state \in [Threads -> States]
  BY <1>1, InScan DEF IInv, TypeOK
<1>3. \A t \in Threads : Preempted(t)' => Preempted(t)
  <2>1. \A t \in Threads : \A g : On(g, stack'[t]) => On(g, stack[t]) \/ g = "window"
    BY <1>1, OnAfter
  <2> QED BY <1>1, <2>1 DEF Preempted, Sleepy
<1>4. \A t \in Threads : Due(t)' => Due(t)
  BY <1>1, <1>2 DEF Due
<1>5. \A t : Late(t)' = Late(t)
  BY <1>1 DEF Late
<1>6. ASSUME NEW t \in Linked', t # current'
      PROVE  \E P \in SUBSET Threads : Ahead(t, P)' /\ Bounded(t, P)'
  <2>1. t \in Linked /\ t # candidate /\ t \in Threads
    BY <1>1, <1>2, <1>6 DEF Linked
  <2>2. PICK P \in SUBSET Threads : Ahead(t, P) /\ Bounded(t, P)
    BY <1>2, <2>1 DEF LateInv
  <2>3. PICK D \in SUBSET Threads : D = P \ {candidate}
    OBVIOUS
  <2>4. /\ t \in D /\ Threads \ Linked \subseteq D /\ candidate \in P /\ next[candidate] \in D
        /\ \A s \in (D \cap Linked) \ {t} : next[s] \in D
    BY <1>1, <2>1, <2>2, <2>3, DropCandidate
  <2>5. Ahead(t, D)'
    <3>1. Linked' = Linked /\ candidate \notin D
      BY <1>1, <2>3 DEF Linked
    <3> QED BY <1>1, <2>4, <3>1 DEF Ahead
  <2>6. Turns(D)' = Turns(P)
    BY <1>1, <1>2, <2>3, <2>4, FewFacts DEF Turns
  <2>7. Bounded(t, D)'
    BY <1>3, <1>4, <1>5, <2>1, <2>2, <2>6 DEF Bounded
  <2> QED BY <2>5, <2>7
<1>7. ASSUME Preempted(candidate) PROVE Late(candidate) <= Longest
  <2>1. PICK P \in SUBSET Threads : Ahead(candidate, P) /\ Bounded(candidate, P)
    BY <1>2 DEF LateInv
  <2>2. Cardinality(P) \in Nat /\ Cardinality(P) >= 1 /\ Many \in Nat /\ Longest \in Nat
    BY <2>1, FewFacts DEF Ahead
  <2>3. Late(candidate) + (Cardinality(P) - 1) <= Longest
    BY <1>2, <1>7, <2>1 DEF Bounded, Turns
  <2>4. Late(candidate) \in 0 .. TickMod - 1
    BY <1>2, LateRange DEF IInv
  <2> QED BY <2>2, <2>3, <2>4
<1>8. Preempted(current') => Preempted(candidate)
  BY <1>1
<1>9. Preempted(current)' => Late(current)' <= Longest
  <2>1. Preempted(current)' => Preempted(candidate)
    <3>1. \A g : On(g, stack'[candidate]) => On(g, stack[candidate]) \/ g = "window"
      BY <1>1, <1>2, OnAfter
    <3> QED BY <1>1, <3>1 DEF Preempted, Sleepy
  <2>2. Late(current)' = Late(candidate)
    BY <1>1 DEF Late
  <2> QED BY <1>7, <2>1, <2>2
<1> QED BY <1>1, <1>6, <1>9 DEF LateInv

LEMMA LateSkip ==
  ASSUME IInv, SleepInv, MadeInv, LateInv, FewThreads, ScanSkip
  PROVE  LateInv'
<1>1. /\ Running("scan") /\ candidate # current /\ Asleep(candidate)
      /\ prev' = candidate /\ candidate' = next[candidate]
      /\ UNCHANGED <<next, current, lock, ticks, wake_at, left, state, stack>>
  BY DEF ScanSkip, ring
<1>2. /\ lock /\ candidate \in Linked /\ Linked \subseteq Threads /\ next[candidate] \in Linked
      /\ Linked' = Linked
  BY <1>1, InScan DEF Linked
<1>3. \A t : /\ Late(t)' = Late(t) /\ Preempted(t)' = Preempted(t) /\ Due(t)' = Due(t)
  BY <1>1 DEF Late, Preempted, Due
<1>4. ASSUME NEW t \in Linked, t # candidate
      PROVE  \E P \in SUBSET Threads : Ahead(t, P)' /\ Bounded(t, P)'
  <2>2. PICK P \in SUBSET Threads : Ahead(t, P) /\ Bounded(t, P)
    BY <1>2 DEF LateInv
  <2>3. PICK D \in SUBSET Threads : D = P \ {candidate}
    OBVIOUS
  <2>4. /\ t \in D /\ Threads \ Linked \subseteq D /\ candidate \in P /\ next[candidate] \in D
        /\ \A s \in (D \cap Linked) \ {t} : next[s] \in D
    BY <1>1, <1>4, <2>2, <2>3, DropCandidate
  <2>5. Ahead(t, D)'
    <3>1. candidate \notin D
      BY <2>3
    <3> QED BY <1>1, <1>2, <2>4, <3>1 DEF Ahead
  <2>6. Turns(P) \in Int /\ Turns(D)' = Turns(P) - 1 /\ Late(t) \in Int /\ Many \in Int /\ Longest \in Int
    <3>1. Cardinality(P) \in Nat /\ Cardinality(D) = Cardinality(P) - 1 /\ Many \in Int /\ Longest \in Int
      BY <2>3, <2>4, FewFacts
    <3>2. Late(t) \in Int
      BY <1>2, LateRange DEF IInv
    <3> QED BY <1>1, <1>2, <3>1, <3>2 DEF Turns
  <2>7. Bounded(t, D)'
    BY <1>3, <2>2, <2>6 DEF Bounded
  <2> QED BY <2>5, <2>7
<1>5. ASSUME NEW t \in Linked, t = candidate
      PROVE  \E P \in SUBSET Threads : Ahead(t, P)' /\ Bounded(t, P)'
  <2>2. left[t] > 0
    BY <1>1, <1>2, <1>5, ExactWake DEF Asleep
  <2>3. ~Preempted(t) /\ ~Due(t)
    BY <2>2 DEF Preempted, Due
  <2>4. Bounded(t, Threads)'
    BY <1>3, <2>3 DEF Bounded
  <2>5. \A s \in Linked : next[s] \in Threads
    BY <1>2 DEF IInv, RingInv
  <2>6. Ahead(t, Threads)'
    BY <1>1, <1>2, <1>5, <2>5 DEF Ahead, Threads
  <2> QED BY <2>4, <2>6
<1> QED BY <1>1, <1>2, <1>4, <1>5 DEF LateInv

LEMMA LateReap ==
  ASSUME IInv, LateInv, ScanReap
  PROVE  LateInv'
<1>1. /\ Running("scan") /\ candidate # current /\ candidate' = next[candidate]
      /\ next' = [next EXCEPT ![prev] = next[candidate], ![candidate] = Null]
      /\ state' = [state EXCEPT ![candidate] = "FREE"]
      /\ stack' = [stack EXCEPT ![candidate] = <<>>]
      /\ UNCHANGED <<current, lock, prev, ticks, wake_at, left>>
  BY DEF ScanReap, ThreadDestroy
<1>2. /\ lock /\ candidate \in Linked /\ prev \in Linked /\ next[prev] = candidate
      /\ Linked \subseteq Threads /\ current # Null
      /\ next \in [Threads -> Threads \cup {Null}]
      /\ state \in [Threads -> States] /\ stack \in [Threads -> Seq(Frames)]
  BY <1>1, InScan DEF IInv, TypeOK
<1>3. prev # candidate
  BY <1>1, <1>2, NotItsOwnPredecessor DEF IInv
<1>4. Linked' = Linked \ {candidate}
  BY <1>1, <1>2, <1>3, Unlink DEF IInv
<1>5. \A t \in Threads \ {prev, candidate} : next'[t] = next[t]
  BY <1>1, <1>2
<1>6. ASSUME NEW t \in Threads
      PROVE  /\ Late(t)' = Late(t) /\ (Preempted(t)' => Preempted(t)) /\ (Due(t)' => Due(t))
  <2>1. \A g : ~On(g, <<>>)
    BY DEF On
  <2>2. Sleepy(stack'[t]) => Sleepy(stack[t])
    BY <1>1, <1>2, <2>1 DEF Sleepy
  <2> QED BY <1>1, <1>2, <2>2 DEF Late, Preempted, Due
<1>7. ASSUME NEW t \in Linked', lock' \/ t # current'
      PROVE  \E P \in SUBSET Threads : Ahead(t, P)' /\ Bounded(t, P)'
  <2>1. t \in Linked /\ t # candidate
    BY <1>4, <1>7
  <2>2. PICK P \in SUBSET Threads : Ahead(t, P) /\ Bounded(t, P)
    BY <1>2, <2>1 DEF LateInv
  <2>3. /\ t \in P /\ Threads \ Linked \subseteq P /\ candidate \in P /\ (prev \in P => prev = t)
        /\ \A s \in (P \cap Linked) \ {t} : next[s] \in P
    BY <1>2, <2>2 DEF Ahead
  <2>4. next[candidate] \in P
    BY <1>2, <2>1, <2>3
  <2>5. ASSUME NEW s \in (P \cap Linked') \ {t} PROVE next'[s] \in P
    <3>1. s \in (P \cap Linked) \ {t} /\ s \notin {prev, candidate}
      BY <1>4, <2>3, <2>5
    <3> QED BY <1>2, <1>5, <2>3, <3>1
  <2>6. Ahead(t, P)'
    BY <1>1, <1>2, <1>4, <2>3, <2>4, <2>5 DEF Ahead, Threads
  <2>7. Bounded(t, P)'
    BY <1>1, <1>2, <1>6, <2>1, <2>2 DEF Bounded, Turns
  <2> QED BY <2>6, <2>7
<1> QED BY <1>1, <1>2, <1>7 DEF LateInv

LEMMA LateNone ==
  ASSUME IInv, LateInv, FewThreads, ScanNone
  PROVE  LateInv'
<1>1. /\ Running("scan") /\ candidate = current /\ ~lock' /\ Return
      /\ UNCHANGED <<current, next, state, ticks, wake_at, left>>
  BY DEF ScanNone, ring
<1>2. /\ lock /\ candidate \in Linked /\ Linked \subseteq Threads /\ current # Null
      /\ Linked' = Linked
  BY <1>1, InScan DEF Linked
<1>3. ASSUME NEW t \in Threads
      PROVE  /\ Late(t)' = Late(t) /\ (Preempted(t)' => Preempted(t)) /\ (Due(t)' => Due(t))
  <2>1. \A g : On(g, stack'[t]) => On(g, stack[t]) \/ g = "scan"
    <3>1. "scan" \in Frames
      BY DEF Frames
    <3> QED BY <1>1, <3>1, OnAfter
  <2> QED BY <1>1, <2>1 DEF Late, Preempted, Due, Sleepy
<1>4. ASSUME NEW t \in Linked', t # current'
      PROVE  \E P \in SUBSET Threads : Ahead(t, P)' /\ Bounded(t, P)'
  <2>1. t \in Linked /\ t # candidate /\ t \in Threads
    BY <1>1, <1>2, <1>4
  <2>2. PICK P \in SUBSET Threads : Ahead(t, P) /\ Bounded(t, P)
    BY <1>2, <2>1 DEF LateInv
  <2>3. PICK D \in SUBSET Threads : D = P \ {candidate}
    OBVIOUS
  <2>4. /\ t \in D /\ Threads \ Linked \subseteq D /\ candidate \in P /\ next[candidate] \in D
        /\ \A s \in (D \cap Linked) \ {t} : next[s] \in D
    BY <1>1, <2>1, <2>2, <2>3, DropCandidate
  <2>5. Ahead(t, D)'
    BY <1>1, <1>2, <2>3, <2>4 DEF Ahead, Threads
  <2>6. Turns(D)' = Turns(P)
    BY <1>1, <1>2, <2>3, <2>4, FewFacts DEF Turns
  <2>7. Bounded(t, D)'
    BY <1>3, <2>1, <2>2, <2>6 DEF Bounded
  <2> QED BY <2>5, <2>7
<1>5. ASSUME NEW t \in Threads, t = current, Preempted(t)
      PROVE  Late(t) <= Longest
  <2>1. PICK P \in SUBSET Threads : Ahead(t, P) /\ Bounded(t, P)
    BY <1>1, <1>2, <1>5 DEF LateInv
  <2>2. Cardinality(P) \in Nat /\ Cardinality(P) >= 1 /\ Many \in Nat /\ Longest \in Nat
    BY <2>1, FewFacts DEF Ahead
  <2>3. Late(t) + (Cardinality(P) - 1) <= Longest
    BY <1>2, <1>5, <2>1 DEF Bounded, Turns
  <2>4. Late(t) \in 0 .. TickMod - 1
    BY LateRange DEF IInv
  <2> QED BY <2>2, <2>3, <2>4
<1>6. Preempted(current)' => Late(current)' <= Longest
  <2>1. PICK t \in Threads : t = current
    BY <1>1, <1>2
  <2>2. (Preempted(current)' <=> Preempted(t)') /\ Late(current)' = Late(t)'
    BY <1>1, <2>1
  <2> QED BY <1>3, <1>5, <2>1, <2>2
<1> QED BY <1>1, <1>4, <1>6 DEF LateInv

-----------------------------------------------------------------------------
(* LateInv, step by step: into the scan *)

LEMMA EnterAhead ==
  ASSUME IInv, FewThreads, current # Null, UNCHANGED <<next, current>>,
         NEW s, NEW saved, EnterYield(s, saved)
  PROVE  /\ ~lock /\ lock' /\ Linked' = Linked /\ Linked \subseteq Threads
         /\ \A t \in Linked \ {current} : \A P \in SUBSET Threads :
              Ahead(t, P) => /\ Ahead(t, P)'
                             /\ Turns(P)' = Turns(P) - 1 /\ Turns(P) \in 1 .. Many
         /\ Ahead(current, Threads)' /\ Turns(Threads)' = Many - 1
<1>1. /\ ~lock /\ lock' /\ prev' = current /\ candidate' = next[current]
      /\ current' = current /\ next' = next
  BY DEF EnterYield
<1>2. Linked' = Linked /\ Linked \subseteq Threads
  BY <1>1 DEF Linked
<1>3. current \in Linked /\ \A t \in Linked : next[t] \in Linked
  BY DEF IInv, RingInv
<1>4. ASSUME NEW t \in Linked \ {current}, NEW P \in SUBSET Threads, Ahead(t, P)
      PROVE  Ahead(t, P)' /\ Turns(P)' = Turns(P) - 1 /\ Turns(P) \in 1 .. Many
  <2>1. next[current] \in P /\ current \notin P /\ t \in P
    BY <1>1, <1>4 DEF Ahead
  <2>2. Ahead(t, P)'
    BY <1>1, <1>2, <1>4, <2>1 DEF Ahead, Threads
  <2>3. Cardinality(P) \in 1 .. Many
    <3>1. /\ Cardinality(P) \in Nat /\ Cardinality(P) >= 1 /\ Cardinality(P) <= Many
          /\ Many \in Nat /\ Longest \in Nat
      BY <2>1, FewFacts
    <3> QED BY <3>1
  <2> QED BY <1>1, <2>2, <2>3 DEF Turns
<1>5. Ahead(current, Threads)'
  BY <1>1, <1>2, <1>3 DEF Ahead, Threads
<1>6. Turns(Threads)' = Many - 1
  BY <1>1 DEF Turns, Many, Threads
<1> QED BY <1>1, <1>2, <1>4, <1>5, <1>6

(* A yield of the thread itself: no tick passes, and it is not cut short *)
(* in its sleep.                                                         *)
LEMMA LateEnter ==
  ASSUME IInv, LateInv, FewThreads, current # Null, current = cpu,
         UNCHANGED <<next, current, ticks, wake_at, left, state>>,
         NEW s \in Seq(Frames), NEW saved, EnterYield(s, saved), ~Sleepy(s),
         state[cpu] = "BLOCKED" => Sleepy(stack[cpu])
  PROVE  LateInv'
<1>1. /\ ~lock /\ lock' /\ Linked' = Linked /\ Linked \subseteq Threads
      /\ \A t \in Linked \ {current} : \A P \in SUBSET Threads :
           Ahead(t, P) => /\ Ahead(t, P)'
                          /\ Turns(P)' = Turns(P) - 1 /\ Turns(P) \in 1 .. Many
      /\ Ahead(current, Threads)' /\ Turns(Threads)' = Many - 1
  BY EnterAhead
<1>2. \A t \in Threads : Late(t)' = Late(t) /\ Late(t) \in 0 .. TickMod - 1
  BY LateRange DEF Late, IInv
<1>3. /\ \A g : On(g, stack'[cpu]) => On(g, s) \/ g = "scan"
      /\ \A t \in Threads \ {cpu} : stack'[t] = stack[t]
  BY OnEntered
<1>4. Many \in Nat /\ Longest \in Nat /\ TickMod \in Nat
  BY FewFacts, ClockAssumption
<1>5. ASSUME NEW t \in Linked \ {current}
      PROVE  \E P \in SUBSET Threads : Ahead(t, P)' /\ Bounded(t, P)'
  <2>1. PICK P \in SUBSET Threads : Ahead(t, P) /\ Bounded(t, P)
    BY <1>5 DEF LateInv
  <2>2. Ahead(t, P)' /\ Turns(P)' = Turns(P) - 1 /\ Turns(P) \in 1 .. Many
    BY <1>1, <2>1
  <2>3. (Preempted(t)' => Preempted(t)) /\ (Due(t)' => Due(t))
    BY <1>1, <1>3 DEF Preempted, Due
  <2>4. Bounded(t, P)'
    BY <1>1, <1>2, <1>4, <2>1, <2>2, <2>3 DEF Bounded
  <2> QED BY <2>2, <2>4
<1>6. ASSUME NEW t \in Linked, t = current
      PROVE  \E P \in SUBSET Threads : Ahead(t, P)' /\ Bounded(t, P)'
  <2>1. Ahead(t, Threads)'
    BY <1>1, <1>6 DEF Ahead, Threads
  <2>2. ~Preempted(t)'
    BY <1>3, <1>6 DEF Preempted, Sleepy
  <2>3. Due(t)' => Late(t) <= Longest
    BY <1>1, <1>6 DEF Due, Preempted, LateInv
  <2>4. Bounded(t, Threads)'
    <3>1. Due(t)' => Late(t) + (Many - 1) <= Longest + Many - 1
      BY <1>1, <1>2, <1>4, <2>3
    <3> QED BY <1>1, <1>2, <2>2, <3>1 DEF Bounded, Threads
  <2> QED BY <2>1, <2>4
<1> QED BY <1>1, <1>5, <1>6 DEF LateInv

(* What lies under a frame of thread_sleep is no sleep. *)
LEMMA NapOnlyOnTop ==
  ASSUME IInv, FramesInv, Head(stack[cpu]) \in Naps
  PROVE  ~Sleepy(Below)
<1>1. /\ stack[cpu] \in Seq(Frames) /\ stack[cpu] # <<>> /\ GoodNaps(stack[cpu])
      /\ GoodStack(stack[cpu]) /\ Head(stack[cpu]) \notin Bases
  BY OnCpu DEF FramesInv, Naps, Bases, Halts, BootFrames
<1>2. /\ GoodNaps(Below) /\ Below # <<>> /\ Head(Below) \in Code
      /\ GoodStack(Below) /\ Below \in Seq(Frames)
  BY <1>1, OnCpu, PopNaps, PopGood DEF Below
<1>3. \A g : On(g, Below) <=> g = Head(Below) \/ On(g, Tail(Below))
  BY <1>2, OnPop
<1>4. \A g \in Naps : ~On(g, Tail(Below))
  <2>1. CASE Head(Below) = "entry"
    <3>1. Tail(Below) = <<>>
      BY <1>2, <2>1, BaseAlone DEF Bases
    <3>2. \A g : ~On(g, <<>>)
      BY DEF On
    <3> QED BY <3>1, <3>2
  <2>2. CASE Head(Below) = "keyboard_isr"
    BY <1>2, <2>2, PopNaps
  <2> QED BY <1>2, <2>1, <2>2 DEF Code
<1> QED BY <1>2, <1>3, <1>4 DEF Sleepy, Naps, Code

LEMMA LateYields ==
  ASSUME IInv, FramesInv, SleepInv, LateInv, FewThreads,
         CallYield \/ ExitYield \/ SleepYield
  PROVE  LateInv'
<1>1. /\ stack[cpu] \in Seq(Frames) /\ stack[cpu] # <<>> /\ Below \in Seq(Frames)
      /\ \A g : On(g, stack[cpu]) <=> g = Head(stack[cpu]) \/ On(g, Below)
  BY OnCpu, OnPop DEF Below
<1>2. UNCHANGED <<next, current, ticks, wake_at, left, state>>
  BY DEF CallYield, ExitYield, SleepYield, ring
<1>3. CASE CallYield
  <2>1. EnterYield(stack[cpu], eif) /\ InCode
    BY <1>3 DEF CallYield
  <2>2. ~Sleepy(stack[cpu])
    BY <2>1, CodeIsAwake DEF Sleepy, Naps
  <2>3. current # Null /\ current = cpu /\ state[cpu] # "BLOCKED"
    <3>1. PICK f \in {"entry", "keyboard_isr"} : Running(f)
      BY <2>1 DEF InCode
    <3>2. f \in Frames \ BootFrames /\ f \notin {"blocked", "scan", "window"}
      BY <3>1 DEF Frames, BootFrames
    <3> QED BY <3>1, <3>2, AfterBoot, RunnerAwake
  <2> QED BY <1>1, <1>2, <2>1, <2>2, <2>3, LateEnter
<1>4. CASE ExitYield
  <2>1. EnterYield(stack[cpu], eif) /\ Running("exit") /\ Head(stack[cpu]) = "exit"
    BY <1>4 DEF ExitYield, Running
  <2>2. ~Sleepy(stack[cpu])
    <3>1. Below = <<>>
      BY <1>1, <2>1, OnCpu, BaseAlone DEF Bases, Below
    <3>2. \A g : ~On(g, <<>>)
      BY DEF On
    <3> QED BY <1>1, <2>1, <3>1, <3>2 DEF Sleepy
  <2>3. current # Null /\ current = cpu /\ state[cpu] # "BLOCKED"
    <3>1. "exit" \in Frames \ BootFrames /\ "exit" \notin {"blocked", "scan", "window"}
      BY DEF Frames, BootFrames
    <3> QED BY <2>1, <3>1, AfterBoot, RunnerAwake
  <2> QED BY <1>1, <1>2, <2>1, <2>2, <2>3, LateEnter
<1>5. CASE SleepYield
  <2> DEFINE s == <<"slept">> \o Below
  <2>1. EnterYield(s, eif) /\ Running("blocked") /\ Head(stack[cpu]) = "blocked"
    BY <1>5 DEF SleepYield, Running
  <2>2. s \in Seq(Frames) /\ \A g : On(g, s) <=> g = "slept" \/ On(g, Below)
    <3>1. "slept" \in Frames
      BY DEF Frames
    <3> QED BY <1>1, <3>1, ConsFacts, OnPush
  <2>3. ~Sleepy(s)
    BY <2>1, <2>2, NapOnlyOnTop DEF Sleepy, Naps
  <2>4. current # Null /\ current = cpu /\ Sleepy(stack[cpu])
    <3>1. "blocked" \in Frames \ BootFrames /\ ~Running("window")
      BY <2>1 DEF Frames, BootFrames, Running
    <3>2. current # Null
      BY <2>1, <3>1, AfterBoot
    <3> QED BY <1>1, <2>1, <3>1, <3>2 DEF IInv, CpuInv, Sleepy
  <2> HIDE DEF s
  <2> QED BY <1>2, <2>1, <2>2, <2>3, <2>4, LateEnter
<1> QED BY <1>3, <1>4, <1>5

(* A tick: who is ahead of t gets the CPU for it. *)
LEMMA LateTick ==
  ASSUME IInv, FramesInv, SleepInv, LateInv, FewThreads, ~untimely', TimerInterrupt
  PROVE  LateInv'
<1> DEFINE s == <<"timer_isr">> \o stack[cpu]
<1>1. /\ ticks' = (ticks + 1) % TickMod
      /\ left' = [t \in Threads |-> IF left[t] = 0 THEN 0 ELSE left[t] - 1]
      /\ UNCHANGED <<next, current, wake_at, state>>
      /\ current # Null /\ EnterYield(s, FALSE)
  BY DEF TimerInterrupt, ring, Untimely
<1>2. s \in Seq(Frames) /\ \A g : On(g, s) <=> g = "timer_isr" \/ On(g, stack[cpu])
  <2>1. "timer_isr" \in Frames
    BY DEF Frames
  <2> QED BY <2>1, OnCpu, ConsFacts, OnPush
<1> HIDE DEF s
<1>3. /\ ~lock /\ lock' /\ Linked' = Linked /\ Linked \subseteq Threads
      /\ \A t \in Linked \ {current} : \A P \in SUBSET Threads :
           Ahead(t, P) => /\ Ahead(t, P)'
                          /\ Turns(P)' = Turns(P) - 1 /\ Turns(P) \in 1 .. Many
      /\ Ahead(current, Threads)' /\ Turns(Threads)' = Many - 1
  BY <1>1, EnterAhead
<1>4. /\ \A g : On(g, stack'[cpu]) => On(g, stack[cpu]) \/ g \in {"scan", "timer_isr"}
      /\ \A t \in Threads \ {cpu} : stack'[t] = stack[t]
  BY <1>1, <1>2, OnEntered
<1>5. /\ Many \in Nat /\ Longest \in Nat /\ Many >= 1 /\ Longest >= Many
      /\ Longest + Many <= (TickMod + 1) \div 2
      /\ TickMod \in Nat /\ TickMod >= 2
  BY FewFacts, ClockAssumption
<1>6. Longest + Many <= TickMod - 1
  BY <1>5
<1>7. /\ ticks \in 0 .. TickMod - 1 /\ \A t \in Threads : left[t] \in Nat
      /\ \A t \in Threads : wake_at[t] \in 0 .. TickMod - 1
  <2>1. /\ ticks \in 0 .. TickMod - 1 /\ left \in [Threads -> 0 .. MaxSleep]
        /\ wake_at \in [Threads -> 0 .. TickMod - 1] /\ MaxSleep \in Nat
    BY ClockAssumption DEF IInv, TypeOK
  <2>2. \A t \in Threads : left[t] \in 0 .. MaxSleep /\ wake_at[t] \in 0 .. TickMod - 1
    BY <2>1
  <2> QED BY <2>1, <2>2
<1>8. ASSUME NEW t \in Threads
      PROVE  /\ Late(t) \in 0 .. TickMod - 1
             /\ left'[t] = 0 /\ left[t] # 0 => Late(t)' = 0
             /\ Late(t) < TickMod - 1 => Late(t)' = Late(t) + 1
             /\ \A g : g \notin {"scan", "timer_isr"} /\ On(g, stack'[t]) => On(g, stack[t])
  <2>1. Late(t) \in 0 .. TickMod - 1
    BY LateRange DEF IInv
  <2>2. ASSUME left'[t] = 0, left[t] # 0 PROVE Late(t)' = 0
    <3>1. left[t] = 1
      BY <1>1, <1>7, <2>2
    <3>2. wake_at'[t] = ticks'
      BY <1>1, <3>1 DEF SleepInv
    <3>3. ticks' \in 0 .. TickMod - 1
      BY <1>7, <1>1, <3>2
    <3>4. (ticks' - ticks') % TickMod = 0
      <4>1. \A k \in 0 .. TickMod - 1 : (k - k) % TickMod = 0
        BY <1>5, ModMinus
      <4> QED BY <3>3, <4>1
    <3> QED BY <3>2, <3>4 DEF Late
  <2>3. ASSUME Late(t) < TickMod - 1 PROVE Late(t)' = Late(t) + 1
    <3>1. (((ticks + 1) % TickMod) - wake_at[t]) % TickMod
            = ((ticks - wake_at[t]) % TickMod) + 1
      BY <1>7, <2>3, LaterByOne DEF Late
    <3> QED BY <1>1, <3>1 DEF Late
  <2>4. \A g : g \notin {"scan", "timer_isr"} /\ On(g, stack'[t]) => On(g, stack[t])
    BY <1>4
  <2> QED BY <2>1, <2>2, <2>3, <2>4
<1>9. ASSUME NEW t \in Threads
      PROVE  /\ Preempted(t)' => Sleepy(stack[t]) /\ left'[t] = 0
             /\ Due(t)' => state[t] = "BLOCKED" /\ left'[t] = 0
  BY <1>1, <1>8 DEF Preempted, Due, Sleepy
<1>10. ASSUME NEW t \in Linked \ {current}
       PROVE  \E P \in SUBSET Threads : Ahead(t, P)' /\ Bounded(t, P)'
  <2>1. PICK P \in SUBSET Threads : Ahead(t, P) /\ Bounded(t, P)
    BY <1>10, <1>3 DEF LateInv
  <2>2. Ahead(t, P)' /\ Turns(P)' = Turns(P) - 1 /\ Turns(P) \in 1 .. Many
    BY <1>3, <2>1
  <2>3. t \in Threads
    BY <1>3
  <2>4. CASE left[t] # 0
    <3>1. Preempted(t)' \/ Due(t)' => Late(t)' = 0
      BY <1>8, <1>9, <2>3, <2>4
    <3> QED BY <1>3, <1>5, <2>2, <3>1 DEF Bounded
  <2>5. CASE left[t] = 0
    <3>1. (Preempted(t)' => Preempted(t)) /\ (Due(t)' => Due(t))
      BY <1>9, <2>3, <2>5 DEF Preempted, Due
    <3>2. Late(t) \in 0 .. TickMod - 1 /\ (Late(t) < TickMod - 1 => Late(t)' = Late(t) + 1)
      BY <1>8, <2>3
    <3>3. (Preempted(t)' => Late(t)' + Turns(P)' <= Longest)
      <4>1. Preempted(t) => Late(t) + Turns(P) <= Longest
        BY <2>1 DEF Bounded
      <4> QED BY <1>5, <1>6, <2>2, <3>1, <3>2, <4>1
    <3>4. (Due(t)' => Late(t)' + Turns(P)' <= Longest + Many - 1)
      <4>1. Due(t) => Late(t) + Turns(P) <= Longest + Many - 1
        BY <2>1 DEF Bounded
      <4> QED BY <1>5, <1>6, <2>2, <3>1, <3>2, <4>1
    <3>5. Many' = Many /\ Longest' = Longest
      BY DEF Longest, Many, Threads
    <3> QED BY <2>2, <3>3, <3>4, <3>5 DEF Bounded
  <2> QED BY <2>2, <2>4, <2>5
<1>11. current = cpu /\ cpu \in Threads
  <2>1. ~Running("window")
    BY DEF TimerInterrupt, Untimely
  <2> QED BY <1>1, <2>1, OnCpu DEF IInv, CpuInv
<1>12. ASSUME NEW t \in Threads, t = cpu, Sleepy(stack[t]), left'[t] = 0
       PROVE  Late(t)' <= MaxLate + 1
  <2>1. \E i \in 1 .. Len(stack[cpu]) : stack[cpu][i] \in {"thread_sleep", "blocked"}
    BY <1>12 DEF Sleepy, On
  <2>2. left[t] > 0 \/ Late(t) <= MaxLate
    BY <1>12, <2>1 DEF TimerInterrupt, Interruptible, Late
  <2>3. CASE left[t] # 0
    <3>1. Late(t)' = 0
      BY <1>8, <1>12, <2>3
    <3> QED BY <3>1, ClockAssumption
  <2>4. CASE left[t] = 0
    <3>1. Late(t) <= MaxLate /\ MaxLate \in Nat /\ Late(t) \in 0 .. TickMod - 1
      BY <1>8, <2>2, <2>4, ClockAssumption
    <3>2. Late(t) < TickMod - 1
      BY <1>5, <1>6, <3>1 DEF Longest
    <3>3. Late(t)' = Late(t) + 1
      BY <1>8, <3>2
    <3> QED BY <3>1, <3>3
  <2> QED BY <2>3, <2>4
<1>13. ASSUME state[cpu] = "BLOCKED" PROVE Sleepy(stack[cpu])
  <2>1. Head(stack[cpu]) \in {"blocked", "scan"}
    BY <1>1, <1>11, <1>13 DEF SleepInv
  <2>2. Head(stack[cpu]) = "blocked"
    BY <1>3, <2>1, OnCpu DEF IInv, LockInv, Running
  <2> QED BY <2>2, OnCpu, OnPop DEF Sleepy
<1>14. ASSUME NEW t \in Linked, t = current
       PROVE  \E P \in SUBSET Threads : Ahead(t, P)' /\ Bounded(t, P)'
  <2>1. Ahead(t, Threads)'
    BY <1>1, <1>3, <1>14 DEF Ahead, Threads
  <2>2. Preempted(t)' \/ Due(t)' => Late(t)' <= MaxLate + 1
    <3>1. t \in Threads /\ t = cpu
      BY <1>3, <1>11, <1>14
    <3>2. Preempted(t)' \/ Due(t)' => Sleepy(stack[t]) /\ left'[t] = 0
      BY <1>9, <1>13, <3>1
    <3> QED BY <1>12, <3>1, <3>2
  <2>3. Preempted(t)' \/ Due(t)' => Late(t)' \in Nat
    <3>1. IInv'
      BY NextIInv DEF Next
    <3>2. t \in Threads
      BY <1>3
    <3>3. (ticks' - wake_at[t]) % TickMod \in 0 .. TickMod - 1
      <4>1. ticks' \in 0 .. TickMod - 1
        BY <3>1 DEF IInv, TypeOK
      <4> QED BY <1>5, <1>7, <3>2, <4>1
    <3> QED BY <1>1, <1>5, <3>3 DEF Late
  <2>4. Bounded(t, Threads)'
    <3>1. Preempted(t)' \/ Due(t)' => Late(t)' + (Many - 1) <= Longest
      BY <1>5, <2>2, <2>3, ClockAssumption DEF Longest
    <3>2. Preempted(t)' \/ Due(t)' => Late(t)' + (Many - 1) <= Longest + Many - 1
      BY <1>5, <2>3, <3>1
    <3>3. Many' = Many /\ Longest' = Longest /\ Turns(Threads)' = Many - 1
      BY <1>3 DEF Longest, Many, Threads
    <3> QED BY <3>1, <3>2, <3>3 DEF Bounded, Threads
  <2> QED BY <2>1, <2>4
<1> QED BY <1>3, <1>1, <1>10, <1>14 DEF LateInv

-----------------------------------------------------------------------------
(* LateInv, step by step: a new thread, a new sleep, and the rest *)

LEMMA LateAdd ==
  ASSUME IInv, MadeInv, LateInv, AddIdle \/ TestAdd
  PROVE  LateInv'
<1>1. /\ made # Null /\ SchedulerAdd(made) /\ UNCHANGED <<current, state, lock, ticks, wake_at, left>>
      /\ stack' = stack \/ Goto("pit_initialize")
  <2>1. CASE AddIdle
    <3>1. "add_idle" \in BootFrames /\ Running("add_idle")
      BY <2>1 DEF AddIdle, BootFrames
    <3> QED BY <2>1, <3>1, InBoot DEF AddIdle
  <2>2. CASE TestAdd
    BY <2>2 DEF TestAdd
  <2> QED BY <2>1, <2>2
<1>2. /\ made \in Threads \ Linked /\ made # current /\ current # Null
      /\ next \in [Threads -> Threads \cup {Null}] /\ current \in Linked
      /\ Linked \subseteq Threads
  BY <1>1, MadeApart DEF IInv, TypeOK, RingInv, Linked
<1>3. /\ ~lock /\ next' = [next EXCEPT ![made] = next[current], ![current] = made]
  BY <1>1 DEF SchedulerAdd
<1>4. Linked' = Linked \cup {made}
  BY <1>1, <1>2, <1>3, Link DEF IInv
<1>5. /\ next'[made] = next[current] /\ next'[current] = made
      /\ \A t \in Threads \ {made, current} : next'[t] = next[t]
  BY <1>2, <1>3
<1>6. ASSUME NEW t \in Threads
      PROVE  /\ Late(t)' = Late(t) /\ (Preempted(t)' => Preempted(t)) /\ (Due(t)' => Due(t))
  <2>1. \A g : On(g, stack'[t]) => On(g, stack[t]) \/ g = "pit_initialize"
    <3>1. "pit_initialize" \in Frames
      BY DEF Frames
    <3>2. CASE stack' = stack
      BY <3>2
    <3>3. CASE Goto("pit_initialize")
      BY <3>1, <3>3, OnAfter
    <3> QED BY <1>1, <3>2, <3>3
  <2> QED BY <1>1, <2>1 DEF Late, Preempted, Due, Sleepy
<1>7. ASSUME NEW t \in Linked, t # current
      PROVE  \E P \in SUBSET Threads : Ahead(t, P)' /\ Bounded(t, P)'
  <2>1. PICK P \in SUBSET Threads : Ahead(t, P) /\ Bounded(t, P)
    BY <1>7 DEF LateInv
  <2>2. /\ t \in P /\ Threads \ Linked \subseteq P /\ next[current] \in P /\ current \notin P
        /\ \A s \in (P \cap Linked) \ {t} : next[s] \in P
    BY <1>3, <2>1 DEF Ahead
  <2>3. ASSUME NEW s \in (P \cap Linked') \ {t} PROVE next'[s] \in P
    <3>1. CASE s = made
      BY <1>5, <2>2, <3>1
    <3>2. CASE s # made
      <4>1. s \in (P \cap Linked) \ {t} /\ s \in Threads \ {made, current}
        BY <1>2, <1>4, <2>2, <2>3, <3>2
      <4> QED BY <1>5, <2>2, <4>1
    <3> QED BY <3>1, <3>2
  <2>4. next'[current'] \in P /\ current' \notin P
    BY <1>1, <1>2, <1>5, <2>2
  <2>5. Ahead(t, P)'
    BY <1>1, <1>3, <1>4, <2>2, <2>3, <2>4 DEF Ahead, Threads
  <2>6. Bounded(t, P)'
    BY <1>1, <1>2, <1>3, <1>6, <1>7, <2>1 DEF Bounded, Turns
  <2> QED BY <2>5, <2>6
<1>8. ASSUME NEW t \in Threads, t = made
      PROVE  \E P \in SUBSET Threads : Ahead(t, P)' /\ Bounded(t, P)'
  <2>1. PICK P \in SUBSET Threads : P = Threads \ Linked
    OBVIOUS
  <2>2. t \in P /\ current \notin P /\ P \cap Linked' = {t}
    BY <1>2, <1>4, <1>8, <2>1
  <2>3. Threads \ Linked' \subseteq P
    BY <1>4, <2>1
  <2>4. Ahead(t, P)'
    <3>1. next'[current'] \in P /\ current' \notin P
      BY <1>1, <1>5, <1>8, <2>2
    <3> QED BY <1>1, <1>3, <2>2, <2>3, <3>1 DEF Ahead, Threads
  <2>5. ~Preempted(t) /\ ~Due(t)
    <3>1. state[t] = "READY" /\ stack[t] = <<"thread_trampoline">>
      BY <1>1, <1>8 DEF MadeInv
    <3>2. \A g : On(g, <<"thread_trampoline">>) => g = "thread_trampoline"
      BY DEF On
    <3> QED BY <3>1, <3>2 DEF Preempted, Due, Sleepy
  <2>6. Bounded(t, P)'
    BY <1>6, <2>5 DEF Bounded
  <2> QED BY <2>4, <2>6
<1>9. ASSUME NEW t \in Threads, t = current, Preempted(t)'
      PROVE  Late(t)' <= Longest'
  <2>1. Preempted(t) /\ Late(t)' = Late(t)
    BY <1>6, <1>9
  <2> QED BY <1>2, <1>3, <1>9, <2>1 DEF LateInv, Longest, Many, Threads
<1>10. Preempted(current)' => (Late(current) <= Longest)'
  <2>1. PICK t \in Threads : t = current
    BY <1>2
  <2>2. (Preempted(current)' <=> Preempted(t)') /\ Late(current)' = Late(t)'
    BY <1>1, <2>1
  <2> QED BY <1>9, <2>1, <2>2
<1>11. ASSUME NEW t \in Linked', t # current'
       PROVE  \E P \in SUBSET Threads : Ahead(t, P)' /\ Bounded(t, P)'
  BY <1>1, <1>2, <1>4, <1>7, <1>8, <1>11
<1> QED BY <1>1, <1>3, <1>10, <1>11 DEF LateInv

(* A sleep that begins is due exactly when its ticks have passed. *)
LEMMA LateSleep ==
  ASSUME IInv, LateInv, FewThreads, Sleep
  PROVE  LateInv'
<1>1. PICK n \in 0 .. MaxSleep :
        /\ wake_at' = [wake_at EXCEPT ![current] = (ticks + n) % TickMod]
        /\ left' = [left EXCEPT ![current] = n]
  BY DEF Sleep
<1>2. /\ InCode /\ Call("thread_sleep") /\ "thread_sleep" \in Frames
      /\ UNCHANGED <<next, current, state, lock, prev, candidate, ticks>>
  BY DEF Sleep, ring, locals, Frames
<1>3. ~lock /\ current = cpu /\ current # Null /\ cpu \in Threads
  <2>1. PICK f \in {"entry", "keyboard_isr"} : Running(f)
    BY <1>2 DEF InCode
  <2>2. f \in Frames \ BootFrames /\ ~Running("scan") /\ ~Running("window")
    BY <2>1 DEF Frames, BootFrames, Running
  <2> QED BY <2>1, <2>2, AfterBoot, OnCpu DEF IInv, LockInv, CpuInv
<1>4. ticks \in 0 .. TickMod - 1 /\ left \in [Threads -> 0 .. MaxSleep]
      /\ wake_at \in [Threads -> 0 .. TickMod - 1] /\ TickMod \in Nat /\ MaxSleep \in Nat
      /\ Many \in Nat /\ Longest \in Nat
  BY ClockAssumption, FewFacts DEF IInv, TypeOK
<1>5. Linked' = Linked /\ Linked \subseteq Threads
  BY <1>2 DEF Linked
<1>6. ASSUME NEW t \in Linked, t # current
      PROVE  \E P \in SUBSET Threads : Ahead(t, P)' /\ Bounded(t, P)'
  <2>1. PICK P \in SUBSET Threads : Ahead(t, P) /\ Bounded(t, P)
    BY <1>6 DEF LateInv
  <2>2. stack'[t] = stack[t] /\ left'[t] = left[t] /\ wake_at'[t] = wake_at[t]
    BY <1>1, <1>2, <1>3, <1>4, <1>5, <1>6, OnAfter
  <2>3. Ahead(t, P)'
    BY <1>2, <1>5, <2>1 DEF Ahead, Threads
  <2>4. Bounded(t, P)'
    BY <1>2, <2>1, <2>2 DEF Bounded, Turns, Late, Preempted, Due, Longest, Many, Threads
  <2> QED BY <2>3, <2>4
<1>7. ASSUME NEW t \in Threads, t = current, Preempted(t)'
      PROVE  (Late(t) <= Longest)'
  <2>1. n = 0 /\ wake_at'[t] = ticks % TickMod
    BY <1>1, <1>4, <1>7 DEF Preempted
  <2>2. \A k \in 0 .. TickMod - 1 : (k - (k % TickMod)) % TickMod = 0
    <3>1. \A k \in 0 .. TickMod - 1 : k % TickMod = k /\ (k - k) % TickMod = 0
      BY <1>4, ModWithin, ModMinus
    <3> QED BY <3>1
  <2>3. Late(t)' = 0
    BY <1>2, <1>4, <2>1, <2>2 DEF Late
  <2> QED BY <1>4, <2>3 DEF Longest, Many, Threads
<1>8. (Preempted(current) => Late(current) <= Longest)'
  <2>1. PICK t \in Threads : t = current
    BY <1>3
  <2>2. (Preempted(current)' <=> Preempted(t)') /\ Late(current)' = Late(t)'
    BY <1>2, <2>1
  <2> QED BY <1>7, <2>1, <2>2
<1> QED BY <1>2, <1>3, <1>5, <1>6, <1>8 DEF LateInv

LEMMA LateInit ==
  ASSUME IInv, InitCurrent
  PROVE  LateInv'
<1>1. /\ Running("scheduler_initialize") /\ current' = Boot /\ ~lock'
      /\ next' = [next EXCEPT ![Boot] = Boot] /\ Goto("create_idle")
  BY DEF InitCurrent
<1>2. /\ "scheduler_initialize" \in BootFrames /\ "create_idle" \in Frames
      /\ Head(stack[cpu]) = "scheduler_initialize"
  BY <1>1 DEF BootFrames, Frames, Running
<1>3. current = Null /\ cpu = Boot /\ Boot \in Threads /\ Linked = {}
  BY <1>1, <1>2, InBoot DEF IInv, RingInv
<1>4. ASSUME NEW t \in Linked' PROVE t = Boot
  <2>1. next \in [Threads -> Threads \cup {Null}] /\ t \in Threads /\ next'[t] # Null
    BY <1>4 DEF IInv, TypeOK, Linked
  <2>2. t # Boot => next[t] # Null
    BY <1>1, <2>1
  <2>3. t # Boot => t \in Linked
    BY <2>1, <2>2 DEF Linked
  <2> QED BY <1>3, <2>3
<1>5. ~Preempted(current)'
  <2>2. \A g : On(g, stack[cpu]) => g = "scheduler_initialize"
    BY <1>3, AloneAwake
  <2>3. \A g : On(g, stack'[cpu]) => On(g, stack[cpu]) \/ g = "create_idle"
    BY <1>1, <1>2, <1>3, OnAfter
  <2>4. ~Sleepy(stack'[cpu])
    BY <2>2, <2>3 DEF Sleepy
  <2> QED BY <1>1, <1>3, <2>4 DEF Preempted
<1> QED BY <1>1, <1>4, <1>5 DEF LateInv

LEMMA LateCreate ==
  ASSUME IInv, LateInv, CreateIdle \/ TestCreate
  PROVE  LateInv'
<1>1. /\ current # Null /\ made = Null
      /\ UNCHANGED <<current, wake_at, lock, prev, candidate, cpu, ticks, left>>
      /\ \E w \in Threads : \/ ThreadCreate(w, stack[cpu])
                            \/ ThreadCreate(w, <<"add_idle">> \o Below)
  <2>1. CASE CreateIdle
    <3>1. Running("create_idle") /\ "create_idle" \in BootFrames /\ Idle \in Threads
      BY <2>1 DEF CreateIdle, BootFrames, Threads
    <3> QED BY <2>1, <3>1, InBoot DEF CreateIdle, locals
  <2>2. CASE TestCreate
    BY <2>2, InCommand DEF TestCreate, locals, Threads
  <2> QED BY <2>1, <2>2
<1>2. PICK w \in Threads : \/ ThreadCreate(w, stack[cpu])
                           \/ ThreadCreate(w, <<"add_idle">> \o Below)
  BY <1>1
<1>3. PICK s : s \in {stack[cpu], <<"add_idle">> \o Below} /\ ThreadCreate(w, s)
  BY <1>2
<1>4. w \notin Linked /\ w # cpu
  BY <1>1, <1>3, CreateKeepsRing
<1>5. /\ state' = [state EXCEPT ![w] = "READY"] /\ next' = [next EXCEPT ![w] = Null]
      /\ stack' = [stack EXCEPT ![w] = <<"thread_trampoline">>, ![cpu] = s]
  BY <1>3 DEF ThreadCreate
<1>6. next' = next
  BY <1>4, <1>5 DEF IInv, TypeOK, Linked
<1>7. /\ \A g : On(g, s) => On(g, stack[cpu]) \/ g = "add_idle"
      /\ \A g : On(g, <<"thread_trampoline">>) => g = "thread_trampoline"
  <2>1. "add_idle" \in Frames
    BY DEF Frames
  <2>2. \A g : On(g, <<"add_idle">> \o Below) <=> g = "add_idle" \/ On(g, Below)
    BY <2>1, OnCpu, OnPush
  <2>3. \A g : On(g, stack[cpu]) <=> g = Head(stack[cpu]) \/ On(g, Below)
    BY OnCpu, OnPop DEF Below
  <2>4. \A g : On(g, <<"thread_trampoline">>) => g = "thread_trampoline"
    BY DEF On
  <2> QED BY <1>3, <2>2, <2>3, <2>4
<1>8. ASSUME NEW t \in Threads PROVE Sleepy(stack'[t]) => Sleepy(stack[t])
  <2>1. stack'[t] = IF t = cpu THEN s ELSE IF t = w THEN <<"thread_trampoline">> ELSE stack[t]
    BY <1>4, <1>5, OnCpu
  <2> QED BY <1>7, <2>1 DEF Sleepy
<1>9. \A t \in Threads : state'[t] = "BLOCKED" => state[t] = "BLOCKED"
  BY <1>5 DEF IInv, TypeOK
<1>10. current \in Threads
  BY <1>1 DEF IInv, TypeOK
<1> QED BY <1>1, <1>6, <1>8, <1>9, <1>10, LateSame

(* Steps that only change the running stack, and put no sleep on it. *)
LEMMA LateElsewhere ==
  ASSUME IInv, LateInv, UNCHANGED <<next, current, lock, ticks, wake_at, left>>,
         lock => UNCHANGED <<prev, candidate>>,
         NEW f \in Frames, Goto(f) \/ Call(f) \/ Return,
         f \in {"thread_sleep", "blocked"} => Sleepy(stack[cpu]),
         \A t \in Threads : state'[t] = "BLOCKED" => state[t] = "BLOCKED" \/ (t = current /\ ~lock)
  PROVE  LateInv'
<1>1. /\ \A t \in Threads : \A g : On(g, stack'[t]) => On(g, stack[t]) \/ g = f
      /\ \A t \in Threads \ {cpu} : stack'[t] = stack[t]
  BY OnAfter
<1>2. ASSUME NEW t \in Threads, Sleepy(stack'[t]) PROVE Sleepy(stack[t])
  <2>1. CASE t = cpu
    <3>1. \/ On("thread_sleep", stack[t]) \/ On("blocked", stack[t])
          \/ f \in {"thread_sleep", "blocked"}
      BY <1>1, <1>2 DEF Sleepy
    <3> QED BY <2>1, <3>1 DEF Sleepy
  <2>2. CASE t # cpu
    BY <1>1, <1>2, <2>2
  <2> QED BY <2>1, <2>2
<1>3. current # Null => current \in Threads
  BY DEF IInv, TypeOK
<1> QED BY <1>2, <1>3, LateSame

LEMMA LateKeeps ==
  ASSUME IInv, SInv, MadeInv, LateInv, FewThreads, ~untimely', [Next]_vars
  PROVE  LateInv'
<1> USE DEF SInv
<1>0. state \in [Threads -> States] /\ (current # Null => current \in Threads)
  BY DEF IInv, TypeOK
<1>1. CASE ScanReap
  BY <1>1, LateReap
<1>2. CASE ScanSkip
  BY <1>2, LateSkip
<1>3. CASE ScanPick
  BY <1>3, LatePick
<1>4. CASE ScanNone
  BY <1>4, LateNone
<1>5. CASE CallYield \/ ExitYield \/ SleepYield
  BY <1>5, LateYields
<1>6. CASE TimerInterrupt
  BY <1>6, LateTick
<1>7. CASE AddIdle \/ TestAdd
  BY <1>7, LateAdd
<1>8. CASE Sleep
  BY <1>8, LateSleep
<1>9. CASE InitCurrent
  BY <1>9, LateInit
<1>10. CASE CreateIdle \/ TestCreate
  BY <1>10, LateCreate
<1>11. CASE Block
  <2>1. /\ Running("thread_sleep") /\ Goto("blocked") /\ "blocked" \in Frames
        /\ state' = [state EXCEPT ![cpu] = "BLOCKED"]
        /\ UNCHANGED <<next, current, lock, ticks, wake_at, left, prev, candidate>>
    BY <1>11 DEF Block, ring, locals, Frames
  <2>2. Head(stack[cpu]) = "thread_sleep" /\ "thread_sleep" \in Frames \ BootFrames
        /\ ~Running("scan") /\ ~Running("window")
    BY <2>1 DEF Running, Frames, BootFrames
  <2>3. current = cpu /\ ~lock
    BY <2>1, <2>2, AfterBoot DEF IInv, CpuInv, LockInv
  <2>4. Sleepy(stack[cpu])
    BY <2>2, OnCpu, OnPop DEF Sleepy
  <2>5. \A t \in Threads : state'[t] = "BLOCKED" => state[t] = "BLOCKED" \/ (t = current /\ ~lock)
    BY <1>0, <2>1, <2>3
  <2> QED BY <2>1, <2>4, <2>5, LateElsewhere
<1>12. CASE EntryReturn
  <2>1. /\ Goto("exit") /\ "exit" \in Frames /\ "exit" \notin {"thread_sleep", "blocked"}
        /\ state' = [state EXCEPT ![current] = "TERMINATED"]
        /\ UNCHANGED <<next, current, lock, ticks, wake_at, left, prev, candidate>>
    BY <1>12 DEF EntryReturn, ring, locals, Frames
  <2>2. \A t \in Threads : state'[t] = "BLOCKED" => state[t] = "BLOCKED"
    BY <1>0, <2>1
  <2> QED BY <2>1, <2>2, LateElsewhere
<1>13. CASE StartTimer \/ ContextSwitch \/ ReturnFromSwitch \/ StartThread \/ Iret
            \/ SleepReturn \/ KeyboardReturn \/ KeyboardInterrupt
  <2>1. PICK f \in Frames \ {"thread_sleep", "blocked"} : Goto(f) \/ Call(f) \/ Return
    BY <1>13 DEF StartTimer, ContextSwitch, ReturnFromSwitch, StartThread, Iret, SleepReturn,
       KeyboardReturn, KeyboardInterrupt, Frames
  <2>2. UNCHANGED <<next, current, lock, ticks, wake_at, left, prev, candidate, state>>
    BY <1>13 DEF StartTimer, ContextSwitch, ReturnFromSwitch, StartThread, Iret, SleepReturn,
       KeyboardReturn, KeyboardInterrupt, ring, locals
  <2> QED BY <2>1, <2>2, LateElsewhere
<1>14. CASE TestDestroy
  <2>1. /\ state' = [state EXCEPT ![made] = "FREE"] /\ stack' = [stack EXCEPT ![made] = <<>>]
        /\ UNCHANGED <<next, current, lock, ticks, wake_at, left, prev, candidate>>
    BY <1>14 DEF TestDestroy, ThreadDestroy, ring, locals
  <2>2. \A g : ~On(g, <<>>)
    BY DEF On
  <2>3. ASSUME NEW t \in Threads
        PROVE  /\ Sleepy(stack'[t]) => Sleepy(stack[t])
               /\ state'[t] = "BLOCKED" => state[t] = "BLOCKED"
    BY <1>0, <2>1, <2>2, OnCpu DEF Sleepy
  <2> QED BY <1>0, <2>1, <2>3, LateSame
<1>15. CASE TestSti \/ UNCHANGED vars
  <2>1. UNCHANGED <<next, current, lock, ticks, wake_at, left, prev, candidate, state, stack>>
    BY <1>15 DEF TestSti, vars, ring, locals
  <2> QED BY <1>0, <2>1, LateSame
<1> QED
  BY <1>1, <1>2, <1>3, <1>4, <1>5, <1>6, <1>7, <1>8, <1>9, <1>10, <1>11, <1>12, <1>13,
     <1>14, <1>15 DEF Next, CodeStep, BootStep, Scan, Command

LEMMA InitLate ==
  ASSUME Init
  PROVE  MadeInv /\ LateInv
<1>1. made = Null /\ current = Null /\ \A t \in Threads : next[t] = Null
  BY DEF Init
<1> QED BY <1>1 DEF MadeInv, LateInv, Linked

(* Until an interrupt comes untimely, and with fewer threads than a        *)
(* quarter of the counter's range, scheduler_yield tells exactly the       *)
(* sleepers that are due from the others, across every wrap of pit_ticks:  *)
(* each tick gives the CPU to one of those ahead of the sleeper, so its    *)
(* turn comes before half a wrap has passed.                               *)
THEOREM WakeIsExact ==
  ASSUME FewThreads
  PROVE  Spec => []WakeExact
<1> DEFINE LInv == ~untimely => MadeInv /\ LateInv
<1>1. Init => LInv
  BY InitLate
<1>2. ASSUME IInv, SInv, MadeInv, LateInv, ~untimely', [Next]_vars
      PROVE  (MadeInv /\ LateInv)'
  BY <1>2, MadeKeeps, LateKeeps
<1>3. (~untimely => IInv /\ SInv) /\ LInv /\ [Next]_vars => LInv'
  BY <1>2, UntimelyStays
<1>4. (~untimely => IInv /\ SInv) /\ LInv => WakeExact
  BY ExactWake DEF SInv, WakeExact
<1> QED BY <1>1, <1>3, <1>4, SleepInductive, PTL DEF Spec
=============================================================================
