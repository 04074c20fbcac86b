----------------------------- MODULE Scheduler -----------------------------
(***************************************************************************)
(* The threads of XenonOS on its single CPU: the circular thread list and  *)
(* scheduler_yield (tasks/scheduler.c), thread creation, sleep, exit and   *)
(* destruction (tasks/thread.c), the stack switch (context_switch.asm),    *)
(* the spinlock that masks interrupts (tasks/spinlock.c), the timer and    *)
(* keyboard interrupts (cpu/interrupts.asm, interrupts.c) and the order in *)
(* which kmain starts them (kernel.c).                                     *)
(*                                                                         *)
(* One step is a piece of code that no interrupt can split.  What a thread *)
(* is in the middle of is the sequence of frames on its stack, innermost   *)
(* first; the CPU executes the head frame of stack[cpu].                   *)
(***************************************************************************)
EXTENDS Integers, Sequences

CONSTANTS
  Boot,           \* boot_thread: the context of kmain
  Idle,           \* the thread that runs idle_loop
  Workers,        \* headers the thread pool can hand out to other threads
  Null,           \* the null thread_t pointer, also "no CPU stack": halted
  TickMod,        \* pit_ticks wraps at TickMod (2^32 in the code)
  MaxSleep,       \* bound: longest sleep, in ticks
  MaxFrames,      \* bound: frames on a stack when an interrupt is accepted
  MaxLate         \* bound: how late in thread_sleep an interrupt is accepted

Threads == {Boot, Idle} \cup Workers

ASSUME ThreadsAssumption ==
  /\ Boot # Idle /\ {Boot, Idle} \cap Workers = {}
  /\ Null \notin Threads
ASSUME ClockAssumption ==
  /\ TickMod \in Nat \ {0, 1}
  /\ MaxSleep \in Nat /\ MaxFrames \in Nat /\ MaxLate \in Nat
(* thread_sleep computes its ticks as (ms * 100 + 999) / 1000 in 32 bits:  *)
(* no sleep is as long as half a wrap of the counter.                      *)
ASSUME SleepAssumption == MaxSleep <= TickMod \div 2

VARIABLES
  current,    \* scheduler.c: the thread that is supposed to run
  next,       \* thread_t.next
  state,      \* thread_t.state; "FREE": the header is in the pool
  wake_at,    \* thread_t.wake_at
  esp,        \* thread_t.esp: the stack whose saved context it points to
  lock,       \* scheduler_lock.locked
  flags,      \* scheduler_yield's local: IF from before, FALSE outside of the scan
  prev,       \* scheduler_yield's local, Null outside of the scan
  candidate,  \* scheduler_yield's local, Null outside of the scan
  old,        \* scheduler_yield's local, one for each window on a stack
  cpu,        \* the stack ESP is on, Null once the machine has halted
  eif,        \* EFLAGS.IF
  stack,      \* frames of each thread, innermost first, <<>> when unmapped
  ticks,      \* pit_ticks
  irq1,       \* the PIC holds IRQ1 in service: no keyboard interrupt
  made,       \* local of the code that calls thread_create: its result
  left,       \* history: ticks still to come before a sleeper may return
  untimely    \* history: an interrupt came where the code has no answer to it

ring    == <<current, next>>
locals  == <<flags, prev, candidate>>
signals == <<irq1, untimely>>
vars == <<current, next, state, wake_at, esp, lock, flags, prev, candidate,
          old, cpu, eif, stack, ticks, irq1, made, left, untimely>>

Frames == {"scheduler_initialize", "create_idle", "add_idle", "pit_initialize",
           "kmain", "idle_loop", "thread_trampoline", "entry", "exit",
           "thread_sleep", "blocked", "slept", "timer_isr", "keyboard_isr",
           "scan", "window", "context_switch"}
States == {"FREE", "RUNNING", "READY", "BLOCKED", "TERMINATED"}

TypeOK ==
  /\ current \in Threads \cup {Null}
  /\ next \in [Threads -> Threads \cup {Null}]
  /\ state \in [Threads -> States]
  /\ wake_at \in [Threads -> 0 .. TickMod - 1]
  /\ esp \in [Threads -> Threads \cup {Null}]
  /\ lock \in BOOLEAN /\ flags \in BOOLEAN /\ eif \in BOOLEAN
  /\ {prev, candidate, cpu, made} \subseteq Threads \cup {Null}
  /\ old \in [Threads -> Seq(Threads)]
  /\ stack \in [Threads -> Seq(Frames)]
  /\ ticks \in 0 .. TickMod - 1
  /\ irq1 \in BOOLEAN /\ untimely \in BOOLEAN
  /\ left \in [Threads -> 0 .. MaxSleep]

(***************************************************************************)
(* The machine after interrupts_initialize: interrupts are on, the kernel  *)
(* data is zero, kmain has the scheduler still to initialize.              *)
(***************************************************************************)
Init ==
  /\ current = Null
  /\ next = [t \in Threads |-> Null]
  /\ state = [t \in Threads |-> IF t = Boot THEN "RUNNING" ELSE "FREE"]
  /\ wake_at = [t \in Threads |-> 0]
  /\ esp = [t \in Threads |-> Null]
  /\ lock = FALSE /\ flags = FALSE
  /\ prev = Null /\ candidate = Null /\ old = [t \in Threads |-> <<>>]
  /\ cpu = Boot /\ eif = TRUE
  /\ stack = [t \in Threads |->
               IF t = Boot THEN <<"scheduler_initialize">> ELSE <<>>]
  /\ ticks = 0 /\ irq1 = FALSE /\ untimely = FALSE
  /\ made = Null
  /\ left = [t \in Threads |-> 0]

-----------------------------------------------------------------------------
(* Frames of the running stack *)

Running(f) == cpu # Null /\ stack[cpu] # <<>> /\ Head(stack[cpu]) = f
Below == Tail(stack[cpu])
Goto(f) == stack' = [stack EXCEPT ![cpu] = <<f>> \o Below]
Call(f) == stack' = [stack EXCEPT ![cpu] = <<f>> \o @]
Return == stack' = [stack EXCEPT ![cpu] = Below]

(* Definitions named ...Bug are their successors with a plausible mistake. *)

AsleepUnsignedBug(t) == state[t] = "BLOCKED" /\ ticks < wake_at[t]
AsleepForeverBug(t) == state[t] = "BLOCKED"

(* (int32_t)(pit_get_ticks() - wake_at) < 0 *)
Asleep(t) ==
  /\ state[t] = "BLOCKED"
  /\ (ticks - wake_at[t]) % TickMod >= (TickMod + 1) \div 2

-----------------------------------------------------------------------------
(* thread.c *)

(* thread_create_sized: a header from the pool, and a stack whose first    *)
(* context switch "returns" into thread_trampoline.  The frames of the     *)
(* running stack become `frames`.                                          *)
ThreadCreate(t, frames) ==
  /\ state[t] = "FREE"
  /\ state' = [state EXCEPT ![t] = "READY"]
  /\ next' = [next EXCEPT ![t] = Null]
  /\ esp' = [esp EXCEPT ![t] = t]
  /\ stack' = [stack EXCEPT ![t] = <<"thread_trampoline">>, ![cpu] = frames]
  /\ made' = t

(* thread_destroy: the stack is unmapped and the header goes back to the   *)
(* pool.  A CPU whose own stack disappears double-faults into the task     *)
(* gate of tss.c, which halts.                                             *)
ThreadDestroy(t) ==
  /\ state' = [state EXCEPT ![t] = "FREE"]
  /\ stack' = [stack EXCEPT ![t] = <<>>]
  /\ esp' = [esp EXCEPT ![t] = Null]
  /\ cpu' = IF cpu = t THEN Null ELSE cpu

SchedulerAddOrderBug(t) ==
  /\ ~lock
  /\ next' = [next EXCEPT ![current] = t, ![t] = t]

(* scheduler_add: link the thread right behind the current one. *)
SchedulerAdd(t) ==
  /\ ~lock
  /\ next' = [next EXCEPT ![t] = next[current], ![current] = t]

-----------------------------------------------------------------------------
(* scheduler.c: scheduler_yield *)

EnterYieldFromHeadBug(frames, saved) ==
  /\ ~lock /\ lock' = TRUE
  /\ flags' = saved
  /\ eif' = FALSE
  /\ prev' = Boot
  /\ candidate' = next[Boot]
  /\ stack' = [stack EXCEPT ![cpu] = <<"scan">> \o frames]

EnterYieldOvertakesBug(frames, saved) ==
  /\ ~lock /\ lock' = TRUE
  /\ flags' = saved
  /\ eif' = FALSE
  /\ prev' = next[current]
  /\ candidate' = next[next[current]]
  /\ stack' = [stack EXCEPT ![cpu] = <<"scan">> \o frames]

(* spinlock_acquire and the two assignments before the loop; `frames` are  *)
(* those of the caller and `saved` the IF bit it runs with.  On one CPU a  *)
(* taken lock would be spun on forever with interrupts off.                *)
EnterYield(frames, saved) ==
  /\ ~lock /\ lock' = TRUE
  /\ flags' = saved
  /\ eif' = FALSE
  /\ prev' = current
  /\ candidate' = next[current]
  /\ stack' = [stack EXCEPT ![cpu] = <<"scan">> \o frames]

(* One turn of the loop on a terminated thread: unlink and destroy it. *)
ScanReap ==
  /\ Running("scan") /\ candidate # current
  /\ state[candidate] = "TERMINATED"
  /\ candidate' = next[candidate]
  /\ next' = [next EXCEPT ![prev] = next[candidate], ![candidate] = Null]
  /\ ThreadDestroy(candidate)
  /\ UNCHANGED <<current, wake_at, lock, flags, prev, old, eif, ticks,
                 signals, made, left>>

ScanSkipTerminatedBug ==
  /\ Running("scan") /\ candidate # current
  /\ Asleep(candidate) \/ state[candidate] = "TERMINATED"
  /\ prev' = candidate
  /\ candidate' = next[candidate]
  /\ UNCHANGED <<ring, state, wake_at, esp, lock, flags, old, cpu, eif,
                 stack, ticks, signals, made, left>>

(* One turn of the loop on a thread that is still asleep: skip it. *)
ScanSkip ==
  /\ Running("scan") /\ candidate # current
  /\ Asleep(candidate)
  /\ prev' = candidate
  /\ candidate' = next[candidate]
  /\ UNCHANGED <<ring, state, wake_at, esp, lock, flags, old, cpu, eif,
                 stack, ticks, signals, made, left>>

(* The candidate was found: it becomes current and spinlock_release        *)
(* restores IF, all before the stacks are switched.                        *)
ScanPick ==
  /\ Running("scan") /\ candidate # current
  /\ state[candidate] # "TERMINATED" /\ ~Asleep(candidate)
  /\ state' = [state EXCEPT ![candidate] = IF @ = "BLOCKED" THEN "READY" ELSE @]
  /\ old' = [old EXCEPT ![cpu] = <<current>> \o @]
  /\ current' = candidate
  /\ lock' = FALSE /\ eif' = flags
  /\ Goto("window")
  /\ prev' = Null /\ candidate' = Null /\ flags' = FALSE
  /\ UNCHANGED <<next, wake_at, esp, cpu, ticks, signals, made, left>>

ScanNoneKeepsLockBug ==
  /\ Running("scan") /\ candidate = current
  /\ eif' = flags
  /\ Return
  /\ prev' = Null /\ candidate' = Null /\ flags' = FALSE
  /\ UNCHANGED <<ring, state, wake_at, esp, lock, old, cpu, ticks, signals,
                 made, left>>

(* Nobody else can run: release the lock and return to the caller. *)
ScanNone ==
  /\ Running("scan") /\ candidate = current
  /\ lock' = FALSE /\ eif' = flags
  /\ Return
  /\ prev' = Null /\ candidate' = Null /\ flags' = FALSE
  /\ UNCHANGED <<ring, state, wake_at, esp, old, cpu, ticks, signals,
                 made, left>>

(* What context_switch finds on a stack it can resume. *)
Suspended(s) ==
  /\ s # Null /\ stack[s] # <<>>
  /\ Head(stack[s]) \in {"context_switch", "thread_trampoline"}

ContextSwitchSavesWrongBug ==
  /\ Running("window")
  /\ esp' = [esp EXCEPT ![current] = cpu]
  /\ old' = [old EXCEPT ![cpu] = Tail(@)]
  /\ Goto("context_switch")
  /\ cpu' = IF Suspended(esp[current]) THEN esp[current] ELSE Null
  /\ UNCHANGED <<ring, state, wake_at, lock, locals, eif, ticks, signals,
                 made, left>>

(* context_switch(&old->esp, current->esp): what is saved is the context   *)
(* of the stack the CPU is on.  Loading an esp under which no context was  *)
(* saved (or only one that is not valid any more) loses the machine.       *)
ContextSwitch ==
  /\ Running("window")
  /\ esp' = [esp EXCEPT ![Head(old[cpu])] = cpu]
  /\ old' = [old EXCEPT ![cpu] = Tail(@)]
  /\ Goto("context_switch")
  /\ cpu' = IF current # Head(old[cpu]) /\ Suspended(esp[current])
            THEN esp[current] ELSE Null
  /\ UNCHANGED <<ring, state, wake_at, lock, locals, eif, ticks, signals,
                 made, left>>

(* context_switch returns on the new stack, and scheduler_yield with it. *)
ReturnFromSwitch ==
  /\ Running("context_switch")
  /\ Return
  /\ UNCHANGED <<ring, state, wake_at, esp, lock, locals, old, cpu, eif,
                 ticks, signals, made, left>>

-----------------------------------------------------------------------------
(* thread.c: the life of a thread *)

StartThreadNoStiBug ==
  /\ Running("thread_trampoline")
  /\ Goto(IF cpu = Idle THEN "idle_loop" ELSE "entry")
  /\ UNCHANGED <<ring, state, wake_at, esp, lock, locals, old, cpu, eif,
                 ticks, signals, made, left>>

(* thread_trampoline: sti, then the thread's own entry point. *)
StartThread ==
  /\ Running("thread_trampoline")
  /\ eif' = TRUE
  /\ Goto(IF cpu = Idle THEN "idle_loop" ELSE "entry")
  /\ UNCHANGED <<ring, state, wake_at, esp, lock, locals, old, cpu, ticks,
                 signals, made, left>>

(* Code that may call into the scheduler: a thread's entry point and the   *)
(* shell commands keyboard_isr runs on whatever stack it interrupted.      *)
InCode == Running("entry") \/ Running("keyboard_isr")

(* scheduler_yield called from a thread or a command. *)
CallYield ==
  /\ InCode
  /\ EnterYield(stack[cpu], eif)
  /\ UNCHANGED <<ring, state, wake_at, esp, old, cpu, ticks, signals, made,
                 left>>

SleepRoundsDownBug ==
  /\ InCode
  /\ \E n \in 0 .. MaxSleep :
       /\ wake_at' = [wake_at EXCEPT
                        ![current] = (ticks + (IF n = 0 THEN 0 ELSE n - 1)) % TickMod]
       /\ left' = [left EXCEPT ![current] = n]
  /\ Call("thread_sleep")
  /\ UNCHANGED <<ring, state, esp, lock, locals, old, cpu, eif, ticks,
                 signals, made>>

SleepNoWrapBug ==
  /\ InCode
  /\ \E n \in 0 .. MaxSleep :
       /\ wake_at' = [wake_at EXCEPT ![current] = ticks + n]
       /\ left' = [left EXCEPT ![current] = n]
  /\ Call("thread_sleep")
  /\ UNCHANGED <<ring, state, esp, lock, locals, old, cpu, eif, ticks,
                 signals, made>>

(* thread_sleep up to the assignment of wake_at. *)
Sleep ==
  /\ InCode
  /\ \E n \in 0 .. MaxSleep :
       /\ wake_at' = [wake_at EXCEPT ![current] = (ticks + n) % TickMod]
       /\ left' = [left EXCEPT ![current] = n]
  /\ Call("thread_sleep")
  /\ UNCHANGED <<ring, state, esp, lock, locals, old, cpu, eif, ticks,
                 signals, made>>

(* thread_sleep: current->state = THREAD_BLOCKED. *)
Block ==
  /\ Running("thread_sleep")
  /\ state' = [state EXCEPT ![cpu] = "BLOCKED"]
  /\ Goto("blocked")
  /\ UNCHANGED <<ring, wake_at, esp, lock, locals, old, cpu, eif, ticks,
                 signals, made, left>>

(* thread_sleep: its scheduler_yield. *)
SleepYield ==
  /\ Running("blocked")
  /\ EnterYield(<<"slept">> \o Below, eif)
  /\ UNCHANGED <<ring, state, wake_at, esp, old, cpu, ticks, signals, made,
                 left>>

(* thread_sleep returns to its caller. *)
SleepReturn ==
  /\ Running("slept")
  /\ Return
  /\ UNCHANGED <<ring, state, wake_at, esp, lock, locals, old, cpu, eif,
                 ticks, signals, made, left>>

EntryReturnFreesItselfBug ==
  /\ Running("entry")
  /\ ThreadDestroy(current)
  /\ UNCHANGED <<ring, wake_at, lock, locals, old, eif, ticks, signals, made,
                 left>>

(* The entry point returns to thread_trampoline ... *)
EntryReturn ==
  /\ Running("entry")
  /\ state' = [state EXCEPT ![current] = "TERMINATED"]
  /\ Goto("exit")
  /\ UNCHANGED <<ring, wake_at, esp, lock, locals, old, cpu, eif, ticks,
                 signals, made, left>>

(* ... which parks the thread in its loop of yields. *)
ExitYield ==
  /\ Running("exit")
  /\ EnterYield(stack[cpu], eif)
  /\ UNCHANGED <<ring, state, wake_at, esp, old, cpu, ticks, signals, made,
                 left>>

-----------------------------------------------------------------------------
(* kernel.c: what kmain still has to do *)

(* scheduler_initialize up to spinlock_initialize. *)
InitCurrent ==
  /\ Running("scheduler_initialize")
  /\ current' = Boot
  /\ next' = [next EXCEPT ![Boot] = Boot]
  /\ state' = [state EXCEPT ![Boot] = "RUNNING"]
  /\ lock' = FALSE
  /\ Goto("create_idle")
  /\ UNCHANGED <<wake_at, esp, locals, old, cpu, eif, ticks, signals, made,
                 left>>

(* thread_create_sized(idle_loop, 1) *)
CreateIdle ==
  /\ Running("create_idle")
  /\ ThreadCreate(Idle, <<"add_idle">> \o Below)
  /\ UNCHANGED <<current, wake_at, lock, locals, old, cpu, eif, ticks,
                 signals, left>>

AddIdleForgottenBug ==
  /\ Running("add_idle")
  /\ made' = Null
  /\ Goto("pit_initialize")
  /\ UNCHANGED <<ring, state, wake_at, esp, lock, locals, old, cpu, eif,
                 ticks, signals, left>>

(* scheduler_add(idle_thread) *)
AddIdle ==
  /\ Running("add_idle")
  /\ SchedulerAdd(made)
  /\ made' = Null
  /\ Goto("pit_initialize")
  /\ UNCHANGED <<current, state, wake_at, esp, lock, locals, old, cpu, eif,
                 ticks, signals, left>>

(* pit_initialize, then kmain halts until an interrupt comes. *)
StartTimer ==
  /\ Running("pit_initialize")
  /\ Goto("kmain")
  /\ UNCHANGED <<ring, state, wake_at, esp, lock, locals, old, cpu, eif,
                 ticks, signals, made, left>>

-----------------------------------------------------------------------------
(* interrupts.asm, interrupts.c *)

(* An interrupt gate can be entered.  Bounds: MaxFrames, and since half a  *)
(* wrap of the counter (248 days) may be a few ticks here, a thread whose  *)
(* wake_at passed before it had blocked is interrupted there once more     *)
(* only while it is no more than MaxLate ticks late.                       *)
Interruptible ==
  /\ cpu # Null /\ eif
  /\ stack[cpu] # <<>> /\ Len(stack[cpu]) < MaxFrames
  /\ (\E i \in 1 .. Len(stack[cpu]) :
        stack[cpu][i] \in {"thread_sleep", "blocked"})
       => left[cpu] > 0 \/ (ticks - wake_at[cpu]) % TickMod <= MaxLate

(* The two places where nothing keeps an interrupt out that the code is    *)
(* not made for: before scheduler_initialize, and in the window between    *)
(* the release of the scheduler lock and the switch of stacks.             *)
Untimely == current = Null \/ Running("window")

(* timer_isr: the PIC is told first, pit_tick, scheduler_yield.  The timer *)
(* ticks from power on, at the firmware's rate before pit_initialize, and  *)
(* is not masked.  Before scheduler_initialize `current` is a null pointer *)
(* and scheduler_yield follows what it finds at address 0.                 *)
TimerInterrupt ==
  /\ Interruptible
  /\ untimely' = (untimely \/ Untimely)
  /\ ticks' = (ticks + 1) % TickMod
  /\ left' = [t \in Threads |-> IF left[t] = 0 THEN 0 ELSE left[t] - 1]
  /\ IF current = Null
     THEN /\ cpu' = Null
          /\ UNCHANGED <<lock, locals, eif, stack>>
     ELSE /\ EnterYield(<<"timer_isr">> \o stack[cpu], FALSE)
          /\ cpu' = cpu
  /\ UNCHANGED <<ring, state, wake_at, esp, old, irq1, made>>

(* timer_isr: popa, iretd. *)
Iret ==
  /\ Running("timer_isr")
  /\ eif' = TRUE
  /\ Return
  /\ UNCHANGED <<ring, state, wake_at, esp, lock, locals, old, cpu, ticks,
                 signals, made, left>>

(* Environment: the user enters a command only after the boot and once the *)
(* threads of the last command are gone.                                   *)
Quiet ==
  /\ stack[Boot][Len(stack[Boot])] = "kmain"
  /\ \A w \in Workers : state[w] = "FREE"

(* keyboard_isr for the key that completes the `test` command.  A key that *)
(* only edits the line changes nothing here.                               *)
KeyboardInterrupt ==
  /\ Interruptible /\ ~irq1 /\ Quiet
  /\ irq1' = TRUE
  /\ untimely' = (untimely \/ Untimely)
  /\ eif' = FALSE
  /\ Call("keyboard_isr")
  /\ UNCHANGED <<ring, state, wake_at, esp, lock, locals, old, cpu, ticks,
                 made, left>>

(* test_spinlock: the sti that stays in force for the tests behind it. *)
TestSti ==
  /\ Running("keyboard_isr") /\ ~eif
  /\ eif' = TRUE
  /\ UNCHANGED <<ring, state, wake_at, esp, lock, locals, old, cpu, stack,
                 ticks, signals, made, left>>

(* test_thread: thread_create ... *)
TestCreate ==
  /\ Running("keyboard_isr") /\ made = Null
  /\ \E w \in Workers : ThreadCreate(w, stack[cpu])
  /\ UNCHANGED <<current, wake_at, lock, locals, old, cpu, eif, ticks,
                 signals, left>>

(* ... and then scheduler_add, or ... *)
TestAdd ==
  /\ Running("keyboard_isr") /\ made # Null
  /\ SchedulerAdd(made)
  /\ made' = Null
  /\ UNCHANGED <<current, state, wake_at, esp, lock, locals, old, cpu, eif,
                 stack, ticks, signals, left>>

(* ... thread_destroy of the thread that was never added. *)
TestDestroy ==
  /\ Running("keyboard_isr") /\ made # Null
  /\ ThreadDestroy(made)
  /\ made' = Null
  /\ UNCHANGED <<ring, wake_at, lock, locals, old, eif, ticks, signals, left>>

KeyboardReturnNoEoiBug ==
  /\ Running("keyboard_isr") /\ made = Null
  /\ eif' = TRUE
  /\ Return
  /\ UNCHANGED <<ring, state, wake_at, esp, lock, locals, old, cpu, ticks,
                 signals, made, left>>

(* keyboard_isr after keyboard_handler: EOI, popa, iretd. *)
KeyboardReturn ==
  /\ Running("keyboard_isr") /\ made = Null
  /\ irq1' = FALSE
  /\ eif' = TRUE
  /\ Return
  /\ UNCHANGED <<ring, state, wake_at, esp, lock, locals, old, cpu, ticks,
                 untimely, made, left>>

-----------------------------------------------------------------------------
(* Steps the code takes by itself once it has the CPU. *)
BootStep == InitCurrent \/ CreateIdle \/ AddIdle \/ StartTimer
Scan == ScanReap \/ ScanSkip \/ ScanPick \/ ScanNone
CodeStep ==
  \/ BootStep \/ Scan
  \/ ContextSwitch \/ ReturnFromSwitch \/ StartThread \/ Iret
  \/ Block \/ SleepYield \/ SleepReturn \/ ExitYield
Command == TestSti \/ TestCreate \/ TestAdd \/ TestDestroy \/ KeyboardReturn

Next ==
  \/ CodeStep \/ Command \/ EntryReturn \/ CallYield \/ Sleep
  \/ TimerInterrupt \/ KeyboardInterrupt

Spec == Init /\ [][Next]_vars

(* A tick is far longer than any step of the code, so a thread that gets   *)
(* the CPU again and again makes progress (strong fairness for each        *)
(* thread); the entry points and commands of the kernel return, and a      *)
(* command that created a thread adds or destroys it; the PIC holds the    *)
(* timer's request, its highest priority, until interrupts are on.         *)
Fairness ==
  /\ \A t \in Threads : SF_vars(cpu = t /\ CodeStep)
  /\ \A w \in Workers : SF_vars(cpu = w /\ EntryReturn)
  /\ SF_vars(TestAdd) /\ SF_vars(KeyboardReturn)
  /\ SF_vars(TimerInterrupt)

FairSpec == Spec /\ Fairness

-----------------------------------------------------------------------------
(* Safety: what the code keeps to until an interrupt comes untimely.       *)

(* The scheduler lock is held exactly during the scan, with interrupts     *)
(* off, so no code on the single CPU ever spins on it: not the handler of  *)
(* an interrupt, not a thread that runs after the holder was switched out. *)
LockDiscipline ==
  ~untimely => /\ lock <=> Running("scan")
               /\ lock => ~eif

(* Whatever the interleaving of ticks, yields, sleeps and commands, the    *)
(* CPU is on the stack of `current` (but for the window, where it is still *)
(* on old's), and every other stack is one context_switch can resume,      *)
(* found through its own thread's esp.                                     *)
ContextsSound ==
  ~untimely =>
    /\ cpu # Null
    /\ \A t \in Threads :
         /\ t # cpu /\ stack[t] # <<>> => esp[t] = t /\ Suspended(t)
         /\ old[t] = IF t = cpu /\ Running("window") THEN <<t>> ELSE <<>>
    /\ current # Null => (current = cpu <=> ~Running("window"))

Linked == {t \in Threads : next[t] # Null}

(* From the moment scheduler_initialize makes `current` valid, and also    *)
(* between the turns of a scan, the list is one cycle through every thread *)
(* that exists, but for the one its creator has still to add or destroy.   *)
RingWellFormed ==
  ~untimely /\ current # Null =>
    /\ Linked = {t \in Threads : state[t] # "FREE"} \ {made}
    /\ \A t \in Linked : next[t] \in Linked
    /\ \A s, t \in Linked : next[s] = next[t] => s = t
    /\ \A S \in SUBSET Linked :
         current \in S /\ (\A t \in S : next[t] \in S) => S = Linked

(* kmain and idle_loop only ever halt with interrupts on: a hlt reached    *)
(* with interrupts masked, by a yield that came back on another thread's   *)
(* flags, would be the end of the machine.                                 *)
HltNeverMasked ==
  ~untimely => (Running("kmain") \/ Running("idle_loop") => eif)

(* The comparison in scheduler_yield tells a sleeper whose time has not    *)
(* come from one that is due, also across a wrap of pit_ticks and however  *)
(* late the sleeper's turn comes.                                          *)
WakeExact ==
  ~untimely =>
    \A t \in Threads : state[t] = "BLOCKED" => (Asleep(t) <=> left[t] > 0)

(* thread_sleep does not return before its ticks have passed, whoever      *)
(* switched to the sleeper and on whichever path.                          *)
SleepHonoured == ~untimely /\ Running("slept") => left[cpu] = 0

-----------------------------------------------------------------------------
(* Action properties *)

Freed(t) == state[t] # "FREE" /\ state'[t] = "FREE"

(* A thread's stack and header are never freed while the CPU is on that    *)
(* stack or the thread is `current` (thread.h: thread_destroy must only be *)
(* called on a thread that isn't currently running).                       *)
NeverReapsRunning ==
  [][\A t \in Threads : Freed(t) => t \notin {cpu, current}]_vars

(* Until an interrupt comes in the window the code keeps to that: neither  *)
(* a scan nor a command frees the stack under the CPU or `current`.        *)
ReapsOnlyOthers ==
  [][~untimely => \A t \in Threads : Freed(t) => t \notin {cpu, current}]_vars

(* scheduler_yield never gives up on a thread that cannot go on: because   *)
(* of the idle thread there is always somebody to switch to when a blocked *)
(* or terminated thread yields (the comment on idle_loop).                 *)
NeverGivesUp ==
  [][~untimely /\ lock /\ ~lock' /\ current' = current
       => state[current] \in {"RUNNING", "READY"}]_vars

(* The timer interrupts the kernel only once the scheduler is ready        *)
(* (kernel.c: only start the timer once the scheduler is fully ready).     *)
TimerFindsScheduler == [][ticks' # ticks => current # Null]_vars

-----------------------------------------------------------------------------
(* Liveness, again until an interrupt comes untimely *)

(* Round robin starves nobody: a thread that is ready runs.                *)
ReadyRuns ==
  \A t \in Threads :
    state[t] = "READY" /\ next[t] # Null ~> current = t \/ untimely

(* Every sleeper's thread_sleep returns. *)
SleeperReturns ==
  \A t \in Threads :
    state[t] = "BLOCKED" ~> (Running("slept") /\ cpu = t) \/ untimely

(* A thread that has ended is reaped, its header free for the next one. *)
TerminatedReaped ==
  \A t \in Threads : state[t] = "TERMINATED" ~> state[t] = "FREE" \/ untimely

(* A command that sleeps or yields inside keyboard_isr still comes to its  *)
(* EOI: the keyboard does not stay dead.                                   *)
KeyboardComesBack == irq1 ~> ~irq1 \/ untimely
=============================================================================
