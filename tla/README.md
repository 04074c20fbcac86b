# XenonOS, verified with TLA+

XenonOS is a 32-bit kernel for one x86 CPU: a circular list of threads that a
100 Hz timer preempts, a physical frame allocator, paging, slabs and a heap, a
text terminal, a shell that runs inside the keyboard interrupt, and a small
GUI.  This directory holds TLA+ models of these parts, the TLC configurations that
check them on small instances, and proofs checked by TLAPS.

## 1. Inventory

| Component | State it keeps | Operations | Interacts through |
|---|---|---|---|
| Scheduler and threads (`tasks/scheduler.c`, `thread.c`, `context_switch.asm`) | the ring of `thread_t` through `next`, `current`, each thread's `state`, `wake_at`, saved `esp` | `scheduler_initialize`, `scheduler_add`, `scheduler_yield`, `context_switch`, `thread_create[_sized]`, `thread_trampoline`, `thread_sleep`, `thread_destroy` | called by `timer_isr`, by threads, by commands inside `keyboard_isr`; allocates headers and stacks |
| Spinlock (`tasks/spinlock.c`) | `locked`; saves and restores EFLAGS.IF | acquire, release | `scheduler_lock`, `terminal_lock`; the tests use a lock of their own |
| Interrupts, PIT (`cpu/interrupts.c/.asm`, `pit.c`) | IDT, PIC masks, `pit_ticks`, IF | `timer_isr`, `keyboard_isr`, exception handlers | the scheduler, the keyboard, the terminal |
| Boot (`boot.asm`, `kernel.c`) | none of its own | `kmain`, in a fixed order | starts everything |
| Physical memory (`memory/pmm.c`) | frame bitmap, `search_hint` | initialize, alloc, free | paging, slabs, heap, threads |
| Paging (`memory/paging.c`) | page directory and tables | map, unmap, get_physical | takes frames for tables |
| Slabs, heap (`memory/slab.c`, `heap.c`) | slab lists and free lists, bump address of large blocks | slab_alloc/free, kmalloc/kfree | thread headers, windows, back buffer |
| Terminal (`io/terminal.c`) | row, column, colour, video memory, hardware cursor, `terminal_lock` | initialize, write, writef, coloured writes, put, scroll, backspace, set_color | keyboard, shell, tests, exception handlers |
| Keyboard and shell (`io/keyboard.c`, `shell/commands.c`) | shift and caps flags, input line | scancode handler, line editing, the commands | runs in `keyboard_isr`, over terminal, GUI, tests |
| GUI, framebuffer, PCI (`gui/*`, `io/framebuffer.c`, `pci.c`) | window list (at most 8, three are added), focus, notes, draw buffer, mode | initialize, add window, render, redraw, focus, keys, present | runs in the keyboard handler too; heap, paging |
| Strings, memory functions, multiboot, formatted writers (`utils/string.c`, `memory/memory.c`, `multiboot.c`, `io/serial.c`) | none | functions that run to completion | everybody |
| Serial, CPUID, TSS, port I/O, test framework | device registers, descriptors | straight-line code | — |

What makes each hard, and what correctness means for it:

- **Scheduler, interrupts, spinlock.**  The timer and the keyboard interrupt
  everything that runs with IF set, including each other's tails, and switch
  stacks from inside a handler; `context_switch` does not carry IF; threads are
  unlinked and freed in the middle of the walk over the list.  Correct means:
  the CPU is on the stack of `current`, every other stack can be resumed, the
  list is one cycle, nothing in use is freed, a halt is never masked, sleeps
  end on time across the wrap of the counter, and nobody starves.
- **Physical memory, paging, slabs, heap.**  Frames change owner between five
  clients that share nothing but the bitmap, with out-of-memory paths that
  return early.  Correct means: one owner for each frame, reserved frames stay
  reserved, what is freed is what was taken, and address regions stay apart.
- **Terminal, keyboard, shell, GUI.**  A handler edits a bounded line, a
  scrolling screen and a desktop at once, and an exception may cut it short at
  any operation and write to the same terminal under the same lock.  Correct
  means: what is shown is what will be executed or was entered, nothing is left
  over from before, the lock is never waited for but by who may not, and an
  exception is reported.
- **Strings, boot information, formats.**  Loops over memory that is not sized
  for more.  Correct means: the reference answer, nothing touched outside, and
  an end.

## 2. Plan

Order: what everything else runs on comes first.

1. *(done)* `Scheduler` - threads, switch, interrupts, start-up - with
   `RoundRobin`, what it promises, and `SchedulerProofs`.
2. *(done)* `FrameBitmap`, `Pmm` - the frame allocator - with `FrameAllocator`
   and `PmmProofs`.
3. *(done)* `Memory` - paging, slabs, heap and thread memory composed over the
   bitmap operators of `FrameBitmap`.
4. *(done)* `Handler`, `Terminal`, `Desktop`, `Shell` - everything that runs in
   the keyboard handler, composed with the exceptions - and `ShellProofs`.
5. *(done)* `Frame`, `Strings`, `Format`, `Discovery`, `Library` - the functions
   against reference definitions - and `LibraryProofs`.
6. *(done)* `MemoryProofs` and `MemoryAreaProofs` - every property of the run
   `memory`, for every size.
7. *(done)* `SchedulerSleepProofs` and `RefinementProofs` - sleeps, wake-ups and
   the refinement of `RoundRobin`, for every number of threads.
8. *(done)* in `ShellProofs` `LineOnScreen`, `DisplayIsCurrent` and
   `NeverHalfDrawn`, in `LibraryProofs` `Compares`.
9. *(done)* in `LibraryProofs` induction over data, and with it `Finds`,
   `Converts` and `Prints`.
10. Left: the components marked `partly`, and the wrap of `uptime`.  Every
   invariant and action property of a passing run has its theorem; only liveness
   is left to TLC.

The abstract specifications are `RoundRobin` and `FrameAllocator`; the desktop
has one in the form of a function, `Picture`, from focus and notes to pixels.

## 3. Scheduler

### How the model corresponds to the code

One step is a piece of code that no interrupt can split: a store between two
instructions at which an interrupt may be accepted, one turn of the loop in
`scheduler_yield`, or a whole function that runs with interrupts off and calls
nothing that can switch.  What a thread is in the middle of is the sequence
`stack[t]` of the frames on its stack, innermost first; the CPU executes the
head frame of `stack[cpu]`.  This is what lets an interrupt, and a yield inside
that interrupt, happen on top of anything.

| State | Code |
|---|---|
| `current`, `next`, `state`, `wake_at` | the variable and the fields of `thread_t`; state `"FREE"` stands for a header in the pool |
| `esp[t]` | the stack on which the context saved in `t->esp` lies |
| `lock`, `flags`, `prev`, `candidate`, `old` | `scheduler_lock.locked` and the locals of `scheduler_yield`; `old` is kept for each stack, as it survives the switch |
| `cpu`, `eif`, `stack` | ESP, EFLAGS.IF, the return addresses |
| `ticks`, `irq1` | `pit_ticks`, whether IRQ1 waits for its EOI |
| `made` | the local variable that holds a created thread until it is added or destroyed |
| `left` | history: ticks still to come before a sleeper may return |
| `untimely` | history: an interrupt came where the code has no answer to it (below) |

`TimerInterrupt` pushes `timer_isr` and enters the scan; `ScanReap`, `ScanSkip`,
`ScanPick`, `ScanNone` are the outcomes of one turn; `ScanPick` ends with
`spinlock_release`, which restores IF, and leaves the frame `window`;
`ContextSwitch` saves the CPU's stack under `old` and loads the one of `current`;
`ReturnFromSwitch` returns from `scheduler_yield` on the new stack.  `Sleep`,
`Block`, `SleepYield`, `SleepReturn` are the four pieces of `thread_sleep`.
`InitCurrent` to `StartTimer` are `kmain` from `scheduler_initialize` on.
`KeyboardInterrupt`, `Test...` and `KeyboardReturn` are `keyboard_isr` running
the `test` command, the only code that creates threads besides the boot.

### Environment and bounds

- `Quiet`: a command is typed only after the boot and when no thread of an
  earlier command is left.  `test` is the only command that makes threads; the one
  it adds ends at once, and the test behind it sleeps for 50 ms, in which the
  scans reap it, before the user gets the prompt back (`test_thread.c:79-105`).
- Interrupts are accepted wherever the code accepts them, ticks from the first
  state on.  At two places it is not made for them: before `scheduler_initialize`,
  when `current` is a null pointer, and between `spinlock_release` and
  `context_switch` (`Untimely`).  The runs `boot` and `window` show what an
  interrupt does there.  The history variable `untimely` remembers that one came,
  and the other properties say what holds *until* one did: a safety property is
  an implication from `~untimely`, a liveness property promises its event or an
  untimely interrupt.  No constant and no guard keeps such an interrupt from
  coming; how a stack in use goes on after it is left open by these properties.
- The passing runs have the constraint `Timely`: TLC does not look behind an
  untimely interrupt, where every property is satisfied already.
- `MaxFrames = 3`: an interrupt is accepted on a stack of up to two frames, so
  a timer interrupt can nest in a sleeping command in a keyboard interrupt.
- `MaxLate`: a thread whose `wake_at` passed before it was `BLOCKED` accepts an
  interrupt there only while it is no more than `MaxLate` ticks late.  The code
  has no such limit, but half a wrap is 248 days and the two stores are
  neighbours; here half a wrap is a few ticks.  It is 1 in `time` and
  `refinement`, 0 elsewhere.
- `MaxSleep` is 1 or 2, `TickMod` 12, 14 in `time` and 18 in `refinement`: half a
  wrap is then more than the ticks a sleeper can be late.
- Symmetry exchanges the two workers, where no liveness property is checked.
- Views: `wake_at` of a thread that is not asleep is never read before it is
  assigned, so it is left out; `RelativeTime` keeps only the difference between
  it and the counter, as every step commutes with adding a number to both, and
  serves the runs that do not ask about the wrap; `time`, which does, keeps the
  counter itself.

### Fairness

`FairSpec` assumes: the CPU executes the thread it is on (strong fairness for
each thread, as a tick is far longer than a step and a thread may get the CPU
only for moments at a time); an entry point ends; a command that created a
thread adds or destroys it and returns; and the timer's request, which the PIC
holds at the highest priority, is accepted when interrupts are on infinitely
often.  Nothing is assumed about which thread is chosen, about sleeps, or about
the keyboard's user.

### Runs

| Run | Instance | What it shows |
|---|---|---|
| `time` | one worker, counter wrapping, sleeps of 0 to 2 ticks | `LockDiscipline`, `WakeExact` across the wrap, `SleepHonoured`, `NeverGivesUp` |
| `live` | one worker, fairness | ended threads are reaped, the keyboard comes back |
| `fair` | one worker, fairness | ready threads run, sleepers return |
| `refinement` | two workers | stacks, contexts, list, halts and reaping (`ContextsSound`, `RingWellFormed`, `HltNeverMasked`, `ReapsOnlyOthers`) under every nesting, and every step is a step of `RoundRobin` or a stutter |
| `window` | one worker, without the constraint | **violation**: a thread is reaped while the CPU is on its stack |
| `boot` | one worker, without the constraint | **violation**: a tick finds no current thread |

One worker is enough for `time`, `live` and `fair` as the properties speak of one
thread among others: besides the worker there are kmain's thread and the idle
thread, with which it forms a list of three.  Two workers add what matters for
the list and for reaping neighbours of each other.

### Findings

- **A tick in the window** (`scheduler.c:85`).  `current` has moved on,
  interrupts are on again, the CPU is still on old's stack.  If old has ended,
  the nested scan destroys it: its stack is unmapped under the running code.
  `thread.h:40-41` forbids exactly this.
- **A tick before the scheduler** (`kernel.c:31`).  The comment says the timer
  starts only once the scheduler is ready; interrupts and IRQ0 have been on
  since `interrupts_initialize`, and the PIT ticks since power-on.

### Proofs

`SchedulerProofs` shows for every set of workers, every counter length, every
nesting depth and every `MaxLate`, of the specification with all its interrupts:
`TypeCorrect`, `LockIsDisciplined`, `ContextsAreSound`, `RingIsOneCycle`,
`HaltsOnlyUnmasked`, `NeverReapsTheRunning`.  Each says what holds until an
interrupt comes untimely.  The condition cannot be dropped: the run `window`
shows a behaviour in which an ended thread is reaped under the CPU right after
such an interrupt.  Of the constants nothing is assumed but `ThreadsAssumption`
and `ClockAssumption`, which make them what they stand for, and `SleepAssumption`.  All follow from one inductive
invariant, `IInv`, whose parts need one another:

- `StacksInv`: what a stack may look like.  Its outermost frame is one that never
  returns, only a handler runs on top of a `hlt` loop, nothing on top of the
  scan or the window.  Without it a `Return` could leave an empty stack.
- `CpuInv`: the CPU is on a stack that exists; each other stack has its context
  saved under its own `esp`; `old` is what the window needs; a halt has IF set.
- `LockInv`: lock, scan and masked interrupts go together, and `prev` and
  `candidate` are neighbours in the list.  `ScanReap` keeps the cycle because
  `next[prev] = candidate`.
- `BootInv`: until `pit_initialize` the CPU is on kmain's stack and one start-up
  frame is on it, which determines `current` and `made`.
- `RingInv`: `next` is a permutation of the linked threads no proper part of
  which is closed, and linked means existing and not `made`.

Insertion, removal and the walk over the cycle are lemmas about functions;
pushing, popping and replacing frames are lemmas about sequences.  TLC checked
`IInv` as an invariant first.

`SchedulerSleepProofs` adds what the code promises about time and about finding
somebody, by a second inductive invariant, `SInv` (theorem `SleepInductive`):

- `FramesInv`: a piece of `thread_sleep` lies on the code that called it, never on
  a sleep, and at most one command is on any stack, which IRQ1 in service says.
  Without it a sleep could be thought over when an inner one ends.
- `KeeperInv`: kmain's thread and the idle thread stay in the list.  At most one
  of them can be asleep, the one with the command on its stack, so a scan that
  comes round to where it began was not a sleeper's: `YieldNeverGivesUp`.
- `SleepInv`: while ticks are left, `wake_at` is `ticks + left` modulo the
  counter; who waits for ticks is `BLOCKED`, and only who is in `thread_sleep` is.
- `ScanInv`: the scan has walked from `current` over threads that are asleep, and
  over nobody else.

`SleepIsHonoured` follows: a `BLOCKED` thread gets the CPU only from a scan whose
signed comparison was not negative, and with ticks left it is
(`SleepAssumption`: a sleep is at most half a wrap.  The code multiplies and
divides 32-bit numbers, so 4,294,967 ticks is the longest).

`WakeIsExact` is the converse, that a sleeper which is due is recognised.  The
comparison is right only for half a wrap after `wake_at`, so how late a sleeper
can be must be bounded.  `LateInv` counts turns: for each thread there is a set P
of those who may still come before it, which everybody who is not in the list
belongs to (they may be inserted at any time) and which the list leads through
to the thread.  A tick makes the thread one tick later and takes one thread out
of P, the one that gets the CPU.  `Preempted` and `Due` bound the two times a
sleeper may have to wait: between being preempted in the call, and after it
blocked.  The theorem assumes `FewThreads`: `MaxLate` and twice the number of
threads fit in half a wrap, 2^31 in the code, where each thread needs a page and
`MaxLate` may be anything up to nearly 248 days.  Some bound there must be: with
none, the two stores of `thread_sleep` could be half a wrap apart.

`RefinementProofs` shows `SchedulerIsRoundRobin`: every behaviour of `Spec` starts as
one of `RoundRobin` and each step is one of its steps or a stutter, until an
interrupt comes untimely (`RR!Init /\ [][untimely' \/ RR!Next]_...`).  It goes
with `Queue`, the list read from `current` on once around, and `Status`.  A
reading of a cycle is unique and holds every linked thread (`QueueIsOne`,
`ReadsAll`), and what a store to `next` does to the list is a lemma about
sequences: insertion behind the head, removal, rotation to another head
(`ListRotate`).  Each action then is `Create`, `Add`, `Dispatch`, `Reap`, ... of the
queue or leaves it alone.  Dispatching is the step that needs the invariants:
that those in front of the chosen thread are asleep comes from `ScanInv` along the
list (`PassedBefore`), and that asleep means the same to the code, which compares
`wake_at`, and to the queue, which counts ticks, is `WakeIsExact`.

Only model-checked: the liveness properties, which are out of the prover's reach.

## 4. Physical memory

`FrameBitmap` holds the operators: which frames a memory map leaves free after
the three steps of `pmm_initialize` (`FreeRegion` rounds inwards,
`ReserveRegion` outwards), and which frame `first_free_frame` finds from a hint.
A bitmap is the set of the frames whose bit is 1; the two loops over words are
one definition: the lowest free frame from the hint's word on, or the lowest of
all.  `Pmm` adds the state, `bitmap` and `search_hint`, and the calls.  Word
size, page size, the number of words and all addresses are constants.

Run `pmm`: eight frames of four bytes in four words, every map of two disjoint
regions whose ends lie at and off frame boundaries, a kernel image that starts
and ends inside a frame, every order of allocations and frees.  `HintSound`
(no free frame before the hint), `HandsOutOnlyRam` (no byte outside available
memory, in low memory or in the kernel), and the refinement
`ImplementsFrameAllocator`: callers see an allocator that hands out the lowest
free frame and fails only when there is none.

`PmmProofs` proves all four properties for every constant and every memory
map.  The inductive invariant is `TypeOK /\ HintSound /\ ReservedStaysUsed`:
`HintSound` makes the search find the lowest free frame (so `Alloc` may move the
hint to its word), and reserved frames stay used because only held frames are
freed.  `HandsOutOnlyRam` then is arithmetic about rounding.  That a minimum
exists where the allocator refuses comes from the well-foundedness of `<`.

## 5. Memory: paging, slabs, heap, stacks

### Correspondence

`Memory` composes the bitmap with its four clients.  One call is in progress at a
time, in `call`: where it is, its object, the pages it deals with, how many are
done, the frame it just got.  One step takes, maps or releases one frame or one
object, in the code's order, so that every failure in the middle is reached.

| State | Code |
|---|---|
| `page_directory[d]` | the frame of table `d`; `BootTable` for entry 0, `Absent` without the present bit |
| `mapping[p]` | the entry for page `p` in its table |
| `slabs[c]`, `free_list[f]` | `cache->slabs`, front first, and the free list of the slab in frame `f`, last freed first |
| `next_large_vaddr`, `next_stack_vaddr` | the two bump addresses |
| `held`, `blocks`, `threads` | what callers hold: objects, large blocks, threads with `mem` and `stack_pages` |
| `exhausted` | history: a failed `pmm_alloc` went unnoticed |
| `panic` | `page_fault_handler` halted the kernel |

`paging_map` has three outcomes, each an action: the table is there
(`PagingMap`), it is allocated first (`PagingMapNewTable`), or there is no frame
for it and it returns silently (`PagingMapGivesUp`).  `paging_unmap` and
`paging_get_physical` appear in `FreePage`, the body of both release loops.
Pages and frames are the same numbers, as both cover 4 GiB; objects are numbered
in their slab; a size bin of `kmalloc` is a cache, `thread_pool` another.

### Assumptions, bounds, runs

- `LowMemory`: usable memory ends below `LARGE_ALLOC_REGION_BASE`.  With more,
  identity mappings of slabs would collide with large blocks.
- Calls are not interleaved: see the `interleaving` hazard of `pmm.c:125`.
- Tables have four entries.  The boot table maps frames 0 to 3, of which 0 and 1
  are reserved; frames 2 to 6 are usable: fewer than the clients want together,
  so each call can run out at each of its frames.  Large blocks have one or two
  pages and their region starts at the end of a table, so a block can cross into
  a second one and the region can be used up; it abuts the stack region, as in
  the code.  Stacks have one or two pages and up to three fit below `StackLimit`,
  the bound for the stack region.  Each cache holds two objects a slab, which
  gives part full and full slabs and lists of several.
- `UntilTheCallEnds`: once a failure went unnoticed, the run follows that call
  to its end and no other.  Deadlock is not checked: a page fault halts the
  kernel, and the stack region runs out.

Run `memory`: `OneOwner` (each frame handed out has one holder among tables,
slabs, mapped pages and the call under way, also after a `kmalloc_large` that
failed half way and keeps its frames), `SlabsExact` (free list and held objects
partition each slab; no empty slab stays), `NeverFaults`, `GuardPages`,
`MappingsStay` (what is in use is never remapped).  Those that speak of backing
hold as long as no failure went unnoticed; `exhausted` says when that is.

Run `exhausted`, **violation**: `thread_create_sized` ignores that `pmm_alloc`
failed and maps -1, so the new thread's stack page is the last frame of the
address space instead of its own (`thread.h:32-34`).

The same silent failures have more consequences, listed as hazards: a large
block whose last page is not mapped, and, when it is freed,
`pmm_free(0)`, which makes the reserved frame 0 available.

The lowest stack has the large region below it instead of a guard page
(`constants.h:41`): `GuardPages` excludes it.

### Proofs

All five properties and the types are proved for every number of frames, table
size, region, memory map below the large region, capacity, block and stack size,
and for every order of calls, each of which may run out of frames at any frame.
There are two inductive invariants, because the code promises two kinds of
things.

`MemoryProofs`: what holds until a failed `pmm_alloc` goes unnoticed,
`IInv == ~exhausted => Good`.  After such a failure memory really is handed out
twice - `pmm_free(0)`, two pages on one frame - so `OneOwner`, `NeverFaults` and
`SlabsExact` are theorems under `~exhausted` (`EveryFrameOneOwner`,
`KernelNeverFaults`, `SlabsStayExact`).  The first two definitions say so
themselves; `SlabsExact` does not, since on the instance of the run it also holds to
the end of the failing call, and its theorem is `[](~exhausted => SlabsExact)`.
The parts of `Good` need one another:

- `CallInv`: what the call under way has in hand at each place.  A frame is in
  hand exactly between `pmm_alloc` and the end of `paging_map`; `slab_create`
  runs only once its page is mapped to itself.
- `ThreadsInv`, `BlocksInv`: stacks with their guard pages, and blocks, lie apart
  below the two bump addresses, those of the call under way included
  (`AllThreads`, `AllBlocks`: a thread being created or destroyed is in no list).
- `BackedInv`: in the stack region exactly the pages of stacks are mapped, up to
  where the loop of the call has come (`InCall`); nothing at or beyond the bump
  address of the large region is.  Without it `paging_map` could overwrite the
  mapping of a page whose frame then has no holder.
- `OwnersInv`: tables, slabs, mapped pages and the frame in hand partition what is
  handed out, each frame once.  Each action moves one frame between the parts;
  that claims are unique follows kind by kind.
- `SlabInv`: `ListsExact` and `HeldInSlabs` are `SlabsExact`; `FreshFirst` adds
  that a wholly free slab is the first of a cache that is being served, so
  `slab_take` takes from it before anything else can happen.

`MemoryAreaProofs`: what holds without any condition, `AreaInv`.  Pages live in
areas that the bump addresses keep apart even if their frames are not:
`StacksLie` and `BlocksInv`; `MappedInv`, that in the stack region *only* pages
of stacks are mapped (some may not be), and below the regions a page is mapped to
itself or not at all; `LowInv`, that every frame that can be handed out is below
the regions or is the phantom of a failed `pmm_alloc`, whose page lies in the
recursive table, where `paging_map` writes nothing.  `LowMemory` is what makes it
true of the initial bitmap.  From it follow `Types`, `StacksAreGuarded`
(`GuardPages`) and `LiveMappingsStay` (`MappingsStay`): even when a frame is
handed out twice no mapping in use changes.

TLC checked both invariants first, `AreaInv` without the constraint.

## 6. Console: terminal, keyboard, shell, desktop, exceptions

### Correspondence

All of this code runs inside one handler at a time: `keyboard_isr`, which has
interrupts off, or an exception's, which never returns.  `Handler` therefore
keeps what the CPU is in the middle of as `todo`, the list of operations still
to be done, and a call is a list: `terminal_write(s)` is acquire, one `put` for
each character, cursor, release.  An exception may come between any two.  A
command that has started is the list of its calls; `Run` puts it in front of
what the keyboard handler does afterwards.

| State | Code |
|---|---|
| `todo`, `eif` | EIP and the calls on the handler's stack; EFLAGS.IF |
| `video`, `row`, `column`, `cursor`, `current_color`, `previous_color` | video memory, the statics of `terminal.c`, the CRTC's cursor, the local of the coloured writes |
| `terminal_lock`, `flags` | `terminal_lock.locked`, what `spinlock_acquire` returned |
| `input` | `input[0 .. input_length - 1]` |
| `shift`, `caps_lock`, `held` | the flags of `keyboard.c`, the physical keys |
| `windows`, `focused_window`, `notes`, `gui_ready`, `gui_active` | the statics of `gui.c`, `notes_state` |
| `grub`, `bochs`, `info`, `back`, `hw` | the mode in the boot loader's tag, the PCI device, the mode in use, the draw buffer, what the display shows |
| `trap` | whether an exception was raised, and what it hit |

`Terminal` has an action for each operation under the lock, `Shell` one for each
kind of key and for each command, `Desktop` one for the background, one for a
window with its `on_draw`, one for the copy to the display and one for the copy
that runs out of mapped memory.  A pixel's value says what was last painted
there - desktop, border, a window's title with or without focus, its area, a
point of a character - so that `Picture` can say what a pixel should be.

Exceptions (`Fault`): whatever the CPU does, an NMI, a machine check or an
interrupt without a gate ends in a handler that never returns; the ones that a
bug would raise are the same to the terminal.  `PageFault` is one the code
raises itself: `framebuffer_present` copies the whole mode, of which only
`FRAMEBUFFER_VIRTUAL_SIZE` bytes are mapped (`framebuffer.c:49,133`).

### Assumptions and bounds

- `ShellAssumption`: a full input line with its prompt fits the screen (129 of
  80 x 24 cells in the code); characters have the kinds their names say.
- `DesktopAssumption`: 32 bits a pixel, no gap between rows, room in the heap
  for the draw buffer - what the code takes for granted without looking
  (hazard at `framebuffer.c:57`).
- Texts the code prints are one character `Text`; a prompt is `Prompt`.
- `MCShell`: a screen of 3 x 3, so that a command's output wraps and scrolls and
  a line of two characters can begin in the last column; `INPUT_SIZE` 3, so that
  the bound is reached; seven commands of one or two characters, the empty line,
  an echo and unknown ones; five keys.  Windows of 3 and 4 pixels, notes of up to
  three characters in a window one character wide.  Modes of 5 x 8 (the windows
  stick out), 8 x 10 (as asked for) and 9 x 10 with 320 bytes mapped: the last
  needs 360.
- The view `Visible` leaves the text screen out once the GUI is up: nothing reads
  it there but an exception's report, and reports from every reachable terminal
  state have been explored before the GUI starts.  After an exception it keeps
  the terminal only, as nothing else is touched.  It also leaves out which of the
  two sources a mode came from: only `ModeFound` is ever read.

### Fairness

`FairSpec`: the CPU goes on executing (`WF_vars(Continue)`); keys and exceptions
need not come.  Deadlock is not checked, as the machine halts after an exception
and after `shutdown`, and spins for ever on a lock that an exception found taken.

### Runs

`shell`:

- `LineOnScreen`: between keystrokes the screen shows, behind a prompt and before
  the cursor, the very line that Enter would execute.
- `NothingBehindCursor`: erased, scrolled and cleared cells are blank at every
  step.
- `ColorRestored`, `OnlyFaultsSpin`, `ShiftNeverSticks`: see the definitions.
- `DisplayIsCurrent`, `NeverHalfDrawn`: between keystrokes the display equals
  `Picture`; at any time it shows a whole picture at most one keystroke old.
- `FaultReported`, a liveness property: an exception that did not hit the holder
  of `terminal_lock` ends with its report in red above the cursor and a halt.
  One that did spins for ever and says nothing: `OnlyFaultsSpin` shows that
  nobody else does.

`notes`, **violation** of `RedrawStaysInside`.

### Findings

- **A note runs out of its window** (`commands.c:217`).  `gfx_draw_string` does
  not clip, a note may have 63 characters, the window has room for 44: what is
  drawn to its right lies on the desktop and on Welcome, and stays there when the
  note is shortened.  `gui.h:41-42` promises that a redraw leaves the rest of the
  desktop alone.  `DisplayIsCurrent` excludes just this strip (`Spill`).

Caps Lock is modelled as it is: its two conversions undo each other
(`keyboard.c:95-99`), so it has no effect.  Nothing in the repository says what
it should do.

### Proofs

`ShellProofs`, for every size of the screen, the line and the desktop, every key
layout and every set of commands that meets the assumptions: `TypeCorrect`,
`ShiftIsSound`, `LockIsSound`, `ColorIsRestored`, `NothingLeftOver`,
`LineIsOnScreen`, `DisplayCurrent`, `DisplayIsWhole`.  It goes
by these inductive invariants:

- `TInv`, the types with `FocusInv`: once there are windows one has the focus -
  without it, a key could go to window 0.
- `LockInv`.  What the lock and the colour are now says nothing of what they will
  be; that follows from the list of what is still to do.  `Chain` says that a
  list leads from one of the modes free, held and painted to another; `LockInv`
  says that `todo` leads from the mode in which the terminal stands back to
  free, or, in a report, to the halt.  Every call is a chain by itself
  (`Calm`), chains can be concatenated, and a step takes the first link off.
- `BlankInv`, with one exception: before the first operation of the boot, the
  screen has the firmware's text.

- `LineInv`, for `LineIsOnScreen`.  `Line` says by which of seven ways what is
  still to do ends with the prompt and the line on the screen: it stops in a
  halt, it executes the line, it starts the GUI, its last text is a prompt with
  nothing typed yet, it puts the one character just typed (`Types`) or takes away
  the one just erased (`Erases`), or line and cursor are there already.  Commands
  make lists of these kinds by concatenation, so the proof is mostly about lists.
  On the screen `PutMoves` says what one character does to the place of the
  line, scrolling included; that a line never scrolls away in part is
  `INPUT_SIZE <= VGA_WIDTH * (VGA_HEIGHT - 1)` of `ShellAssumption`.
- `DisplayInv`, for `DisplayCurrent` and `DisplayIsWhole`.  `Stage` lists where a
  redrawing can be and what buffer and display show there: the windows are drawn
  for the first time on a dark display; all is drawn and to be shown; all is
  shown; the notes are a keystroke ahead of the picture; the focus has moved and
  first the old, then the new title is drawn and shown.  Each operation leads
  from one stage to the next because drawing a window replaces its own area and
  nothing else outside `Spill`: there `WindowsAssumption` is needed, that the
  windows lie apart and the notes' line fits (`commands.c:252-285`).
- `HaltInv`: after an exception the list never runs empty, so the CPU is not
  mistaken for being between keystrokes.

TLC checked the three before they were proved.  One definition of the model was
wrong: `WindowPart` was a CASE whose first two guards overlap in the top corners
of a window, where TLA+ does not say which applies.  TLC takes the first, so no
run could show it; the proof of `DisplayIsCurrent` failed at these pixels.  It is
an IF now, with the border on top, as `draw_window` leaves it.

Only model-checked: `FaultReported`, which is liveness.

## 7. Library: strings, formats, searches

`Frame` is one call: `call` its function and arguments, `i`, `n`, `temp` its
locals, `buffer` what the caller handed over, `result`, `returned`.  The
functions share nothing and are never entered twice, so one frame serves all.
One step is one turn of a loop, or one unit that `rep movs` or `rep stos` moves.

- `Strings`: `strcmp`, `strlen`, `memcmp`, `memcpy`, `memset` (words, then the
  remainder), `itoa`, `itoa_hex` with their real arrays of 16 and 8 digits.
- `Format`: the scan of `terminal_writef` and `serial_writef`, which share the
  treatment of unknown letters.  They differ in the conversion of newlines, and in
  that the serial line is sent strings: a `%c` of 0 is a cell on the screen and
  nothing on the line (`Sent`).
- `Discovery`: `multiboot_find_tag`, `memory_get_kb`, `pci_find_vga_device`.

Run `library` starts a call with each argument of `MCCalls`: strings up to three
bytes with and without the sign bit and with bytes behind the terminator; counts
0 to 11, every remainder and up to two words; numbers on both sides of each
change of length, up to 2^31 - 1, TLC's largest, in buffers of 11 and 12 bytes; formats of up to three pieces;
tags, entries and slots up to four.  `StringsStayInside`, `Compares`, `Copies`,
`Converts`, `Prints` and `Finds` compare with definitions that say what is
wanted rather than how; `Returns` says that each call ends, under
`WF_frame(Next)`: nothing interrupts these loops for good.  Deadlock is not
checked because a call that has returned does nothing more.

`StringCalls` is what the callers in the kernel keep to: counts are not negative,
a number has 32 bits and its buffer at least the 11 bytes that the longest
numerals take (the desktop has 12, `commands.c:172`, the writers 16), strings are
terminated
(`Terminated`) and what `memcmp` compares is there.  The digits of `itoa` do not
need the sizes of its own array to be assumed.  `FormatCalls` says the same of
formats: one is put together from pieces, characters and whole directives, and
the arguments are those of its directives, of the types they want.  `SearchCalls`
is what the boot loader and the PCI bus keep to: a tag has at least its own
header, the boot information ends with its last tag, and nobody asks for the
end tag.  TLC evaluates the three on every call of `MCCalls`.

`LibraryProofs` shows for all strings, all counts, all numbers of 32 bits, all
formats and all boot information:

- `CopiesExactly`: `Copies`.  The invariant (`CopyInv`) needs one fact more than
  the property: while words are left the offset is a multiple of four, hence the
  last word ends within n (`UnitFits`).
- `StringsInside`: `StringsStayInside`.  `DigitsInv` counts digits: those stored,
  those in `temp` and those that n still has are never more than ten, or eight in
  hexadecimal, where `Limit` says how many n has; one division takes one away
  (`LimitShrinks`).  `PassedInv` says that what was passed over was equal and no
  terminator.

- `ComparesRightly`: `Compares`.  `StrcmpInv`, `StrlenInv` and `MemcmpInv`, which TLC
  checked first, say what was passed over and for which byte the function
  returned.  That byte decides the order of the texts (`Diverge`, `Ordered`): where
  two strings diverge, or one has ended and has its 0 there, the difference of
  the two unsigned bytes has the sign of the comparison.

The other three compare with recursive functions over data of any length: sums,
powers, concatenations.  The library's induction theorems take an operator as a
parameter and cannot be used here, so `LibraryProofs` has its own, about sets:
a set of numbers that is not empty has a lowest member (`Lowest`, from the
well-foundedness of `<` as a relation), so one that has 0 and all successors is
`Nat` (`Induction`); and where a step is given as a function, there is a function
that computes it l times (`Recursion`), which is what makes the `CHOOSE` behind
`f[k] == ... f[k - 1] ...` mean anything.  From these follow `TagStarts`,
`RunningSums`, `Powers` and `JoinedParts`, which state the recursive definitions
of the model as equations.

- `FindsRightly`: `Finds`.  Tags begin where the one before ends, rounded up to
  eight (`Alignment`), in their order (`TagsInOrder`); `FindTagInv` says that the
  walk stands on the beginning of a tag, or on the end, and that no tag before
  it counts.  `GetKbInv`: the sum so far is the running sum of the available
  lengths, in bytes.  `FindVgaInv`: no slot passed has a display.
- `ConvertsRightly`: `Converts`.  `Worth(d)` is what is left of the number after d
  divisions.  `ConversionInv` says of every step which digit each taken and each
  stored one is: `temp` has them lowest first, `buffer` behind the prefix from the
  other end; that no leading zero is among them is that the number before the
  last division was not 0.  That a division by the base d times is one by its
  d-th power (`Powers`, `WorthShrinks`) gives the numeral of `IsNumeral`, and as no
  digit is a 0 byte (`Digits`) the text ends behind the last one.
- `PrintsRightly`: `Prints`.  `PrintInv` says that for some k the scan is exactly
  behind the first k pieces of the format, the first k pieces' arguments are
  consumed and the output is theirs.  A step goes from k to k + 1 because the
  next characters of the format are the next piece's (`FormAhead`, from
  `JoinedBegins`: what is joined begins with the first parts, then the next), and
  likewise the next argument (`ArgAhead`).  That all are texts of bytes
  (`NumeralsAreText`, `Pieces`) is needed for the concatenations to be sequences.

Only model-checked: `Returns`, which is liveness.

## 8. Not modelled

Registers and ports (PIC, PIT, CRTC, dispi, UART, CPUID), descriptor tables, the
assembly that sets up segments and a stack, TLB and cache effects, the FPU, glyph
shapes and colours of the desktop, the arithmetic of pitch and bytes per pixel,
and the exact byte size of stacks.  Two products that are computed modulo 2^32:
`uptime` (wraps after 4,294,967 ticks, twelve hours) and the argument of
`thread_sleep` (from 42,949,673 ms on; no caller comes near).  An exception
before the double fault's TSS is loaded or before the IDT is.  The test
framework's assertions are used as a reference, not modelled.  `PROJECT.json`
lists every component with its status and every hazard with the properties that
cover it.
