------------------------------ MODULE Handler ------------------------------
(***************************************************************************)
(* What the CPU is in the middle of.  Everything the console and the       *)
(* desktop do happens inside one handler at a time, the keyboard's or an   *)
(* exception's, as a straight line of operations: a command that has       *)
(* started is the list of what it still has to do.  The operations are     *)
(* the stretches of code inside which nothing looks at the state.          *)
(***************************************************************************)
EXTENDS Integers, Sequences

VARIABLES
  todo,   \* operations the running handler has still to do, in order
  eif     \* EFLAGS.IF

handlerVars == <<todo, eif>>

Do(name) == [op |-> name]

(* The next operation is a `name`: it is done, the others remain. *)
Perform(name) == /\ todo # <<>>
               /\ Head(todo).op = name
               /\ todo' = Tail(todo)

(* No handler runs: kmain's loop or a thread does. *)
AtRest == todo = <<>>

(* iretd at the end of an interrupt handler *)
Iret == Perform("iret") /\ eif' = TRUE

(* sti inside a command, as the spinlock tests execute it *)
Sti == Perform("sti") /\ eif' = TRUE

(* cli and a loop around hlt, interrupts being off already: no step follows. *)
Halted == todo = <<Do("halt")>>
=============================================================================
