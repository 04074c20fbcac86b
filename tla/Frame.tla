------------------------------- MODULE Frame -------------------------------
(***************************************************************************)
(* One call of a library function: its arguments, its locals and what it   *)
(* returns.  The functions run to completion and share nothing, so that    *)
(* one frame with generic locals serves them all.                          *)
(***************************************************************************)
EXTENDS Integers, Sequences

CONSTANT Calls   \* the calls made, each with its function's name, fn

VARIABLES
  call,      \* the function and its arguments
  i, n,      \* an index or offset; a count, a number or a sum
  temp,      \* a local sequence
  buffer,    \* bytes the caller handed over to be written
  result,
  returned

frame == <<call, i, n, temp, buffer, result, returned>>

Called ==
  /\ call \in Calls
  /\ i = 0
  /\ n = call.n
  /\ temp = <<>>
  /\ buffer = call.buffer
  /\ result = 0
  /\ returned = FALSE

In(function) == ~returned /\ call.fn = function

Return(r) ==
  /\ result' = r
  /\ returned' = TRUE
  /\ UNCHANGED <<call, i, n, temp, buffer>>

Advance(by) ==
  /\ i' = i + by
  /\ UNCHANGED <<call, n, temp, buffer, result, returned>>
=============================================================================
