------------------------------ MODULE Terminal ------------------------------
(***************************************************************************)
(* The text terminal, io/terminal.c, on the lock of tasks/spinlock.c: a    *)
(* screen of cells, the place where the next character goes, the colour    *)
(* it gets, and the hardware cursor.  A call of terminal.c is a list of    *)
(* operations between an acquire and a release of terminal_lock.           *)
(***************************************************************************)
EXTENDS Handler

CONSTANTS
  VGA_WIDTH, VGA_HEIGHT,   \* columns and rows of the screen
  Chars, Newline, Blank,   \* characters, two of them special
  Colors, LightGrey        \* colours, one of them the first

ASSUME ScreenAssumption ==
  /\ VGA_WIDTH \in Nat \ {0}
  /\ VGA_HEIGHT \in Nat \ {0}
  /\ Newline \in Chars
  /\ Blank \in Chars \ {Newline}
  /\ LightGrey \in Colors

VARIABLES
  video,           \* video memory: a character and a colour for each cell
  row, column,     \* where the next character goes
  current_color,
  cursor,          \* the position the VGA hardware shows the cursor at
  terminal_lock,   \* terminal_lock.locked
  flags,           \* what the holder's spinlock_acquire returned
  previous_color   \* local of the coloured writes

terminalVars == <<video, row, column, current_color, cursor, terminal_lock,
                  flags, previous_color>>

Cells == 0 .. VGA_WIDTH * VGA_HEIGHT - 1
Position == row * VGA_WIDTH + column
Entry(c) == [char |-> c, color |-> current_color]

-----------------------------------------------------------------------------
(* The calls, as lists of operations. *)
Puts(s) == [i \in 1 .. Len(s) |-> [op |-> "put", char |-> s[i]]]
Locked(ops) == <<Do("acquire")>> \o ops \o <<Do("release")>>

terminal_write(s) == Locked(Puts(s) \o <<Do("cursor")>>)
terminal_putchar(c) == terminal_write(<<c>>)
terminal_backspace == Locked(<<Do("backspace")>>)
terminal_set_color(k) == Locked(<<[op |-> "color", color |-> k]>>)
terminal_write_colored(s, k) ==
  Locked(<<[op |-> "paint", color |-> k]>> \o Puts(s) \o
         <<Do("cursor"), Do("repaint")>>)

TerminalOps ==
  [op : {"acquire", "release", "cursor", "backspace", "reset", "repaint"}]
    \cup [op : {"put"}, char : Chars]
    \cup [op : {"color", "paint"}, color : Colors]

TerminalTypeOK ==
  /\ video \in [Cells -> [char : Chars, color : Colors]]
  /\ row \in 0 .. VGA_HEIGHT - 1
  /\ column \in 0 .. VGA_WIDTH - 1
  /\ current_color \in Colors
  /\ cursor \in Cells
  /\ terminal_lock \in BOOLEAN
  /\ flags \in BOOLEAN
  /\ previous_color \in Colors

(* The statics before the first call, and what the firmware left behind *)
TerminalInit ==
  /\ video \in {[i \in Cells |-> [char |-> c, color |-> LightGrey]] : c \in Chars}
  /\ row = 0
  /\ column = 0
  /\ current_color = LightGrey
  /\ cursor = 0
  /\ terminal_lock = FALSE
  /\ flags = FALSE
  /\ previous_color = LightGrey

-----------------------------------------------------------------------------
AcquireKeepsInterruptsBug ==
  /\ Perform("acquire")
  /\ ~terminal_lock
  /\ terminal_lock' = TRUE
  /\ flags' = eif
  /\ UNCHANGED <<eif, video, row, column, current_color, cursor, previous_color>>

(* spinlock_acquire.  A taken lock is spun on for ever: no step. *)
Acquire ==
  /\ Perform("acquire")
  /\ ~terminal_lock
  /\ terminal_lock' = TRUE
  /\ flags' = eif
  /\ eif' = FALSE
  /\ UNCHANGED <<video, row, column, current_color, cursor, previous_color>>

(* spinlock_release *)
Release ==
  /\ Perform("release")
  /\ terminal_lock' = FALSE
  /\ eif' = flags
  /\ UNCHANGED <<video, row, column, current_color, cursor, flags, previous_color>>

ScrollKeepsRowBug(v) ==
  /\ column' = 0
  /\ IF row + 1 < VGA_HEIGHT
     THEN row' = row + 1 /\ video' = v
     ELSE /\ row' = VGA_HEIGHT - 1
          /\ video' = [i \in Cells |->
                         IF i + VGA_WIDTH \in Cells THEN v[i + VGA_WIDTH] ELSE v[i]]

(* column = 0, row++ and scroll(), on a screen that shows v *)
NextRow(v) ==
  /\ column' = 0
  /\ IF row + 1 < VGA_HEIGHT
     THEN row' = row + 1 /\ video' = v
     ELSE /\ row' = VGA_HEIGHT - 1
          /\ video' = [i \in Cells |->
                         IF i + VGA_WIDTH \in Cells THEN v[i + VGA_WIDTH]
                                                    ELSE Entry(Blank)]

(* terminal_putchar_locked_nocursor *)
Put ==
  /\ Perform("put")
  /\ LET c == Head(todo).char
         v == [video EXCEPT ![Position] = Entry(c)]
     IN  CASE c = Newline -> NextRow(video)
           [] c # Newline /\ column + 1 = VGA_WIDTH -> NextRow(v)
           [] OTHER -> video' = v /\ column' = column + 1 /\ UNCHANGED row
  /\ UNCHANGED <<eif, current_color, cursor, terminal_lock, flags, previous_color>>

BackspaceStopsAtMarginBug ==
  /\ Perform("backspace")
  /\ IF column = 0 THEN UNCHANGED <<row, column, video, cursor>>
     ELSE /\ column' = column - 1
          /\ UNCHANGED row
          /\ video' = [video EXCEPT ![Position - 1] = Entry(Blank)]
          /\ cursor' = Position - 1
  /\ UNCHANGED <<eif, current_color, terminal_lock, flags, previous_color>>

(* terminal_backspace between acquire and release *)
Backspace ==
  /\ Perform("backspace")
  /\ IF row = 0 /\ column = 0
     THEN UNCHANGED <<row, column, video, cursor>>
     ELSE /\ row' = IF column > 0 THEN row ELSE row - 1
          /\ column' = IF column > 0 THEN column - 1 ELSE VGA_WIDTH - 1
          /\ video' = [video EXCEPT ![row' * VGA_WIDTH + column'] = Entry(Blank)]
          /\ cursor' = row' * VGA_WIDTH + column'
  /\ UNCHANGED <<eif, current_color, terminal_lock, flags, previous_color>>

(* update_cursor *)
UpdateCursor ==
  /\ Perform("cursor")
  /\ cursor' = Position
  /\ UNCHANGED <<eif, video, row, column, current_color, terminal_lock, flags,
                 previous_color>>

(* terminal_set_color between acquire and release *)
SetColor ==
  /\ Perform("color")
  /\ current_color' = Head(todo).color
  /\ UNCHANGED <<eif, video, row, column, cursor, terminal_lock, flags, previous_color>>

(* a coloured write before and after its text *)
Paint ==
  /\ Perform("paint")
  /\ previous_color' = current_color
  /\ current_color' = Head(todo).color
  /\ UNCHANGED <<eif, video, row, column, cursor, terminal_lock, flags>>

RepaintForgottenBug ==
  /\ Perform("repaint")
  /\ UNCHANGED <<eif, terminalVars>>

Repaint ==
  /\ Perform("repaint")
  /\ current_color' = previous_color
  /\ UNCHANGED <<eif, video, row, column, cursor, terminal_lock, flags, previous_color>>

(* terminal_initialize, which does not take the lock but frees it, and     *)
(* does not reset the colour                                               *)
Reset ==
  /\ Perform("reset")
  /\ row' = 0
  /\ column' = 0
  /\ terminal_lock' = FALSE
  /\ video' = [i \in Cells |-> Entry(Blank)]
  /\ cursor' = 0
  /\ UNCHANGED <<eif, current_color, flags, previous_color>>

TerminalStep == \/ Acquire \/ Release \/ Put \/ Backspace \/ UpdateCursor
                \/ SetColor \/ Paint \/ Repaint \/ Reset
=============================================================================
