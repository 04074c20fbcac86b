------------------------------- MODULE Shell -------------------------------
(***************************************************************************)
(* The keyboard, io/keyboard.c, and the commands, shell/commands.c, over   *)
(* the terminal and the desktop, with the exception handlers of            *)
(* cpu/interrupts.c and cpu/tss.c, which write to the same terminal.       *)
(*                                                                         *)
(* A text that the code prints is abstracted to a few characters: Text     *)
(* for its wording, Prompt for "> " or ">".                                *)
(***************************************************************************)
EXTENDS Terminal, Desktop

CONSTANTS
  Keys,                      \* scancodes of keys that are no modifiers
  normal_table, shift_table, \* the character of each key, Nul if it has none
  Nul, Erase, Tab,           \* '\0', '\b', '\t'
  Capital,                   \* for each lower-case letter its capital
  INPUT_SIZE,
  CommandLine,               \* what is typed for each command with a fixed name
  EchoPrefix,                \* "echo "
  Text, Prompt, Red, Green   \* output

Shifts == {"left", "right"}
Fixed == {"empty", "help", "clear", "info", "shutdown", "uptime", "test", "gui"}
Small == DOMAIN Capital
Capitals == {Capital[c] : c \in Small}

ASSUME ShellAssumption ==
  /\ {normal_table, shift_table} \subseteq [Keys -> Chars \cup {Nul, Erase}]
  /\ Nul \notin Chars /\ Erase \notin Chars
  /\ Tab \in Chars \ {Newline}
  /\ Printable \subseteq Chars \ {Newline, Tab}
  /\ Prompt \in Chars \ {Newline, Blank}
  /\ Text \in Chars \ {Newline}
  /\ Small \cup Capitals \subseteq Chars \ {Newline}
  /\ CommandLine \in [Fixed -> Seq(Chars)] /\ CommandLine["empty"] = <<>>
  /\ INPUT_SIZE \in Nat \ {0}
  /\ {Red, Green} \subseteq Colors \ {LightGrey}
  (* A line with its prompt fits the screen, so its beginning never scrolls *)
  (* away: 129 cells of 80 * 24 in the code.                                *)
  /\ INPUT_SIZE <= VGA_WIDTH * (VGA_HEIGHT - 1)

VARIABLES
  input,      \* input[0 .. input_length - 1]
  shift, caps_lock,
  held,       \* the shift keys that are physically down
  trap        \* "no IDT", "none", or once an exception was raised whether the
              \* code it hit held terminal_lock: "locked", "unlocked"

keyboardVars == <<input, shift, caps_lock, held>>
vars == <<handlerVars, terminalVars, desktopVars, keyboardVars, trap>>

-----------------------------------------------------------------------------
(* What the commands print, as lists of operations. *)
Say == terminal_write(<<Text, Newline>>)
EndWith(s) == terminal_write(<<Newline>> \o s \o <<Prompt>>)

shell_initialize == <<Do("reset")>> \o terminal_write(<<Text, Newline, Prompt>>)

(* test_run_all with `failures` tests that fail *)
TestOutput(failures) ==
  Say \o <<Do("sti")>>
    \o (IF failures THEN terminal_write_colored(<<Text, Newline>>, Red) ELSE <<>>)
    \o terminal_write(<<Newline>>)
    \o terminal_write_colored(<<Text, Newline>>, IF failures THEN Red ELSE Green)
    \o EndWith(<<>>)

ReportUnderLockBug(fields) ==
  Locked(terminal_set_color(Red) \o terminal_write(<<Newline, Text, Newline>>)
           \o (IF fields > 0 THEN Say ELSE <<>>))
    \o <<Do("halt")>>

(* exception_report, as many exception_print_field as `fields`, and        *)
(* exception_halt                                                          *)
Report(fields) ==
  terminal_set_color(Red) \o terminal_write(<<Newline, Text, Newline>>)
    \o (IF fields > 0 THEN Say ELSE <<>>) \o (IF fields > 1 THEN Say ELSE <<>>)
    \o <<Do("halt")>>

-----------------------------------------------------------------------------
(* kmain calls shell_initialize first, with interrupts off and no IDT. *)
Init ==
  /\ TerminalInit
  /\ DesktopInit
  /\ input = <<>>
  /\ shift = FALSE
  /\ caps_lock = FALSE
  /\ held = {}
  /\ trap = "no IDT"
  /\ eif = FALSE
  /\ todo = shell_initialize \o <<Do("idt")>>

(* interrupts_initialize *)
InterruptsInitialize ==
  /\ Perform("idt")
  /\ trap' = "none"
  /\ eif' = TRUE
  /\ UNCHANGED <<terminalVars, desktopVars, keyboardVars>>

-----------------------------------------------------------------------------
(* keyboard_handler, from the scancode to the character *)
Unconverted(k) == IF shift THEN shift_table[k] ELSE normal_table[k]
ToCapital(c) == IF caps_lock /\ c \in Small THEN Capital[c] ELSE c
ToSmall(c) == IF caps_lock /\ ~shift /\ c \in Capitals
              THEN CHOOSE s \in Small : Capital[s] = c ELSE c
Character(k) == ToSmall(ToCapital(Unconverted(k)))

Ready == AtRest /\ trap = "none"

(* Scancodes that only change a flag.  A key that is held repeats. *)
PressShift(s) ==
  /\ Ready
  /\ held' = held \cup {s}
  /\ shift' = TRUE
  /\ UNCHANGED <<handlerVars, terminalVars, desktopVars, input, caps_lock, trap>>

ReleaseShiftKnowsOneBug(s) ==
  /\ Ready
  /\ s \in held
  /\ held' = held \ {s}
  /\ shift' = (shift /\ s = "right")
  /\ UNCHANGED <<handlerVars, terminalVars, desktopVars, input, caps_lock, trap>>

ReleaseShift(s) ==
  /\ Ready
  /\ s \in held
  /\ held' = held \ {s}
  /\ shift' = FALSE
  /\ UNCHANGED <<handlerVars, terminalVars, desktopVars, input, caps_lock, trap>>

PressCapsLock ==
  /\ Ready
  /\ caps_lock' = ~caps_lock
  /\ UNCHANGED <<handlerVars, terminalVars, desktopVars, input, shift, held, trap>>

(* The rest of keyboard_handler, run by keyboard_isr with interrupts off:  *)
(* the buffer is updated and the terminal's operations follow.             *)
Handle(ops) ==
  /\ eif' = FALSE
  /\ todo' = ops \o <<Do("iret")>>
  /\ UNCHANGED <<terminalVars, desktopVars, shift, caps_lock, held, trap>>

Typed(k) == Ready /\ ~gui_active /\ Character(k) # Nul

EraseCharacter(k) ==
  /\ Typed(k)
  /\ Character(k) = Erase
  /\ IF input # <<>>
     THEN input' = SubSeq(input, 1, Len(input) - 1) /\ Handle(terminal_backspace)
     ELSE UNCHANGED input /\ Handle(<<>>)

(* execute_command begins with the newline. *)
EnterLine(k) ==
  /\ Typed(k)
  /\ Character(k) = Newline
  /\ UNCHANGED input
  /\ Handle(terminal_putchar(Newline) \o <<Do("execute")>>)

TypeCharacterTooManyBug(k) ==
  /\ Typed(k)
  /\ Character(k) \notin {Erase, Newline}
  /\ IF Len(input) <= INPUT_SIZE - 1
     THEN /\ input' = Append(input, Character(k))
          /\ Handle(terminal_putchar(Character(k)))
     ELSE UNCHANGED input /\ Handle(<<>>)

TypeCharacter(k) ==
  /\ Typed(k)
  /\ Character(k) \notin {Erase, Newline}
  /\ IF Len(input) < INPUT_SIZE - 1
     THEN /\ input' = Append(input, Character(k))
          /\ Handle(terminal_putchar(Character(k)))
     ELSE UNCHANGED input /\ Handle(<<>>)

(* While the GUI owns the screen, it owns keystrokes too. *)
GuiKey(k) ==
  /\ Ready
  /\ gui_active
  /\ GuiHandleKey(Character(k), Tab, Erase)
  /\ UNCHANGED <<terminalVars, keyboardVars, trap>>

-----------------------------------------------------------------------------
(* execute_command's comparisons.  What follows the command is printed     *)
(* first; input_length is 0 by the time the handler has returned.          *)
Run(line, ops) ==
  /\ todo # <<>>
  /\ Head(todo).op = "execute"
  /\ input = line
  /\ todo' = ops \o Tail(todo)
  /\ input' = <<>>
  /\ UNCHANGED <<eif, terminalVars, desktopVars, shift, caps_lock, held, trap>>

EmptyLine == Run(CommandLine["empty"], terminal_write(<<Prompt>>))
Help == Run(CommandLine["help"], Say \o EndWith(<<>>))
Clear == Run(CommandLine["clear"], shell_initialize)
Info == Run(CommandLine["info"], Say \o EndWith(<<>>))
Shutdown == Run(CommandLine["shutdown"], Say \o <<Do("halt")>>)
Uptime == Run(CommandLine["uptime"], terminal_write(<<Text, Newline, Prompt>>))
Test == \E failures \in BOOLEAN : Run(CommandLine["test"], TestOutput(failures))
GuiCommand == Run(CommandLine["gui"], <<Do("gui")>>)

IsEcho(line) == /\ Len(line) >= Len(EchoPrefix)
                /\ SubSeq(line, 1, Len(EchoPrefix)) = EchoPrefix
Named(line) == \E c \in Fixed : CommandLine[c] = line

Echo == /\ IsEcho(input)
        /\ Run(input, terminal_write(SubSeq(input, Len(EchoPrefix) + 1, Len(input)))
                        \o EndWith(<<>>))
Unknown == /\ ~IsEcho(input) /\ ~Named(input)
           /\ Run(input, terminal_write(<<Text, Newline, Newline, Prompt>>))

(* gui without a framebuffer *)
GuiRefused ==
  /\ todo # <<>>
  /\ Head(todo).op = "gui"
  /\ ModeFound = NoMode
  /\ todo' = terminal_write_colored(<<Text, Newline, Newline, Prompt>>, Red)
               \o Tail(todo)
  /\ UNCHANGED <<eif, terminalVars, desktopVars, keyboardVars, trap>>

Execute == \/ EmptyLine \/ Help \/ Clear \/ Info \/ Shutdown \/ Uptime
           \/ Test \/ GuiCommand \/ Echo \/ Unknown \/ GuiRefused

-----------------------------------------------------------------------------
(* An exception, or an event whose vector has no gate and ends as a double *)
(* fault: NMI, machine check, spurious IRQ7.  Its handler never returns,   *)
(* so what the CPU was doing is never resumed.                             *)
Raise(fields) ==
  /\ trap' = IF terminal_lock THEN "locked" ELSE "unlocked"
  /\ todo' = Report(fields)
  /\ eif' = FALSE
  /\ UNCHANGED <<terminalVars, keyboardVars>>

Fault == /\ trap = "none"
         /\ \E fields \in 0 .. 2 : Raise(fields)
         /\ UNCHANGED desktopVars

(* page_fault_handler in the middle of framebuffer_present *)
PageFault == PresentFaults /\ Raise(2)

-----------------------------------------------------------------------------
Keystroke == \E k \in Keys : \/ EraseCharacter(k) \/ EnterLine(k)
                             \/ TypeCharacter(k) \/ GuiKey(k)

Modifier == \/ \E s \in Shifts : PressShift(s) \/ ReleaseShift(s)
            \/ PressCapsLock

Returns == /\ Iret \/ Sti
           /\ UNCHANGED <<terminalVars, desktopVars, keyboardVars, trap>>

Next ==
  \/ InterruptsInitialize
  \/ Keystroke
  \/ Modifier
  \/ Execute
  \/ TerminalStep /\ UNCHANGED <<desktopVars, keyboardVars, trap>>
  \/ DesktopStep /\ UNCHANGED <<terminalVars, keyboardVars, trap>>
  \/ Gui /\ UNCHANGED <<terminalVars, keyboardVars, trap>>
  \/ Returns
  \/ Fault
  \/ PageFault

Spec == Init /\ [][Next]_vars

(* The CPU goes on with what it is doing, with interrupts off or on. *)
Continue == /\ todo # <<>>
            /\ Next
            /\ trap' = trap \/ trap = "no IDT"
FairSpec == Spec /\ WF_vars(Continue)

-----------------------------------------------------------------------------
Ops == TerminalOps \cup DesktopOps \cup
         [op : {"execute", "iret", "sti", "idt", "halt"}]

TypeOK ==
  /\ TerminalTypeOK
  /\ DesktopTypeOK
  /\ eif \in BOOLEAN
  /\ todo \in Seq(Ops)
  /\ input \in Seq(Chars \ {Newline})
  /\ Len(input) < INPUT_SIZE
  /\ shift \in BOOLEAN /\ caps_lock \in BOOLEAN
  /\ held \subseteq Shifts
  /\ trap \in {"no IDT", "none", "locked", "unlocked"}

(* Between keystrokes the screen shows, right before the cursor, the line  *)
(* that Enter would execute, behind a prompt, wherever typing, erasing     *)
(* across the margin, scrolling and the output of commands have put it.    *)
LineOnScreen ==
  AtRest /\ trap = "none" /\ ~gui_active =>
    /\ Position > Len(input)
    /\ video[Position - Len(input) - 1].char = Prompt
    /\ \A i \in 1 .. Len(input) :
         video[Position - Len(input) + i - 1].char = input[i]
    /\ cursor = Position

(* Nothing is left over on the screen from the cursor on: erased and       *)
(* scrolled cells are blank, also in the middle of every call.             *)
NothingBehindCursor ==
  trap # "no IDT" => \A i \in Cells : i >= Position => video[i].char = Blank

(* Nobody leaves the terminal in another colour than it found it in, but   *)
(* for an exception's report, the last thing the machine prints.           *)
ColorRestored ==
  trap = "none" /\ ~terminal_lock => current_color = LightGrey

(* Interrupts are off while terminal_lock is held, and the only one who    *)
(* ever finds it taken, and then spins for ever, is the handler of an      *)
(* exception that hit its holder.                                          *)
OnlyFaultsSpin ==
  terminal_lock => /\ ~eif
                   /\ todo # <<>> /\ Head(todo).op = "acquire" => trap = "locked"

(* The shift flag, one for two keys, is never left on with both keys up. *)
ShiftNeverSticks == shift => held # {}

(* The line above the cursor is the last one of a report. *)
ReportShown ==
  /\ column = 0 /\ row > 0
  /\ video[Position - VGA_WIDTH] = [char |-> Text, color |-> Red]

(* An exception that does not hit the terminal's own code is reported in   *)
(* red, and the machine halts with the report on the screen.               *)
FaultReported == (trap = "unlocked") ~> (Halted /\ ReportShown)

-----------------------------------------------------------------------------
(* What the desktop should look like with the focus at f and the notes t.  *)
Covers(w, p) == LET g == Geometry[w] IN Inside(p, g.x, g.y, g.width, g.height)

WindowPart(w, f, t, p) ==
  LET g == Geometry[w]
      tx == ContentX(g) + TextX
      ty == ContentY(g) + TextY
  IN  IF ~Inside(p, g.x + 1, g.y + 1, g.width - 2, g.height - 2) THEN <<"border">>
      ELSE IF p[2] \in g.y + 1 .. g.y + TITLE_BAR_HEIGHT
      THEN TitleOf(w, f > 0 /\ InOrder[f] = w)
      ELSE IF w = "notes" /\ Inside(p, tx, ty, Len(t) * FONT_GLYPH_SIZE, FONT_GLYPH_SIZE)
      THEN <<t[(p[1] - tx) \div FONT_GLYPH_SIZE + 1],
             (p[1] - tx) % FONT_GLYPH_SIZE, p[2] - ty>>
      ELSE <<w>>

Picture(f, t, p) ==
  IF \E w \in Windows : Covers(w, p)
  THEN WindowPart(CHOOSE w \in Windows : Covers(w, p), f, t, p)
  ELSE <<"desktop">>

(* The pixels in the line of the notes to the right of their window *)
Spill == LET g == Geometry["notes"] IN
  {p \in DOMAIN hw : /\ p[1] >= ContentX(g) + ContentWidth(g)
                     /\ p[2] \in ContentY(g) + TextY ..
                                ContentY(g) + TextY + FONT_GLYPH_SIZE - 1}

Shows(f, t) == \A p \in DOMAIN hw \ Spill : hw[p] = Picture(f, t, p)

(* Between keystrokes the display shows the three windows with the focus   *)
(* and the notes as they are, apart from what a long note left to the      *)
(* right of its window.                                                    *)
DisplayIsCurrent == gui_active /\ AtRest => Shows(focused_window, notes)

(* At no time does the display show a window half drawn: what it shows is  *)
(* a whole picture, at most one keystroke old, with one title bar or none  *)
(* highlighted.                                                            *)
NeverHalfDrawn ==
  gui_active /\ trap = "none" =>
    \/ \A p \in DOMAIN hw : hw[p] = <<"unknown">>
    \/ \E f \in 0 .. Len(InOrder) :
         \E t \in {notes} \cup {SubSeq(notes, 1, Len(notes) - 1)}
                 \cup {Append(notes, c) : c \in Printable} : Shows(f, t)

(* Redrawing a window touches no pixel outside of it (gui.h:41-42). *)
RedrawStaysInside ==
  [][\A w \in Windows :
       todo # <<>> /\ Head(todo) = [op |-> "window", window |-> w] /\ trap' = trap =>
         \A p \in DOMAIN back : back'[p] # back[p] => Covers(w, p)]_vars
=============================================================================
