---------------------------- MODULE ShellProofs ----------------------------
(***************************************************************************)
(* Proofs about Shell for every screen, keyboard layout, command set and   *)
(* display mode.                                                           *)
(***************************************************************************)
EXTENDS Shell, TLAPS, SequenceTheorems

-----------------------------------------------------------------------------
(* The lists of operations that calls are. *)

LEMMA DoIsOp ==
  ASSUME NEW name \in {"acquire", "release", "cursor", "backspace", "reset",
                       "repaint", "gui", "desktop", "present", "execute",
                       "iret", "sti", "idt", "halt"}
  PROVE  Do(name) \in Ops
  BY DEF Do, Ops, TerminalOps, DesktopOps

LEMMA LockedIsOps ==
  ASSUME NEW ops \in Seq(Ops)
  PROVE  Locked(ops) \in Seq(Ops)
  BY DoIsOp DEF Locked

LEMMA PutsIsOps ==
  ASSUME NEW s \in Seq(Chars)
  PROVE  Puts(s) \in Seq(Ops)
<1>1. \A i \in 1 .. Len(s) : [op |-> "put", char |-> s[i]] \in Ops
  BY DEF Ops, TerminalOps
<1> QED BY <1>1 DEF Puts

LEMMA WriteIsOps ==
  ASSUME NEW s \in Seq(Chars)
  PROVE  terminal_write(s) \in Seq(Ops)
<1>1. Puts(s) \o <<Do("cursor")>> \in Seq(Ops)
  BY PutsIsOps, DoIsOp
<1> QED BY <1>1, LockedIsOps DEF terminal_write

LEMMA ColoredIsOps ==
  ASSUME NEW s \in Seq(Chars), NEW k \in Colors
  PROVE  terminal_write_colored(s, k) \in Seq(Ops)
<1>1. <<[op |-> "paint", color |-> k]>> \in Seq(Ops)
  BY DEF Ops, TerminalOps
<1>2. <<Do("cursor"), Do("repaint")>> \in Seq(Ops)
  BY DoIsOp
<1>3. <<[op |-> "paint", color |-> k]>> \o Puts(s) \o <<Do("cursor"), Do("repaint")>>
        \in Seq(Ops)
  BY <1>1, <1>2, PutsIsOps
<1> QED BY <1>3, LockedIsOps DEF terminal_write_colored

LEMMA CharsAndColors ==
  /\ {Text, Newline, Prompt, Tab} \subseteq Chars
  /\ {Red, Green, LightGrey} \subseteq Colors
  BY ScreenAssumption, ShellAssumption

LEMMA TextsAreChars ==
  /\ <<Text, Newline>> \in Seq(Chars)
  /\ <<Text, Newline, Prompt>> \in Seq(Chars)
  /\ <<Text, Newline, Newline, Prompt>> \in Seq(Chars)
  /\ <<Newline, Text, Newline>> \in Seq(Chars)
  /\ <<Newline>> \in Seq(Chars)
  /\ <<Prompt>> \in Seq(Chars)
  BY CharsAndColors

LEMMA OutputIsOps ==
  /\ Say \in Seq(Ops)
  /\ EndWith(<<>>) \in Seq(Ops)
  /\ shell_initialize \in Seq(Ops)
  /\ \A failures \in BOOLEAN : TestOutput(failures) \in Seq(Ops)
  /\ \A fields \in 0 .. 2 : Report(fields) \in Seq(Ops)
<1>1. Say \in Seq(Ops)
  BY TextsAreChars, WriteIsOps DEF Say
<1>2. <<Newline>> \o <<>> \o <<Prompt>> \in Seq(Chars)
  BY TextsAreChars
<1>3. EndWith(<<>>) \in Seq(Ops)
  BY <1>2, WriteIsOps DEF EndWith
<1>4. shell_initialize \in Seq(Ops)
  BY TextsAreChars, WriteIsOps, DoIsOp DEF shell_initialize
<1>5. ASSUME NEW failures \in BOOLEAN PROVE TestOutput(failures) \in Seq(Ops)
  <2> DEFINE lines == IF failures THEN terminal_write_colored(<<Text, Newline>>, Red)
                      ELSE <<>>
             verdict == terminal_write_colored(<<Text, Newline>>,
                                               IF failures THEN Red ELSE Green)
  <2>0. /\ terminal_write_colored(<<Text, Newline>>, Red) \in Seq(Ops)
        /\ terminal_write_colored(<<Text, Newline>>, Green) \in Seq(Ops)
    <3>1. <<Text, Newline>> \in Seq(Chars) /\ Red \in Colors /\ Green \in Colors
      BY TextsAreChars, CharsAndColors
    <3> QED BY <3>1, ColoredIsOps
  <2>1. lines \in Seq(Ops) /\ verdict \in Seq(Ops)
    <3>1. CASE failures
      BY <2>0, <3>1
    <3>2. CASE ~failures
      BY <2>0, <3>2
    <3> QED BY <3>1, <3>2
  <2>2. terminal_write(<<Newline>>) \in Seq(Ops)
    BY TextsAreChars, WriteIsOps
  <2>3. <<Do("sti")>> \in Seq(Ops)
    BY DoIsOp
  <2> HIDE DEF lines, verdict
  <2>4. Say \o <<Do("sti")>> \o lines \o terminal_write(<<Newline>>) \o verdict
          \o EndWith(<<>>) \in Seq(Ops)
    BY <1>1, <1>3, <2>1, <2>2, <2>3
  <2> QED BY <2>4 DEF TestOutput, lines, verdict
<1>6. ASSUME NEW fields \in 0 .. 2 PROVE Report(fields) \in Seq(Ops)
  <2>1. <<[op |-> "color", color |-> Red]>> \in Seq(Ops)
    BY CharsAndColors DEF Ops, TerminalOps
  <2>2. terminal_set_color(Red) \in Seq(Ops)
    BY <2>1, LockedIsOps DEF terminal_set_color
  <2>3. terminal_write(<<Newline, Text, Newline>>) \in Seq(Ops)
    BY TextsAreChars, WriteIsOps
  <2>4. <<Do("halt")>> \in Seq(Ops)
    BY DoIsOp
  <2> QED BY <1>1, <2>2, <2>3, <2>4 DEF Report
<1> QED BY <1>1, <1>3, <1>4, <1>5, <1>6

-----------------------------------------------------------------------------
(* Arithmetic of the screen. *)

LEMMA PositionIsCell ==
  ASSUME NEW r \in 0 .. VGA_HEIGHT - 1, NEW c \in 0 .. VGA_WIDTH - 1
  PROVE  r * VGA_WIDTH + c \in Cells
<1>1. VGA_WIDTH \in Nat /\ VGA_HEIGHT \in Nat
  BY ScreenAssumption
<1>2. \A x, y \in Nat : x * y \in Nat
  OBVIOUS
<1>3. /\ r * VGA_WIDTH \in Nat
      /\ (VGA_HEIGHT - 1 - r) * VGA_WIDTH \in Nat
  BY <1>1, <1>2
<1>4. (VGA_HEIGHT - 1 - r) * VGA_WIDTH = VGA_WIDTH * VGA_HEIGHT - VGA_WIDTH - r * VGA_WIDTH
  BY <1>1
<1>5. VGA_WIDTH * VGA_HEIGHT \in Nat
  BY <1>1, <1>2
<1> QED BY <1>1, <1>3, <1>4, <1>5 DEF Cells

-----------------------------------------------------------------------------
(* Types. *)

(* Once the windows are there, one of them has the focus. *)
FocusInv == windows = InOrder => focused_window > 0

TInv == TypeOK /\ FocusInv

LEMMA CharacterIsTyped ==
  ASSUME TypeOK, NEW k \in Keys
  PROVE  Character(k) \in Chars \cup {Nul, Erase}
<1>1. Unconverted(k) \in Chars \cup {Nul, Erase}
  BY ShellAssumption DEF Unconverted
<1>2. \A c \in Small : Capital[c] \in Chars
  BY ShellAssumption DEF Capitals
<1>3. ToCapital(Unconverted(k)) \in Chars \cup {Nul, Erase}
  BY <1>1, <1>2 DEF ToCapital
<1>4. \A c \in Capitals : (CHOOSE s \in Small : Capital[s] = c) \in Chars
  BY ShellAssumption DEF Capitals
<1> QED BY <1>3, <1>4 DEF Character, ToSmall

LEMMA PerformIsTyped ==
  ASSUME NEW name, Perform(name), todo \in Seq(Ops)
  PROVE  /\ todo' \in Seq(Ops)
         /\ Head(todo) \in Ops
         /\ Head(todo).op = name
  BY DEF Perform

LEMMA InitTyped == Init => TInv
<1> SUFFICES ASSUME Init PROVE TInv
  OBVIOUS
<1>1. 0 \in Cells
  BY PositionIsCell, ScreenAssumption
<1>2. TerminalTypeOK
  <2>1. /\ \E c \in Chars : video = [j \in Cells |-> [char |-> c, color |-> LightGrey]]
        /\ row = 0 /\ column = 0 /\ cursor = 0
        /\ current_color = LightGrey /\ previous_color = LightGrey
        /\ terminal_lock \in BOOLEAN /\ flags \in BOOLEAN
    BY Zenon DEF Init, TerminalInit
  <2>2. video \in [Cells -> [char : Chars, color : Colors]]
    BY <2>1, ScreenAssumption
  <2> QED BY <1>1, <2>1, <2>2, ScreenAssumption DEF TerminalTypeOK
<1>3. DesktopTypeOK /\ FocusInv
  <2>1. /\ grub \in GrubModes \cup {NoMode} /\ info = NoMode
        /\ bochs \in BOOLEAN /\ gui_ready \in BOOLEAN /\ gui_active \in BOOLEAN
        /\ windows = <<>> /\ focused_window = 0 /\ notes = <<>>
    BY Zenon DEF Init, DesktopInit
  <2>2. focused_window \in 0 .. Len(windows) /\ notes \in Seq(Printable) /\ Len(notes) < NOTES_BUFFER_SIZE
    BY <2>1, DesktopAssumption
  <2>3. windows # InOrder
    BY <2>1 DEF InOrder
  <2> QED BY <2>1, <2>2, <2>3 DEF DesktopTypeOK, FocusInv
<1>4. todo \in Seq(Ops)
  <2>1. shell_initialize \in Seq(Ops) /\ <<Do("idt")>> \in Seq(Ops)
    BY OutputIsOps, DoIsOp
  <2>2. todo = shell_initialize \o <<Do("idt")>>
    BY Zenon DEF Init
  <2> QED BY <2>1, <2>2
<1>5. eif \in BOOLEAN /\ shift \in BOOLEAN /\ caps_lock \in BOOLEAN
  BY Zenon DEF Init
<1>6. /\ input \in Seq(Chars \ {Newline}) /\ Len(input) < INPUT_SIZE
      /\ held \subseteq Shifts
      /\ trap \in {"no IDT", "none", "locked", "unlocked"}
  <2>1. input = <<>>
    BY Zenon DEF Init
  <2>2. held = {} /\ trap = "no IDT"
    BY Zenon DEF Init
  <2>3. INPUT_SIZE \in Nat \ {0}
    BY ShellAssumption, Zenon
  <2>4. input \in Seq(Chars \ {Newline}) /\ Len(input) = 0
    BY <2>1
  <2>5. 0 < INPUT_SIZE
    BY <2>3
  <2> QED BY <2>2, <2>4, <2>5, Zenon
<1> QED BY <1>2, <1>3, <1>4, <1>5, <1>6, Zenon DEF TInv, TypeOK

LEMMA TerminalStepTyped ==
  ASSUME TInv, TerminalStep, UNCHANGED <<desktopVars, keyboardVars, trap>>
  PROVE  TInv'
<1>1. /\ DesktopTypeOK' /\ FocusInv'
      /\ input' \in Seq(Chars \ {Newline}) /\ Len(input') < INPUT_SIZE
      /\ shift' \in BOOLEAN /\ caps_lock' \in BOOLEAN /\ held' \subseteq Shifts
      /\ trap' \in {"no IDT", "none", "locked", "unlocked"}
  BY DEF TInv, TypeOK, FocusInv, DesktopTypeOK, desktopVars, keyboardVars
<1>2. ASSUME NEW name, Perform(name)
      PROVE  todo' \in Seq(Ops) /\ Head(todo) \in Ops /\ Head(todo).op = name
  BY <1>2, PerformIsTyped DEF TInv, TypeOK
<1>3. /\ Position \in Cells /\ 0 \in Cells
      /\ row \in 0 .. VGA_HEIGHT - 1 /\ column \in 0 .. VGA_WIDTH - 1
      /\ VGA_HEIGHT \in Nat \ {0} /\ VGA_WIDTH \in Nat \ {0}
  <2>1. row \in 0 .. VGA_HEIGHT - 1 /\ column \in 0 .. VGA_WIDTH - 1
    BY Zenon DEF TInv, TypeOK, TerminalTypeOK
  <2>2. VGA_HEIGHT \in Nat \ {0} /\ VGA_WIDTH \in Nat \ {0}
    BY ScreenAssumption
  <2>3. 0 * VGA_WIDTH + 0 \in Cells
    BY <2>2, PositionIsCell
  <2>4. Position \in Cells
    BY <2>1, PositionIsCell, Zenon DEF Position
  <2> QED BY <2>1, <2>2, <2>3, <2>4
<1>4. \A c \in Chars : Entry(c) \in [char : Chars, color : Colors]
  BY DEF Entry, TInv, TypeOK, TerminalTypeOK
<1> SUFFICES todo' \in Seq(Ops) /\ eif' \in BOOLEAN /\ TerminalTypeOK'
  BY <1>1, Zenon DEF TInv, TypeOK
<1> USE DEF TerminalTypeOK
<1>5. CASE Acquire
  BY <1>2, <1>5 DEF Acquire, TInv, TypeOK
<1>6. CASE Release
  BY <1>2, <1>6 DEF Release, TInv, TypeOK
<1>7. CASE Put
  <2>1. Head(todo).char \in Chars
    BY <1>2, <1>7 DEF Put, Ops, TerminalOps, DesktopOps
  <2>2. ASSUME NEW v \in [Cells -> [char : Chars, color : Colors]], NextRow(v)
        PROVE  /\ row' \in 0 .. VGA_HEIGHT - 1
               /\ column' \in 0 .. VGA_WIDTH - 1
               /\ video' \in [Cells -> [char : Chars, color : Colors]]
    BY <2>2, <1>3, <1>4, ScreenAssumption DEF NextRow
  <2> DEFINE v == [video EXCEPT ![Position] = Entry(Head(todo).char)]
  <2>3. v \in [Cells -> [char : Chars, color : Colors]] /\ video \in [Cells -> [char : Chars, color : Colors]]
    BY <2>1, <1>3, <1>4 DEF TInv, TypeOK
  <2>4. \/ NextRow(video)
        \/ NextRow(v)
        \/ column + 1 # VGA_WIDTH /\ video' = v /\ column' = column + 1 /\ UNCHANGED row
    BY <1>7 DEF Put
  <2> HIDE DEF v
  <2>5. /\ row' \in 0 .. VGA_HEIGHT - 1
        /\ column' \in 0 .. VGA_WIDTH - 1
        /\ video' \in [Cells -> [char : Chars, color : Colors]]
    BY <2>2, <2>3, <2>4, <1>3
  <2> QED BY <2>5, <1>2, <1>7 DEF Put, TInv, TypeOK
<1>8. CASE Backspace
  <2>1. CASE row = 0 /\ column = 0
    BY <2>1, <1>2, <1>8 DEF Backspace, TInv, TypeOK
  <2>2. CASE ~(row = 0 /\ column = 0)
    <3>1. row' \in 0 .. VGA_HEIGHT - 1 /\ column' \in 0 .. VGA_WIDTH - 1
      BY <2>2, <1>3, <1>8 DEF Backspace
    <3>2. row' * VGA_WIDTH + column' \in Cells
      BY <3>1, PositionIsCell
    <3>3. video' \in [Cells -> [char : Chars, color : Colors]] /\ cursor' \in Cells
      BY <2>2, <3>2, <1>4, <1>8, ScreenAssumption DEF Backspace, TInv, TypeOK
    <3> QED BY <3>1, <3>3, <1>2, <1>8 DEF Backspace, TInv, TypeOK
  <2> QED BY <2>1, <2>2
<1>9. CASE UpdateCursor
  BY <1>2, <1>3, <1>9 DEF UpdateCursor, TInv, TypeOK
<1>10. CASE SetColor
  <2>1. Head(todo).color \in Colors
    BY <1>2, <1>10 DEF SetColor, Ops, TerminalOps, DesktopOps
  <2> QED BY <2>1, <1>2, <1>10 DEF SetColor, TInv, TypeOK
<1>11. CASE Paint
  <2>1. Head(todo).color \in Colors
    BY <1>2, <1>11 DEF Paint, Ops, TerminalOps, DesktopOps
  <2> QED BY <2>1, <1>2, <1>11 DEF Paint, TInv, TypeOK
<1>12. CASE Repaint
  BY <1>2, <1>12 DEF Repaint, TInv, TypeOK
<1>13. CASE Reset
  <2>1. video' \in [Cells -> [char : Chars, color : Colors]]
    BY <1>4, <1>13, ScreenAssumption DEF Reset
  <2>2. todo' \in Seq(Ops)
    BY <1>2, <1>13 DEF Reset
  <2>3. terminal_lock' \in BOOLEAN /\ flags' \in BOOLEAN /\ eif' \in BOOLEAN
    BY <1>13, Zenon DEF Reset, TInv, TypeOK
  <2>4. row' \in 0 .. VGA_HEIGHT - 1 /\ column' \in 0 .. VGA_WIDTH - 1 /\ cursor' \in Cells
    BY <1>13, <1>3 DEF Reset
  <2>5. current_color' \in Colors /\ previous_color' \in Colors
    BY <1>13, Zenon DEF Reset, TInv, TypeOK
  <2> QED BY <2>1, <2>2, <2>3, <2>4, <2>5, Zenon
<1> QED BY <1>5, <1>6, <1>7, <1>8, <1>9, <1>10, <1>11, <1>12, <1>13, Zenon DEF TerminalStep
(* What a step of the keyboard, of a command or of an exception leaves of   *)
(* the types to show.                                                      *)
LEMMA ConsoleFramed ==
  ASSUME TInv, UNCHANGED terminalVars, UNCHANGED desktopVars,
         eif' \in BOOLEAN, todo' \in Seq(Ops),
         input' \in Seq(Chars \ {Newline}), Len(input') < INPUT_SIZE,
         shift' \in BOOLEAN, caps_lock' \in BOOLEAN, held' \subseteq Shifts,
         trap' \in {"no IDT", "none", "locked", "unlocked"}
  PROVE  TInv'
<1>1. TerminalTypeOK'
  BY DEF TInv, TypeOK, TerminalTypeOK, terminalVars, Cells
<1>2. DesktopTypeOK' /\ FocusInv'
  BY DEF TInv, TypeOK, FocusInv, DesktopTypeOK, desktopVars
<1> QED BY <1>1, <1>2, Zenon DEF TInv, TypeOK

LEMMA ModifierTyped ==
  ASSUME TInv, Modifier
  PROVE  TInv'
<1>1. /\ UNCHANGED terminalVars /\ UNCHANGED desktopVars
      /\ UNCHANGED <<todo, eif, input, trap>>
  BY Zenon DEF Modifier, PressShift, ReleaseShift, PressCapsLock, handlerVars
<1>2. shift' \in BOOLEAN /\ caps_lock' \in BOOLEAN
  BY Zenon DEF Modifier, PressShift, ReleaseShift, PressCapsLock, TInv, TypeOK
<1>3. held' \subseteq Shifts
  BY DEF Modifier, PressShift, ReleaseShift, PressCapsLock, TInv, TypeOK
<1>4. /\ eif' \in BOOLEAN /\ todo' \in Seq(Ops)
      /\ input' \in Seq(Chars \ {Newline}) /\ Len(input') < INPUT_SIZE
      /\ trap' \in {"no IDT", "none", "locked", "unlocked"}
  BY <1>1, Zenon DEF TInv, TypeOK
<1> QED BY <1>1, <1>2, <1>3, <1>4, ConsoleFramed

LEMMA HandledIsTyped ==
  ASSUME TInv, NEW ops \in Seq(Ops), Handle(ops),
         input' \in Seq(Chars \ {Newline}), Len(input') < INPUT_SIZE
  PROVE  TInv'
<1>1. /\ UNCHANGED terminalVars /\ UNCHANGED desktopVars
      /\ UNCHANGED <<shift, caps_lock, held, trap>>
      /\ eif' \in BOOLEAN
  BY Zenon DEF Handle
<1>2. todo' \in Seq(Ops)
  <2>1. <<Do("iret")>> \in Seq(Ops)
    BY DoIsOp
  <2>2. todo' = ops \o <<Do("iret")>>
    BY Zenon DEF Handle
  <2> QED BY <2>1, <2>2
<1>3. /\ shift' \in BOOLEAN /\ caps_lock' \in BOOLEAN /\ held' \subseteq Shifts
      /\ trap' \in {"no IDT", "none", "locked", "unlocked"}
  BY <1>1, Zenon DEF TInv, TypeOK
<1> QED BY <1>1, <1>2, <1>3, ConsoleFramed, Zenon

LEMMA CallsAreOps ==
  /\ terminal_backspace \in Seq(Ops)
  /\ <<>> \in Seq(Ops)
  /\ \A c \in Chars : terminal_putchar(c) \in Seq(Ops)
<1>1. terminal_backspace \in Seq(Ops)
  <2>1. <<Do("backspace")>> \in Seq(Ops)
    BY DoIsOp
  <2> QED BY <2>1, LockedIsOps DEF terminal_backspace
<1>2. ASSUME NEW c \in Chars PROVE terminal_putchar(c) \in Seq(Ops)
  <2>1. <<c>> \in Seq(Chars)
    OBVIOUS
  <2> QED BY <2>1, WriteIsOps DEF terminal_putchar
<1> QED BY <1>1, <1>2

LEMMA TypingTyped ==
  ASSUME TInv, NEW k \in Keys, EraseCharacter(k) \/ EnterLine(k) \/ TypeCharacter(k)
  PROVE  TInv'
<1>1. /\ input \in Seq(Chars \ {Newline}) /\ Len(input) < INPUT_SIZE
      /\ INPUT_SIZE \in Nat \ {0}
  BY ShellAssumption, Zenon DEF TInv, TypeOK
<1>2. CASE EraseCharacter(k)
  <2>1. CASE input # <<>>
    <3>1. input' = SubSeq(input, 1, Len(input) - 1) /\ Handle(terminal_backspace)
      BY <1>2, <2>1, Zenon DEF EraseCharacter
    <3>2. input' \in Seq(Chars \ {Newline}) /\ Len(input') < INPUT_SIZE
      BY <1>1, <2>1, <3>1
    <3> QED BY <3>1, <3>2, CallsAreOps, HandledIsTyped
  <2>2. CASE input = <<>>
    <3>1. UNCHANGED input /\ Handle(<<>>)
      BY <1>2, <2>2, Zenon DEF EraseCharacter
    <3>2. input' \in Seq(Chars \ {Newline}) /\ Len(input') < INPUT_SIZE
      BY <1>1, <3>1
    <3> QED BY <3>1, <3>2, CallsAreOps, HandledIsTyped
  <2> QED BY <2>1, <2>2
<1>3. CASE EnterLine(k)
  <2>1. UNCHANGED input /\ Handle(terminal_putchar(Newline) \o <<Do("execute")>>)
    BY <1>3, Zenon DEF EnterLine
  <2>2. <<Do("execute")>> \in Seq(Ops) /\ terminal_putchar(Newline) \in Seq(Ops)
    BY CallsAreOps, DoIsOp, CharsAndColors
  <2>3. terminal_putchar(Newline) \o <<Do("execute")>> \in Seq(Ops)
    BY <2>2
  <2>4. input' \in Seq(Chars \ {Newline}) /\ Len(input') < INPUT_SIZE
    BY <1>1, <2>1
  <2> QED BY <2>1, <2>3, <2>4, HandledIsTyped
<1>4. CASE TypeCharacter(k)
  <2>1. Character(k) \in Chars \ {Newline}
    <3>1. TypeOK
      BY DEF TInv
    <3>2. Character(k) # Nul /\ Character(k) \notin {Erase, Newline}
      BY <1>4, Zenon DEF TypeCharacter, Typed
    <3> QED BY <3>1, <3>2, CharacterIsTyped
  <2>2. CASE Len(input) < INPUT_SIZE - 1
    <3>1. input' = Append(input, Character(k)) /\ Handle(terminal_putchar(Character(k)))
      BY <1>4, <2>2, Zenon DEF TypeCharacter
    <3>2. input' \in Seq(Chars \ {Newline}) /\ Len(input') < INPUT_SIZE
      BY <1>1, <2>1, <2>2, <3>1
    <3>3. terminal_putchar(Character(k)) \in Seq(Ops)
      BY <2>1, CallsAreOps
    <3> QED BY <3>1, <3>2, <3>3, HandledIsTyped
  <2>3. CASE ~(Len(input) < INPUT_SIZE - 1)
    <3>1. UNCHANGED input /\ Handle(<<>>)
      BY <1>4, <2>3, Zenon DEF TypeCharacter
    <3>2. input' \in Seq(Chars \ {Newline}) /\ Len(input') < INPUT_SIZE
      BY <1>1, <3>1
    <3> QED BY <3>1, <3>2, CallsAreOps, HandledIsTyped
  <2> QED BY <2>2, <2>3
<1> QED BY <1>2, <1>3, <1>4
LEMMA WindowIsOps ==
  /\ \A w \in Windows : gui_redraw_window(w) \in Seq(Ops)
  /\ gui_render(InOrder) \in Seq(Ops)
<1>1. /\ \A w \in Windows : [op |-> "window", window |-> w] \in Ops
      /\ Do("present") \in Ops /\ Do("desktop") \in Ops
  BY DoIsOp DEF Ops, DesktopOps
<1>2. ASSUME NEW w \in Windows PROVE gui_redraw_window(w) \in Seq(Ops)
  <2>1. <<[op |-> "window", window |-> w]>> \in Seq(Ops) /\ <<Do("present")>> \in Seq(Ops)
    BY <1>1
  <2>2. <<[op |-> "window", window |-> w], Do("present")>> =
          <<[op |-> "window", window |-> w]>> \o <<Do("present")>>
    OBVIOUS
  <2> QED BY <2>1, <2>2 DEF gui_redraw_window
<1>3. InOrder \in Seq(Windows)
  BY DEF InOrder, Windows
<1>4. [j \in 1 .. Len(InOrder) |-> [op |-> "window", window |-> InOrder[j]]] \in Seq(Ops)
  BY <1>1, <1>3
<1>5. gui_render(InOrder) \in Seq(Ops)
  BY <1>1, <1>4 DEF gui_render
<1> QED BY <1>2, <1>5

(* What a step of the desktop leaves of the types to show. *)
LEMMA DesktopFramed ==
  ASSUME TInv, UNCHANGED terminalVars, UNCHANGED keyboardVars, UNCHANGED trap,
         UNCHANGED <<grub, bochs>>,
         eif' \in BOOLEAN, todo' \in Seq(Ops),
         gui_ready' \in BOOLEAN, gui_active' \in BOOLEAN,
         windows' \in {<<>>, InOrder}, focused_window' \in 0 .. Len(windows'),
         windows' = InOrder => focused_window' > 0,
         notes' \in Seq(Printable), Len(notes') < NOTES_BUFFER_SIZE,
         info' \in GrubModes \cup {NoMode, GuiMode}
  PROVE  TInv'
<1>1. TerminalTypeOK'
  BY DEF TInv, TypeOK, TerminalTypeOK, terminalVars, Cells
<1>2. grub' \in GrubModes \cup {NoMode} /\ bochs' \in BOOLEAN
  BY Zenon DEF TInv, TypeOK, DesktopTypeOK
<1>3. DesktopTypeOK' /\ FocusInv'
  BY <1>2, Zenon DEF FocusInv, DesktopTypeOK
<1>4. /\ shift' \in BOOLEAN /\ caps_lock' \in BOOLEAN /\ held' \subseteq Shifts
      /\ input' \in Seq(Chars \ {Newline}) /\ Len(input') < INPUT_SIZE
      /\ trap' \in {"no IDT", "none", "locked", "unlocked"}
  BY Zenon DEF TInv, TypeOK, keyboardVars
<1> QED BY <1>1, <1>3, <1>4, Zenon DEF TInv, TypeOK

LEMMA DesktopParts ==
  ASSUME TInv
  PROVE  /\ eif \in BOOLEAN /\ todo \in Seq(Ops)
         /\ grub \in GrubModes \cup {NoMode}
         /\ gui_ready \in BOOLEAN /\ gui_active \in BOOLEAN
         /\ windows \in {<<>>, InOrder} /\ focused_window \in 0 .. Len(windows)
         /\ windows = InOrder => focused_window > 0
         /\ notes \in Seq(Printable) /\ Len(notes) < NOTES_BUFFER_SIZE
         /\ info \in GrubModes \cup {NoMode, GuiMode}
  BY Zenon DEF TInv, TypeOK, DesktopTypeOK, FocusInv

LEMMA DesktopStepTyped ==
  ASSUME TInv, DesktopStep, UNCHANGED <<terminalVars, keyboardVars, trap>>
  PROVE  TInv'
<1>1. \E name : Perform(name)
  BY Zenon DEF DesktopStep, FillDesktop, DrawOneWindow, Present
<1>2. todo' \in Seq(Ops)
  BY <1>1, PerformIsTyped, DesktopParts
<1>3. UNCHANGED <<eif, grub, bochs, gui_ready, gui_active, windows,
                  focused_window, notes, info>>
  BY Zenon DEF DesktopStep, FillDesktop, DrawOneWindow, Present
<1>4. /\ eif' \in BOOLEAN
      /\ gui_ready' \in BOOLEAN /\ gui_active' \in BOOLEAN
      /\ windows' \in {<<>>, InOrder} /\ focused_window' \in 0 .. Len(windows')
      /\ windows' = InOrder => focused_window' > 0
      /\ notes' \in Seq(Printable) /\ Len(notes') < NOTES_BUFFER_SIZE
      /\ info' \in GrubModes \cup {NoMode, GuiMode}
  BY <1>3, DesktopParts, Zenon
<1> QED BY <1>2, <1>3, <1>4, DesktopFramed, Zenon

LEMMA GuiTyped ==
  ASSUME TInv, Gui, UNCHANGED <<terminalVars, keyboardVars, trap>>
  PROVE  TInv'
<1>1. /\ todo # <<>> /\ todo' = gui_render(windows') \o Tail(todo)
      /\ windows' = InOrder /\ focused_window' = 1
      /\ info' = ModeFound
  BY Zenon DEF Gui, AddWindows
<1>2. /\ UNCHANGED <<eif, grub, bochs, notes>>
      /\ gui_ready' \in BOOLEAN /\ gui_active' \in BOOLEAN
  BY Zenon DEF Gui
<1>3. todo' \in Seq(Ops)
  BY <1>1, WindowIsOps, DesktopParts
<1>4. focused_window' \in 0 .. Len(windows') /\ focused_window' > 0
  BY <1>1 DEF InOrder
<1>5. info' \in GrubModes \cup {NoMode, GuiMode}
  BY <1>1, DesktopParts DEF ModeFound
<1>6. /\ eif' \in BOOLEAN /\ notes' \in Seq(Printable) /\ Len(notes') < NOTES_BUFFER_SIZE
      /\ windows' \in {<<>>, InOrder}
  BY <1>1, <1>2, DesktopParts, Zenon
<1> QED BY <1>2, <1>3, <1>4, <1>5, <1>6, DesktopFramed, Zenon

LEMMA GuiKeyTyped ==
  ASSUME TInv, NEW k \in Keys, GuiKey(k)
  PROVE  TInv'
<1>1. /\ UNCHANGED terminalVars /\ UNCHANGED keyboardVars /\ UNCHANGED trap
      /\ UNCHANGED <<grub, bochs, gui_ready, gui_active, windows, info>>
      /\ eif' \in BOOLEAN
      /\ \/ FocusNext
         \/ NotesWindowKey(Character(k), Erase)
         \/ todo' = <<Do("iret")>> /\ UNCHANGED <<focused_window, notes>>
  BY Zenon DEF GuiKey, GuiHandleKey
<1>2. <<Do("iret")>> \in Seq(Ops)
  BY DoIsOp
<1>3. /\ todo' \in Seq(Ops)
      /\ focused_window' \in 0 .. Len(windows)
      /\ windows = InOrder => focused_window' > 0
      /\ notes' \in Seq(Printable) /\ Len(notes') < NOTES_BUFFER_SIZE
  <2>1. CASE FocusNext
    <3>1. /\ Len(windows) > 1
          /\ focused_window' = (focused_window % Len(windows)) + 1
          /\ todo' = gui_redraw_window(windows[focused_window]) \o
                     gui_redraw_window(windows[focused_window']) \o <<Do("iret")>>
          /\ UNCHANGED notes
      BY <2>1, Zenon DEF FocusNext
    <3>2. windows = InOrder /\ Len(windows) = 3 /\ focused_window \in 1 .. 3
      BY <3>1, DesktopParts DEF InOrder
    <3>3. focused_window' \in 1 .. 3
      BY <3>1, <3>2
    <3>4. \A j \in 1 .. 3 : windows[j] \in Windows
      BY <3>2 DEF InOrder, Windows
    <3>5. todo' \in Seq(Ops)
      BY <3>1, <3>2, <3>3, <3>4, <1>2, WindowIsOps
    <3>6. notes' \in Seq(Printable) /\ Len(notes') < NOTES_BUFFER_SIZE
      BY <3>1, DesktopParts, Zenon
    <3> QED BY <3>2, <3>3, <3>5, <3>6
  <2>2. CASE NotesWindowKey(Character(k), Erase)
    <3>1. UNCHANGED focused_window /\ todo' = gui_redraw_window("notes") \o <<Do("iret")>>
      BY <2>2, Zenon DEF NotesWindowKey
    <3>2. todo' \in Seq(Ops)
      BY <3>1, <1>2, WindowIsOps DEF Windows
    <3>3. \/ notes' = notes
          \/ notes # <<>> /\ notes' = SubSeq(notes, 1, Len(notes) - 1)
          \/ /\ Character(k) \in Printable /\ Len(notes) < NOTES_BUFFER_SIZE - 1
             /\ notes' = Append(notes, Character(k))
      BY <2>2, Zenon DEF NotesWindowKey
    <3>4. /\ NOTES_BUFFER_SIZE \in Nat
          /\ notes \in Seq(Printable) /\ Len(notes) < NOTES_BUFFER_SIZE
      BY DesktopAssumption, DesktopParts
    <3>5. notes' \in Seq(Printable) /\ Len(notes') < NOTES_BUFFER_SIZE
      BY <3>3, <3>4
    <3> QED BY <3>1, <3>2, <3>5, DesktopParts, Zenon
  <2>3. CASE todo' = <<Do("iret")>> /\ UNCHANGED <<focused_window, notes>>
    BY <2>3, <1>2, DesktopParts, Zenon
  <2> QED BY <2>1, <2>2, <2>3, <1>1
<1>4. /\ gui_ready' \in BOOLEAN /\ gui_active' \in BOOLEAN
      /\ windows' \in {<<>>, InOrder} /\ focused_window' \in 0 .. Len(windows')
      /\ windows' = InOrder => focused_window' > 0
      /\ info' \in GrubModes \cup {NoMode, GuiMode}
  BY <1>1, <1>3, DesktopParts, Zenon
<1> QED BY <1>1, <1>3, <1>4, DesktopFramed, Zenon
LEMMA RunTyped ==
  ASSUME TInv, NEW line, NEW ops \in Seq(Ops), Run(line, ops)
  PROVE  TInv'
<1>1. /\ UNCHANGED terminalVars /\ UNCHANGED desktopVars
      /\ UNCHANGED <<eif, shift, caps_lock, held, trap>>
      /\ todo # <<>> /\ todo' = ops \o Tail(todo) /\ input' = <<>>
  BY Zenon DEF Run
<1>2. todo' \in Seq(Ops)
  BY <1>1, DesktopParts
<1>3. input' \in Seq(Chars \ {Newline}) /\ Len(input') < INPUT_SIZE
  <2>1. INPUT_SIZE \in Nat \ {0}
    BY ShellAssumption, Zenon
  <2>2. input' = <<>>
    BY <1>1
  <2>3. <<>> \in Seq(Chars \ {Newline}) /\ Len(<<>>) < INPUT_SIZE
    BY <2>1
  <2> QED BY <2>2, <2>3, Zenon
<1>4. /\ eif' \in BOOLEAN /\ shift' \in BOOLEAN /\ caps_lock' \in BOOLEAN
      /\ held' \subseteq Shifts
      /\ trap' \in {"no IDT", "none", "locked", "unlocked"}
  BY <1>1, Zenon DEF TInv, TypeOK
<1> QED BY <1>1, <1>2, <1>3, <1>4, ConsoleFramed, Zenon

LEMMA CommandsAreOps ==
  /\ terminal_write(<<Prompt>>) \in Seq(Ops)
  /\ Say \o EndWith(<<>>) \in Seq(Ops)
  /\ Say \o <<Do("halt")>> \in Seq(Ops)
  /\ terminal_write(<<Text, Newline, Prompt>>) \in Seq(Ops)
  /\ <<Do("gui")>> \in Seq(Ops)
  /\ terminal_write(<<Text, Newline, Newline, Prompt>>) \in Seq(Ops)
  /\ terminal_write_colored(<<Text, Newline, Newline, Prompt>>, Red) \in Seq(Ops)
  /\ \A s \in Seq(Chars) : terminal_write(s) \o EndWith(<<>>) \in Seq(Ops)
<1>1. <<Do("halt")>> \in Seq(Ops) /\ <<Do("gui")>> \in Seq(Ops)
  BY DoIsOp
<1>2. Say \in Seq(Ops) /\ EndWith(<<>>) \in Seq(Ops)
  BY OutputIsOps
<1>3. /\ terminal_write(<<Prompt>>) \in Seq(Ops)
      /\ terminal_write(<<Text, Newline, Prompt>>) \in Seq(Ops)
      /\ terminal_write(<<Text, Newline, Newline, Prompt>>) \in Seq(Ops)
      /\ terminal_write_colored(<<Text, Newline, Newline, Prompt>>, Red) \in Seq(Ops)
  BY TextsAreChars, CharsAndColors, WriteIsOps, ColoredIsOps
<1>4. ASSUME NEW s \in Seq(Chars) PROVE terminal_write(s) \o EndWith(<<>>) \in Seq(Ops)
  BY <1>2, WriteIsOps
<1>5. Say \o EndWith(<<>>) \in Seq(Ops) /\ Say \o <<Do("halt")>> \in Seq(Ops)
  BY <1>1, <1>2
<1> QED BY <1>1, <1>3, <1>4, <1>5, Zenon

LEMMA ExecuteTyped ==
  ASSUME TInv, Execute
  PROVE  TInv'
<1>1. CASE EmptyLine
  BY <1>1, CommandsAreOps, RunTyped DEF EmptyLine
<1>2. CASE Help
  BY <1>2, CommandsAreOps, RunTyped DEF Help
<1>3. CASE Clear
  BY <1>3, OutputIsOps, RunTyped DEF Clear
<1>4. CASE Info
  BY <1>4, CommandsAreOps, RunTyped DEF Info
<1>5. CASE Shutdown
  BY <1>5, CommandsAreOps, RunTyped DEF Shutdown
<1>6. CASE Uptime
  BY <1>6, CommandsAreOps, RunTyped DEF Uptime
<1>7. CASE Test
  BY <1>7, OutputIsOps, RunTyped DEF Test
<1>8. CASE GuiCommand
  BY <1>8, CommandsAreOps, RunTyped DEF GuiCommand
<1>9. CASE Echo
  <2> DEFINE rest == SubSeq(input, Len(EchoPrefix) + 1, Len(input))
  <2>1. input \in Seq(Chars)
    <3>1. input \in Seq(Chars \ {Newline})
      BY Zenon DEF TInv, TypeOK
    <3> QED BY <3>1
  <2>2. Len(EchoPrefix) \in Nat /\ Len(input) >= Len(EchoPrefix)
    BY <1>9, ShellAssumption DEF Echo, IsEcho
  <2>3. rest \in Seq(Chars)
    BY <2>1, <2>2
  <2>4. Run(input, terminal_write(rest) \o EndWith(<<>>))
    BY <1>9, Zenon DEF Echo
  <2> HIDE DEF rest
  <2> QED BY <2>3, <2>4, CommandsAreOps, RunTyped
<1>10. CASE Unknown
  BY <1>10, CommandsAreOps, RunTyped DEF Unknown
<1>11. CASE GuiRefused
  <2>1. /\ UNCHANGED terminalVars /\ UNCHANGED desktopVars
        /\ UNCHANGED <<eif, input, shift, caps_lock, held, trap>>
        /\ todo # <<>>
        /\ todo' = terminal_write_colored(<<Text, Newline, Newline, Prompt>>, Red)
                     \o Tail(todo)
    BY <1>11, Zenon DEF GuiRefused, keyboardVars
  <2>2. todo' \in Seq(Ops)
    BY <2>1, CommandsAreOps, DesktopParts
  <2>3. /\ eif' \in BOOLEAN /\ shift' \in BOOLEAN /\ caps_lock' \in BOOLEAN
        /\ held' \subseteq Shifts
        /\ input' \in Seq(Chars \ {Newline}) /\ Len(input') < INPUT_SIZE
        /\ trap' \in {"no IDT", "none", "locked", "unlocked"}
    BY <2>1, Zenon DEF TInv, TypeOK
  <2> QED BY <2>1, <2>2, <2>3, ConsoleFramed, Zenon
<1> QED BY <1>1, <1>2, <1>3, <1>4, <1>5, <1>6, <1>7, <1>8, <1>9, <1>10, <1>11, Zenon
        DEF Execute

LEMMA ReturnsTyped ==
  ASSUME TInv, InterruptsInitialize \/ Returns
  PROVE  TInv'
<1>1. \E name : Perform(name)
  BY Zenon DEF InterruptsInitialize, Returns, Iret, Sti
<1>2. todo' \in Seq(Ops)
  BY <1>1, PerformIsTyped, DesktopParts
<1>3. /\ UNCHANGED terminalVars /\ UNCHANGED desktopVars /\ UNCHANGED keyboardVars
      /\ eif' \in BOOLEAN
      /\ trap' = "none" \/ UNCHANGED trap
  BY Zenon DEF InterruptsInitialize, Returns, Iret, Sti
<1>4. /\ shift' \in BOOLEAN /\ caps_lock' \in BOOLEAN /\ held' \subseteq Shifts
      /\ input' \in Seq(Chars \ {Newline}) /\ Len(input') < INPUT_SIZE
      /\ trap' \in {"no IDT", "none", "locked", "unlocked"}
  BY <1>3, Zenon DEF TInv, TypeOK, keyboardVars
<1> QED BY <1>2, <1>3, <1>4, ConsoleFramed, Zenon

LEMMA FaultTyped ==
  ASSUME TInv, Fault \/ PageFault
  PROVE  TInv'
<1>1. PICK fields \in 0 .. 2 : Raise(fields)
  <2>1. CASE Fault
    BY <2>1, Zenon DEF Fault
  <2>2. CASE PageFault
    <3>1. Raise(2)
      BY <2>2, Zenon DEF PageFault
    <3>2. 2 \in 0 .. 2
      OBVIOUS
    <3> QED BY <3>1, <3>2
  <2> QED BY <2>1, <2>2
<1>2. /\ UNCHANGED terminalVars /\ UNCHANGED keyboardVars
      /\ todo' = Report(fields) /\ eif' \in BOOLEAN
      /\ trap' \in {"locked", "unlocked"}
  BY <1>1, Zenon DEF Raise
<1>3. todo' \in Seq(Ops)
  BY <1>2, OutputIsOps
<1>4. UNCHANGED <<grub, bochs, gui_ready, gui_active, windows, focused_window, notes, info>>
  BY Zenon DEF Fault, PageFault, PresentFaults, desktopVars
<1>5. TerminalTypeOK'
  BY <1>2 DEF TInv, TypeOK, TerminalTypeOK, terminalVars, Cells
<1>6. DesktopTypeOK' /\ FocusInv'
  BY <1>4 DEF TInv, TypeOK, FocusInv, DesktopTypeOK
<1>7. /\ shift' \in BOOLEAN /\ caps_lock' \in BOOLEAN /\ held' \subseteq Shifts
      /\ input' \in Seq(Chars \ {Newline}) /\ Len(input') < INPUT_SIZE
      /\ trap' \in {"no IDT", "none", "locked", "unlocked"}
  BY <1>2, Zenon DEF TInv, TypeOK, keyboardVars
<1> QED BY <1>2, <1>3, <1>5, <1>6, <1>7, Zenon DEF TInv, TypeOK

LEMMA StutterTyped ==
  ASSUME TInv, UNCHANGED vars
  PROVE  TInv'
<1>1. /\ UNCHANGED terminalVars /\ UNCHANGED desktopVars
      /\ UNCHANGED <<eif, todo, input, shift, caps_lock, held, trap>>
  BY Zenon DEF vars, keyboardVars, handlerVars
<1>2. /\ eif' \in BOOLEAN /\ todo' \in Seq(Ops)
      /\ shift' \in BOOLEAN /\ caps_lock' \in BOOLEAN /\ held' \subseteq Shifts
      /\ input' \in Seq(Chars \ {Newline}) /\ Len(input') < INPUT_SIZE
      /\ trap' \in {"no IDT", "none", "locked", "unlocked"}
  BY <1>1, Zenon DEF TInv, TypeOK
<1> QED BY <1>1, <1>2, ConsoleFramed, Zenon

LEMMA NextTyped == TInv /\ [Next]_vars => TInv'
<1> SUFFICES ASSUME TInv, [Next]_vars PROVE TInv'
  OBVIOUS
<1>1. CASE InterruptsInitialize \/ Returns
  BY <1>1, ReturnsTyped
<1>2. CASE Keystroke
  BY <1>2, TypingTyped, GuiKeyTyped, Zenon DEF Keystroke
<1>3. CASE Modifier
  BY <1>3, ModifierTyped
<1>4. CASE Execute
  BY <1>4, ExecuteTyped
<1>5. CASE TerminalStep /\ UNCHANGED <<desktopVars, keyboardVars, trap>>
  BY <1>5, TerminalStepTyped
<1>6. CASE DesktopStep /\ UNCHANGED <<terminalVars, keyboardVars, trap>>
  BY <1>6, DesktopStepTyped
<1>7. CASE Gui /\ UNCHANGED <<terminalVars, keyboardVars, trap>>
  BY <1>7, GuiTyped
<1>8. CASE Fault \/ PageFault
  BY <1>8, FaultTyped
<1>9. CASE UNCHANGED vars
  BY <1>9, StutterTyped
<1> QED BY <1>1, <1>2, <1>3, <1>4, <1>5, <1>6, <1>7, <1>8, <1>9, Zenon DEF Next

(* Whatever is typed and whatever faults, the next character goes to a     *)
(* cell of the screen, the line leaves room for its terminator, and the    *)
(* focus is on a window.                                                   *)
THEOREM TypeCorrect == Spec => []TypeOK
<1>1. TInv => TypeOK
  BY DEF TInv
<1> QED BY <1>1, InitTyped, NextTyped, PTL DEF Spec
-----------------------------------------------------------------------------
(* Shift. *)

LEMMA OnlyModifiersShift ==
  ASSUME [Next]_vars
  PROVE  Modifier \/ UNCHANGED <<shift, held>>
<1>1. CASE Keystroke
  BY <1>1, Zenon DEF Keystroke, EraseCharacter, EnterLine, TypeCharacter, GuiKey, Handle,
                     keyboardVars
<1>2. CASE Execute
  BY <1>2, Zenon DEF Execute, EmptyLine, Help, Clear, Info, Shutdown, Uptime, Test,
                     GuiCommand, Echo, Unknown, Run, GuiRefused, keyboardVars
<1>3. CASE InterruptsInitialize \/ Returns
  BY <1>3, Zenon DEF InterruptsInitialize, Returns, keyboardVars
<1>4. CASE Fault \/ PageFault
  BY <1>4, Zenon DEF Fault, PageFault, Raise, keyboardVars
<1>5. CASE UNCHANGED keyboardVars
  BY <1>5, Zenon DEF keyboardVars
<1>6. CASE UNCHANGED vars
  BY <1>6, Zenon DEF vars, keyboardVars
<1> QED BY <1>1, <1>2, <1>3, <1>4, <1>5, <1>6, Zenon DEF Next

(* No interleaving of presses, repeats and releases of the two keys leaves *)
(* shift on with both of them up: the code drops it at the first release.  *)
THEOREM ShiftIsSound == Spec => []ShiftNeverSticks
<1>1. Init => ShiftNeverSticks
  BY Zenon DEF Init, ShiftNeverSticks
<1>2. ASSUME ShiftNeverSticks, [Next]_vars PROVE ShiftNeverSticks'
  <2>1. CASE Modifier
    <3>1. CASE \E s \in Shifts : PressShift(s)
      <4>1. \E s \in Shifts : held' = held \cup {s}
        BY <3>1, Zenon DEF PressShift
      <4>2. held' # {}
        BY <4>1
      <4> QED BY <4>2 DEF ShiftNeverSticks
    <3>2. CASE \E s \in Shifts : ReleaseShift(s)
      BY <3>2, Zenon DEF ReleaseShift, ShiftNeverSticks
    <3>3. CASE PressCapsLock
      BY <1>2, <3>3, Zenon DEF PressCapsLock, ShiftNeverSticks
    <3> QED BY <2>1, <3>1, <3>2, <3>3, Zenon DEF Modifier
  <2>2. CASE UNCHANGED <<shift, held>>
    BY <1>2, <2>2, Zenon DEF ShiftNeverSticks
  <2> QED BY <1>2, <2>1, <2>2, OnlyModifiersShift
<1> QED BY <1>1, <1>2, PTL DEF Spec

-----------------------------------------------------------------------------
(* The lock and the colour.  How the terminal stands before and after each *)
(* operation of a list: free, held, or held by a coloured write in between *)
(* its two changes of the colour.                                          *)
Modes == {"free", "held", "painted"}
Kinds == {"call", "report"}

(* From a to b by operation o.  Only a report changes the colour for good, *)
(* and of what needs no lock it only halts.                                *)
Passes(o, a, b, kind) ==
  \/ o.op = "acquire" /\ a = "free" /\ b = "held"
  \/ o.op = "release" /\ a = "held" /\ b = "free"
  \/ o.op = "paint" /\ a = "held" /\ b = "painted"
  \/ o.op = "repaint" /\ a = "painted" /\ b = "held"
  \/ o.op \in {"put", "cursor"} /\ a = b /\ a # "free"
  \/ o.op = "backspace" /\ a = "held" /\ b = "held"
  \/ o.op = "color" /\ a = "held" /\ b = "held" /\ kind = "report"
  \/ /\ o.op \in {"reset", "gui", "desktop", "window", "present", "execute",
                  "iret", "sti", "idt", "halt"}
     /\ a = "free" /\ b = "free"
     /\ kind = "call" \/ o.op = "halt"

Chain(s, a, b, kind) ==
  \E f \in [1 .. Len(s) + 1 -> Modes] :
    /\ f[1] = a
    /\ f[Len(s) + 1] = b
    /\ \A k \in 1 .. Len(s) : Passes(s[k], f[k], f[k + 1], kind)

LEMMA ChainOne ==
  ASSUME NEW o, NEW a \in Modes, NEW b \in Modes, NEW kind, Passes(o, a, b, kind)
  PROVE  Chain(<<o>>, a, b, kind)
<1> DEFINE f == [k \in 1 .. Len(<<o>>) + 1 |-> IF k = 1 THEN a ELSE b]
<1>1. f \in [1 .. Len(<<o>>) + 1 -> Modes]
  OBVIOUS
<1>2. f[1] = a /\ f[Len(<<o>>) + 1] = b /\ f[2] = b /\ Len(<<o>>) = 1 /\ <<o>>[1] = o
  OBVIOUS
<1>3. ASSUME NEW k \in 1 .. Len(<<o>>)
      PROVE  Passes(<<o>>[k], f[k], f[k + 1], kind)
  <2>1. k = 1 /\ k + 1 = 2
    BY <1>2
  <2> HIDE DEF f
  <2> QED BY <1>2, <2>1
<1> HIDE DEF f
<1> QED BY <1>1, <1>2, <1>3 DEF Chain

LEMMA ChainEmpty ==
  ASSUME NEW a \in Modes, NEW kind
  PROVE  Chain(<<>>, a, a, kind)
<1> DEFINE f == [k \in 1 .. Len(<<>>) + 1 |-> a]
<1>1. f \in [1 .. Len(<<>>) + 1 -> Modes] /\ f[1] = a /\ f[Len(<<>>) + 1] = a
  OBVIOUS
<1>2. 1 .. Len(<<>>) = {}
  OBVIOUS
<1> HIDE DEF f
<1> QED BY <1>1, <1>2, Zenon DEF Chain

LEMMA ChainConcat ==
  ASSUME NEW s \in Seq(Ops), NEW t \in Seq(Ops),
         NEW a, NEW b, NEW c, NEW kind,
         Chain(s, a, b, kind), Chain(t, b, c, kind)
  PROVE  Chain(s \o t, a, c, kind)
<1>1. PICK f \in [1 .. Len(s) + 1 -> Modes] :
        /\ f[1] = a
        /\ f[Len(s) + 1] = b
        /\ \A k \in 1 .. Len(s) : Passes(s[k], f[k], f[k + 1], kind)
  BY DEF Chain
<1>2. PICK g \in [1 .. Len(t) + 1 -> Modes] :
        /\ g[1] = b
        /\ g[Len(t) + 1] = c
        /\ \A k \in 1 .. Len(t) : Passes(t[k], g[k], g[k + 1], kind)
  BY DEF Chain
<1> DEFINE h == [k \in 1 .. Len(s \o t) + 1 |->
                   IF k <= Len(s) THEN f[k] ELSE g[k - Len(s)]]
<1>3. Len(s) \in Nat /\ Len(t) \in Nat /\ Len(s \o t) = Len(s) + Len(t)
  OBVIOUS
<1>4. h \in [1 .. Len(s \o t) + 1 -> Modes]
  <2>1. ASSUME NEW k \in 1 .. Len(s \o t) + 1
        PROVE  (IF k <= Len(s) THEN f[k] ELSE g[k - Len(s)]) \in Modes
    <3>1. CASE k <= Len(s)
      BY <3>1, <1>3
    <3>2. CASE ~(k <= Len(s))
      <4>1. k - Len(s) \in 1 .. Len(t) + 1
        BY <3>2, <1>3
      <4> QED BY <4>1, <3>2
    <3> QED BY <3>1, <3>2
  <2> QED BY <2>1
<1>5. h[1] = a
  <2>1. 1 \in 1 .. Len(s \o t) + 1
    BY <1>3
  <2>2. CASE Len(s) = 0
    <3>1. f[1] = a /\ f[1] = b /\ 1 - Len(s) = 1 /\ ~(1 <= Len(s))
      BY <2>2, <1>1
    <3> QED BY <3>1, <2>1, <1>2
  <2>3. CASE Len(s) # 0
    <3>1. 1 <= Len(s)
      BY <2>3, <1>3
    <3> QED BY <3>1, <2>1, <1>1
  <2> QED BY <2>2, <2>3
<1>6. h[Len(s \o t) + 1] = c
  <2>1. /\ Len(s \o t) + 1 \in 1 .. Len(s \o t) + 1
        /\ ~(Len(s \o t) + 1 <= Len(s))
        /\ Len(s \o t) + 1 - Len(s) = Len(t) + 1
    BY <1>3
  <2> QED BY <2>1, <1>2
<1>7. ASSUME NEW k \in 1 .. Len(s \o t)
      PROVE  Passes((s \o t)[k], h[k], h[k + 1], kind)
  <2>1. k \in 1 .. Len(s \o t) + 1 /\ k + 1 \in 1 .. Len(s \o t) + 1
    BY <1>3
  <2>2. CASE k <= Len(s)
    <3>1. (s \o t)[k] = s[k] /\ h[k] = f[k] /\ k \in 1 .. Len(s)
      BY <2>1, <2>2, <1>3
    <3>2. h[k + 1] = f[k + 1]
      <4>1. CASE k + 1 <= Len(s)
        BY <4>1, <2>1
      <4>2. CASE ~(k + 1 <= Len(s))
        <5>1. k + 1 - Len(s) = 1 /\ k + 1 = Len(s) + 1
          BY <4>2, <2>2, <1>3
        <5> QED BY <5>1, <4>2, <2>1, <1>1, <1>2
      <4> QED BY <4>1, <4>2
    <3> HIDE DEF h
    <3> QED BY <3>1, <3>2, <1>1
  <2>3. CASE ~(k <= Len(s))
    <3>1. /\ k - Len(s) \in 1 .. Len(t) /\ ~(k + 1 <= Len(s))
          /\ k + 1 - Len(s) = k - Len(s) + 1
      BY <2>3, <1>3
    <3>2. (s \o t)[k] = t[k - Len(s)]
      BY <2>3, <1>3
    <3>3. h[k] = g[k - Len(s)] /\ h[k + 1] = g[k - Len(s) + 1]
      BY <3>1, <2>1, <2>3
    <3> HIDE DEF h
    <3> QED BY <3>1, <3>2, <3>3, <1>2
  <2> QED BY <2>2, <2>3
<1> HIDE DEF h
<1> QED BY <1>4, <1>5, <1>6, <1>7 DEF Chain

LEMMA ChainTail ==
  ASSUME NEW s \in Seq(Ops), s # <<>>, NEW a, NEW c, NEW kind, Chain(s, a, c, kind)
  PROVE  \E b \in Modes : Passes(Head(s), a, b, kind) /\ Chain(Tail(s), b, c, kind)
<1>1. PICK f \in [1 .. Len(s) + 1 -> Modes] :
        /\ f[1] = a
        /\ f[Len(s) + 1] = c
        /\ \A k \in 1 .. Len(s) : Passes(s[k], f[k], f[k + 1], kind)
  BY DEF Chain
<1>2. /\ Len(s) \in Nat \ {0} /\ Len(Tail(s)) = Len(s) - 1 /\ Head(s) = s[1]
      /\ \A k \in 1 .. Len(Tail(s)) : Tail(s)[k] = s[k + 1]
  OBVIOUS
<1> DEFINE g == [k \in 1 .. Len(Tail(s)) + 1 |-> f[k + 1]]
<1>3. f[2] \in Modes /\ Passes(Head(s), a, f[2], kind)
  <2>1. 2 \in 1 .. Len(s) + 1 /\ 1 \in 1 .. Len(s) /\ 1 + 1 = 2
    BY <1>2
  <2>2. f[2] \in Modes /\ Passes(s[1], f[1], f[1 + 1], kind)
    BY <2>1, <1>1
  <2> QED BY <2>1, <2>2, <1>1, <1>2
<1>4. g \in [1 .. Len(Tail(s)) + 1 -> Modes] /\ g[1] = f[2] /\ g[Len(Tail(s)) + 1] = c
  BY <1>1, <1>2
<1>5. ASSUME NEW k \in 1 .. Len(Tail(s))
      PROVE  Passes(Tail(s)[k], g[k], g[k + 1], kind)
  <2>1. k + 1 \in 1 .. Len(s) /\ k \in 1 .. Len(Tail(s)) + 1 /\ k + 1 \in 1 .. Len(Tail(s)) + 1
    BY <1>2
  <2>2. Tail(s)[k] = s[k + 1] /\ g[k] = f[k + 1] /\ g[k + 1] = f[k + 1 + 1]
    BY <1>2, <2>1
  <2>3. Passes(s[k + 1], f[k + 1], f[k + 1 + 1], kind)
    BY <1>1, <2>1
  <2> HIDE DEF g
  <2> QED BY <2>2, <2>3
<1> HIDE DEF g
<1>6. Chain(Tail(s), f[2], c, kind)
  BY <1>4, <1>5 DEF Chain
<1> QED BY <1>3, <1>6
-----------------------------------------------------------------------------
(* Every call of the terminal, and so every output, leads from free to free. *)

LEMMA ChainDo ==
  ASSUME NEW kind
  PROVE  /\ Chain(<<Do("acquire")>>, "free", "held", kind)
         /\ Chain(<<Do("release")>>, "held", "free", kind)
         /\ Chain(<<Do("cursor")>>, "held", "held", kind)
         /\ Chain(<<Do("cursor")>>, "painted", "painted", kind)
         /\ Chain(<<Do("backspace")>>, "held", "held", kind)
         /\ Chain(<<Do("repaint")>>, "painted", "held", kind)
         /\ \A k : Chain(<<[op |-> "paint", color |-> k]>>, "held", "painted", kind)
         /\ \A k : Chain(<<[op |-> "color", color |-> k]>>, "held", "held", "report")
         /\ Chain(<<Do("halt")>>, "free", "free", kind)
<1>1. "free" \in Modes /\ "held" \in Modes /\ "painted" \in Modes
  BY DEF Modes
<1>2. /\ Passes(Do("acquire"), "free", "held", kind)
      /\ Passes(Do("release"), "held", "free", kind)
      /\ Passes(Do("cursor"), "held", "held", kind)
      /\ Passes(Do("cursor"), "painted", "painted", kind)
      /\ Passes(Do("backspace"), "held", "held", kind)
      /\ Passes(Do("repaint"), "painted", "held", kind)
      /\ \A k : Passes([op |-> "paint", color |-> k], "held", "painted", kind)
      /\ \A k : Passes([op |-> "color", color |-> k], "held", "held", "report")
      /\ Passes(Do("halt"), "free", "free", kind)
  BY DEF Passes, Do
<1> QED BY <1>1, <1>2, ChainOne

LEMMA ChainPlain ==
  ASSUME NEW name \in {"reset", "gui", "desktop", "present", "execute", "iret", "sti", "idt"}
  PROVE  Chain(<<Do(name)>>, "free", "free", "call")
<1>1. "free" \in Modes
  BY DEF Modes
<1>2. Passes(Do(name), "free", "free", "call")
  BY DEF Passes, Do
<1> QED BY <1>1, <1>2, ChainOne

LEMMA ChainPuts ==
  ASSUME NEW s \in Seq(Chars), NEW a \in {"held", "painted"}, NEW kind
  PROVE  Chain(Puts(s), a, a, kind)
<1> DEFINE f == [k \in 1 .. Len(Puts(s)) + 1 |-> a]
<1>1. Len(Puts(s)) \in Nat /\ \A k \in 1 .. Len(Puts(s)) : Puts(s)[k].op = "put"
  BY DEF Puts
<1>2. /\ f \in [1 .. Len(Puts(s)) + 1 -> Modes]
      /\ f[1] = a /\ f[Len(Puts(s)) + 1] = a
  BY <1>1 DEF Modes
<1>3. ASSUME NEW k \in 1 .. Len(Puts(s))
      PROVE  Passes(Puts(s)[k], f[k], f[k + 1], kind)
  <2>1. f[k] = a /\ f[k + 1] = a
    BY <1>1
  <2> HIDE DEF f
  <2>2. Puts(s)[k].op = "put" /\ a # "free"
    BY <1>1
  <2> QED BY <2>1, <2>2 DEF Passes
<1> HIDE DEF f
<1> QED BY <1>2, <1>3 DEF Chain

(* What leads from free to free *)
Calm(s, kind) == s \in Seq(Ops) /\ Chain(s, "free", "free", kind)

LEMMA CalmConcat ==
  ASSUME NEW s, NEW t, NEW kind, Calm(s, kind), Calm(t, kind)
  PROVE  Calm(s \o t, kind)
<1>1. s \o t \in Seq(Ops)
  BY DEF Calm
<1> QED BY <1>1, ChainConcat DEF Calm

LEMMA CalmEmpty ==
  ASSUME NEW kind
  PROVE  Calm(<<>>, kind)
  BY ChainEmpty DEF Calm, Modes

LEMMA CalmDo ==
  ASSUME NEW name \in {"reset", "gui", "desktop", "present", "execute", "iret", "sti", "idt"}
  PROVE  Calm(<<Do(name)>>, "call")
<1>1. <<Do(name)>> \in Seq(Ops)
  BY DoIsOp
<1> QED BY <1>1, ChainPlain DEF Calm

LEMMA CalmHalt ==
  ASSUME NEW kind
  PROVE  Calm(<<Do("halt")>>, kind)
<1>1. <<Do("halt")>> \in Seq(Ops)
  BY DoIsOp
<1> QED BY <1>1, ChainDo DEF Calm

LEMMA CalmLocked ==
  ASSUME NEW ops \in Seq(Ops), NEW kind, Chain(ops, "held", "held", kind)
  PROVE  Calm(Locked(ops), kind)
<1>1. <<Do("acquire")>> \in Seq(Ops) /\ <<Do("release")>> \in Seq(Ops)
  BY DoIsOp
<1>2. <<Do("acquire")>> \o ops \in Seq(Ops)
  BY <1>1
<1>3. Chain(<<Do("acquire")>> \o ops, "free", "held", kind)
  BY <1>1, ChainDo, ChainConcat
<1>4. Chain((<<Do("acquire")>> \o ops) \o <<Do("release")>>, "free", "free", kind)
  BY <1>1, <1>2, <1>3, ChainDo, ChainConcat
<1>5. Locked(ops) = (<<Do("acquire")>> \o ops) \o <<Do("release")>>
  BY DEF Locked
<1> QED BY <1>4, <1>5, LockedIsOps DEF Calm

LEMMA CalmWrite ==
  ASSUME NEW s \in Seq(Chars), NEW kind
  PROVE  Calm(terminal_write(s), kind)
<1>1. Puts(s) \in Seq(Ops) /\ <<Do("cursor")>> \in Seq(Ops)
  BY PutsIsOps, DoIsOp
<1>2. Chain(Puts(s) \o <<Do("cursor")>>, "held", "held", kind)
  BY <1>1, ChainPuts, ChainDo, ChainConcat
<1>3. Puts(s) \o <<Do("cursor")>> \in Seq(Ops)
  BY <1>1
<1> QED BY <1>2, <1>3, CalmLocked DEF terminal_write

LEMMA CalmColored ==
  ASSUME NEW s \in Seq(Chars), NEW k \in Colors, NEW kind
  PROVE  Calm(terminal_write_colored(s, k), kind)
<1> DEFINE paint == <<[op |-> "paint", color |-> k]>>
<1>1. paint \in Seq(Ops)
  BY DEF Ops, TerminalOps
<1>2. /\ Puts(s) \in Seq(Ops)
      /\ <<Do("cursor")>> \in Seq(Ops) /\ <<Do("repaint")>> \in Seq(Ops)
  BY PutsIsOps, DoIsOp
<1>3. /\ Chain(paint, "held", "painted", kind)
      /\ Chain(Puts(s), "painted", "painted", kind)
      /\ Chain(<<Do("cursor")>>, "painted", "painted", kind)
      /\ Chain(<<Do("repaint")>>, "painted", "held", kind)
  BY ChainDo, ChainPuts
<1> HIDE DEF paint
<1>4. /\ <<Do("cursor"), Do("repaint")>> = <<Do("cursor")>> \o <<Do("repaint")>>
      /\ <<Do("cursor")>> \o <<Do("repaint")>> \in Seq(Ops)
  BY <1>2
<1>5. Chain(<<Do("cursor"), Do("repaint")>>, "painted", "held", kind)
  BY <1>2, <1>3, <1>4, ChainConcat
<1>6. paint \o Puts(s) \in Seq(Ops) /\ Chain(paint \o Puts(s), "held", "painted", kind)
  BY <1>1, <1>2, <1>3, ChainConcat
<1>7. /\ paint \o Puts(s) \o <<Do("cursor"), Do("repaint")>> \in Seq(Ops)
      /\ Chain(paint \o Puts(s) \o <<Do("cursor"), Do("repaint")>>, "held", "held", kind)
  <2>1. <<Do("cursor"), Do("repaint")>> \in Seq(Ops)
    BY <1>4, Zenon
  <2>2. Chain(paint \o Puts(s) \o <<Do("cursor"), Do("repaint")>>, "held", "held", kind)
    BY <1>5, <1>6, <2>1, ChainConcat, Zenon
  <2>3. paint \o Puts(s) \o <<Do("cursor"), Do("repaint")>> \in Seq(Ops)
    BY <1>6, <2>1
  <2> QED BY <2>2, <2>3
<1> QED BY <1>7, CalmLocked DEF terminal_write_colored, paint

LEMMA CalmOutput ==
  ASSUME NEW kind
  PROVE  /\ Calm(Say, kind)
         /\ Calm(EndWith(<<>>), kind)
         /\ Calm(Say \o EndWith(<<>>), kind)
         /\ Calm(Say \o <<Do("halt")>>, kind)
<1>1. Calm(Say, kind)
  BY TextsAreChars, CalmWrite DEF Say
<1>2. Calm(EndWith(<<>>), kind)
  <2>1. <<Newline>> \o <<>> \o <<Prompt>> \in Seq(Chars)
    BY TextsAreChars
  <2> QED BY <2>1, CalmWrite DEF EndWith
<1> QED BY <1>1, <1>2, CalmConcat, CalmHalt

LEMMA CalmCommands ==
  /\ Calm(shell_initialize, "call")
  /\ \A failures \in BOOLEAN : Calm(TestOutput(failures), "call")
  /\ \A w \in Windows : Calm(gui_redraw_window(w), "call")
  /\ Calm(gui_render(InOrder), "call")
<1>1. Calm(shell_initialize, "call")
  BY TextsAreChars, CalmWrite, CalmDo, CalmConcat DEF shell_initialize
<1>2. ASSUME NEW failures \in BOOLEAN PROVE Calm(TestOutput(failures), "call")
  <2> DEFINE lines == IF failures THEN terminal_write_colored(<<Text, Newline>>, Red)
                      ELSE <<>>
             verdict == terminal_write_colored(<<Text, Newline>>,
                                               IF failures THEN Red ELSE Green)
  <2>1. /\ Calm(terminal_write_colored(<<Text, Newline>>, Red), "call")
        /\ Calm(terminal_write_colored(<<Text, Newline>>, Green), "call")
    BY TextsAreChars, CharsAndColors, CalmColored
  <2>2. Calm(lines, "call") /\ Calm(verdict, "call")
    <3>1. CASE failures
      BY <2>1, <3>1
    <3>2. CASE ~failures
      BY <2>1, <3>2, CalmEmpty
    <3> QED BY <3>1, <3>2
  <2>3. /\ Calm(terminal_write(<<Newline>>), "call")
        /\ Calm(<<Do("sti")>>, "call")
        /\ Calm(Say, "call") /\ Calm(EndWith(<<>>), "call")
    BY TextsAreChars, CalmWrite, CalmDo, CalmOutput
  <2> HIDE DEF lines, verdict
  <2>4. Calm(Say \o <<Do("sti")>>, "call")
    BY <2>3, CalmConcat
  <2>5. Calm(Say \o <<Do("sti")>> \o lines, "call")
    BY <2>2, <2>4, CalmConcat
  <2>6. Calm(Say \o <<Do("sti")>> \o lines \o terminal_write(<<Newline>>), "call")
    BY <2>3, <2>5, CalmConcat
  <2>7. Calm(Say \o <<Do("sti")>> \o lines \o terminal_write(<<Newline>>) \o verdict, "call")
    BY <2>2, <2>6, CalmConcat
  <2>8. Calm(Say \o <<Do("sti")>> \o lines \o terminal_write(<<Newline>>) \o verdict
               \o EndWith(<<>>), "call")
    BY <2>3, <2>7, CalmConcat
  <2> QED BY <2>8 DEF TestOutput, lines, verdict
<1>3. ASSUME NEW w \in Windows
      PROVE  Calm(<<[op |-> "window", window |-> w]>>, "call")
  <2>1. <<[op |-> "window", window |-> w]>> \in Seq(Ops)
    BY DEF Ops, DesktopOps
  <2>2. "free" \in Modes /\ Passes([op |-> "window", window |-> w], "free", "free", "call")
    BY DEF Passes, Modes
  <2> QED BY <2>1, <2>2, ChainOne DEF Calm
<1>4. ASSUME NEW w \in Windows PROVE Calm(gui_redraw_window(w), "call")
  <2>1. <<[op |-> "window", window |-> w], Do("present")>> =
          <<[op |-> "window", window |-> w]>> \o <<Do("present")>>
    OBVIOUS
  <2> QED BY <2>1, <1>3, CalmDo, CalmConcat DEF gui_redraw_window
<1>5. Calm(gui_render(InOrder), "call")
  <2> DEFINE draw(w) == <<[op |-> "window", window |-> w]>>
  <2>1. [j \in 1 .. Len(InOrder) |-> [op |-> "window", window |-> InOrder[j]]] =
          draw("notes") \o draw("welcome") \o draw("info")
    BY DEF InOrder
  <2>2. Calm(draw("notes"), "call") /\ Calm(draw("welcome"), "call") /\ Calm(draw("info"), "call")
    BY <1>3 DEF Windows
  <2> HIDE DEF draw
  <2>3. Calm(draw("notes") \o draw("welcome") \o draw("info"), "call")
    BY <2>2, CalmConcat
  <2>4. Calm(<<Do("desktop")>> \o (draw("notes") \o draw("welcome") \o draw("info"))
               \o <<Do("present")>>, "call")
    BY <2>3, CalmDo, CalmConcat
  <2> QED BY <2>1, <2>4, Zenon DEF gui_render
<1> QED BY <1>1, <1>2, <1>4, <1>5

LEMMA CalmReport ==
  ASSUME NEW fields \in 0 .. 2
  PROVE  /\ Calm(Report(fields), "report")
         /\ Report(fields) # <<>>
         /\ Head(Report(fields)).op = "acquire"
<1> DEFINE color == <<[op |-> "color", color |-> Red]>>
           one == IF fields > 0 THEN Say ELSE <<>>
           two == IF fields > 1 THEN Say ELSE <<>>
<1>1. color \in Seq(Ops)
  BY CharsAndColors DEF Ops, TerminalOps
<1>2. Chain(color, "held", "held", "report")
  BY ChainDo
<1> HIDE DEF color
<1>3. Calm(Locked(color), "report")
  BY <1>1, <1>2, CalmLocked
<1>4. Calm(one, "report") /\ Calm(two, "report")
  BY CalmOutput, CalmEmpty
<1> HIDE DEF one, two
<1>5. Calm(terminal_write(<<Newline, Text, Newline>>), "report")
  BY TextsAreChars, CalmWrite
<1>6. Calm(Locked(color) \o terminal_write(<<Newline, Text, Newline>>), "report")
  BY <1>3, <1>5, CalmConcat
<1>7. Calm(Locked(color) \o terminal_write(<<Newline, Text, Newline>>) \o one, "report")
  BY <1>4, <1>6, CalmConcat
<1>8. Calm(Locked(color) \o terminal_write(<<Newline, Text, Newline>>) \o one \o two,
           "report")
  BY <1>4, <1>7, CalmConcat
<1>9. Calm(Locked(color) \o terminal_write(<<Newline, Text, Newline>>) \o one \o two
             \o <<Do("halt")>>, "report")
  BY <1>8, CalmHalt, CalmConcat
<1>10. Report(fields) = Locked(color) \o terminal_write(<<Newline, Text, Newline>>)
                          \o one \o two \o <<Do("halt")>>
  BY Zenon DEF Report, terminal_set_color, color, one, two
<1>11. /\ Locked(color) \in Seq(Ops) /\ one \in Seq(Ops) /\ two \in Seq(Ops)
       /\ terminal_write(<<Newline, Text, Newline>>) \in Seq(Ops)
       /\ <<Do("halt")>> \in Seq(Ops)
  BY <1>3, <1>4, <1>5, CalmHalt DEF Calm
<1>12. Locked(color) # <<>> /\ Head(Locked(color)) = Do("acquire")
  BY <1>1, DoIsOp DEF Locked
<1>13. Report(fields) # <<>> /\ Head(Report(fields)) = Do("acquire")
  BY <1>10, <1>11, <1>12
<1>14. Head(Report(fields)).op = "acquire"
  BY <1>13 DEF Do
<1> QED BY <1>9, <1>10, <1>13, <1>14
-----------------------------------------------------------------------------
(* The invariant behind the lock and the colour: what is still to do leads *)
(* from where the terminal stands to free, unless an exception hit the     *)
(* holder of the lock; then its handler waits for the lock for ever.       *)
Kind == IF trap = "unlocked" THEN "report" ELSE "call"

Stands(a) ==
  /\ Chain(todo, a, "free", Kind)
  /\ terminal_lock <=> a # "free"
  /\ trap # "unlocked" => IF a = "painted" THEN previous_color = LightGrey
                                           ELSE current_color = LightGrey

LockInv ==
  /\ terminal_lock => ~eif
  /\ trap = "locked" => terminal_lock /\ todo # <<>> /\ Head(todo).op = "acquire"
  /\ trap # "locked" => \E a \in Modes : Stands(a)

LEMMA LockInit == Init => LockInv
<1> SUFFICES ASSUME Init PROVE LockInv
  OBVIOUS
<1>1. /\ todo = shell_initialize \o <<Do("idt")>>
      /\ trap = "no IDT" /\ current_color = LightGrey /\ ~terminal_lock
  BY Zenon DEF Init, TerminalInit
<1>2. Calm(shell_initialize \o <<Do("idt")>>, "call")
  BY CalmCommands, CalmDo, CalmConcat
<1>3. Kind = "call"
  BY <1>1 DEF Kind
<1>4. Chain(todo, "free", "free", Kind)
  BY <1>1, <1>2, <1>3, Zenon DEF Calm
<1>5. "free" \in Modes /\ "free" # "painted" /\ trap # "locked"
  BY <1>1 DEF Modes
<1>6. terminal_lock <=> "free" # "free"
  BY <1>1
<1>7. Stands("free")
  BY <1>1, <1>4, <1>5, <1>6, Zenon DEF Stands
<1> QED BY <1>1, <1>5, <1>7, Zenon DEF LockInv

(* A handler that takes on something new while the terminal is free *)
LEMMA NewListStands ==
  ASSUME Calm(todo', "call"), ~terminal_lock', current_color' = LightGrey,
         trap' \in {"no IDT", "none"}
  PROVE  LockInv'
<1>1. Kind' = "call" /\ trap' # "locked"
  BY DEF Kind
<1>2. Chain(todo', "free", "free", Kind')
  BY <1>1, Zenon DEF Calm
<1>3. "free" \in Modes /\ "free" # "painted"
  BY DEF Modes
<1>4. terminal_lock' <=> "free" # "free"
  OBVIOUS
<1>5. Stands("free")'
  BY <1>2, <1>3, <1>4, Zenon DEF Stands
<1> QED BY <1>1, <1>3, <1>5, Zenon DEF LockInv

(* The running handler's next operation *)
LEMMA StandsBefore ==
  ASSUME TInv, LockInv, NEW name, todo # <<>>, Head(todo).op = name, name # "acquire"
  PROVE  /\ trap # "locked"
         /\ \E a \in Modes : \E b \in Modes :
              /\ Stands(a)
              /\ Passes(Head(todo), a, b, Kind)
              /\ Chain(Tail(todo), b, "free", Kind)
<1>1. trap # "locked"
  BY Zenon DEF LockInv
<1>2. PICK a \in Modes : Stands(a)
  BY <1>1, Zenon DEF LockInv
<1>3. \E b \in Modes : Passes(Head(todo), a, b, Kind) /\ Chain(Tail(todo), b, "free", Kind)
  BY <1>2, DesktopParts, ChainTail DEF Stands
<1> QED BY <1>1, <1>2, <1>3

LEMMA FreeBefore ==
  ASSUME TInv, LockInv, todo # <<>>,
         Head(todo).op \in {"reset", "gui", "desktop", "window", "present",
                            "execute", "iret", "sti", "idt"}
  PROVE  /\ ~terminal_lock /\ current_color = LightGrey
         /\ trap \in {"no IDT", "none"}
         /\ Calm(Tail(todo), "call")
<1>1. PICK a \in Modes, b \in Modes :
        /\ Stands(a)
        /\ Passes(Head(todo), a, b, Kind)
        /\ Chain(Tail(todo), b, "free", Kind)
  BY StandsBefore
<1>2. a = "free" /\ b = "free" /\ Kind = "call"
  BY <1>1 DEF Passes
<1>3. trap # "locked" /\ trap \in {"no IDT", "none", "locked", "unlocked"}
  <2>1. trap # "locked"
    BY StandsBefore
  <2> QED BY <2>1, Zenon DEF TInv, TypeOK
<1>4. trap # "unlocked"
  BY <1>2 DEF Kind
<1>5. "free" # "painted"
  OBVIOUS
<1>6. ~terminal_lock /\ current_color = LightGrey
  BY <1>1, <1>2, <1>4, <1>5, Zenon DEF Stands
<1>7. Tail(todo) \in Seq(Ops)
  BY DesktopParts
<1> QED BY <1>1, <1>2, <1>3, <1>4, <1>6, <1>7, Zenon DEF Calm

LEMMA FreeAtRest ==
  ASSUME TInv, LockInv, AtRest, trap = "none"
  PROVE  ~terminal_lock /\ current_color = LightGrey
<1>1. PICK a \in Modes : Stands(a)
  <2>1. trap # "locked"
    OBVIOUS
  <2> QED BY <2>1, Zenon DEF LockInv
<1>2. a = "free"
  <2>1. PICK f \in [1 .. Len(todo) + 1 -> Modes] : f[1] = a /\ f[Len(todo) + 1] = "free"
    BY <1>1 DEF Stands, Chain
  <2>2. Len(todo) + 1 = 1
    BY DEF AtRest
  <2> QED BY <2>1, <2>2
<1>3. "free" # "painted" /\ trap # "unlocked"
  OBVIOUS
<1> QED BY <1>1, <1>2, <1>3, Zenon DEF Stands
(* Operations in the middle of a call *)
LEMMA LockTerminalStep ==
  ASSUME TInv, LockInv, TerminalStep, UNCHANGED <<desktopVars, keyboardVars, trap>>
  PROVE  LockInv'
<1>1. UNCHANGED trap /\ Kind' = Kind
  BY Zenon DEF Kind
<1>2. ASSUME NEW name, Perform(name)
      PROVE  todo # <<>> /\ Head(todo).op = name /\ todo' = Tail(todo)
  BY <1>2, Zenon DEF Perform
<1>3. ASSUME NEW b \in Modes, trap # "locked",
             Chain(Tail(todo), b, "free", Kind), todo' = Tail(todo),
             terminal_lock' <=> b # "free",
             trap # "unlocked" => IF b = "painted" THEN previous_color' = LightGrey
                                                   ELSE current_color' = LightGrey,
             terminal_lock' => ~eif'
      PROVE  LockInv'
  <2>1. Stands(b)'
    <3>1. Chain(todo', b, "free", Kind')
      BY <1>1, <1>3, Zenon
    <3> QED BY <1>1, <1>3, <3>1, Zenon DEF Stands
  <2> QED BY <1>1, <1>3, <2>1, Zenon DEF LockInv
<1>4. CASE Acquire
  <2>1. trap # "locked"
    BY <1>4, Zenon DEF Acquire, LockInv
  <2>2. PICK a \in Modes : Stands(a)
    BY <2>1, Zenon DEF LockInv
  <2>3. PICK b \in Modes : Passes(Head(todo), a, b, Kind) /\ Chain(Tail(todo), b, "free", Kind)
    <3>1. todo # <<>> /\ todo \in Seq(Ops)
      BY <1>2, <1>4, DesktopParts DEF Acquire
    <3> QED BY <2>2, <3>1, ChainTail DEF Stands
  <2>4. Head(todo).op = "acquire" /\ todo' = Tail(todo)
    BY <1>2, <1>4, Zenon DEF Acquire
  <2>5. a = "free" /\ b = "held"
    BY <2>3, <2>4 DEF Passes
  <2>6. "free" # "painted" /\ "held" # "painted" /\ "held" # "free"
    OBVIOUS
  <2>7. terminal_lock' /\ ~eif' /\ UNCHANGED current_color
    BY <1>4, Zenon DEF Acquire
  <2>8. trap # "unlocked" => current_color = LightGrey
    BY <2>2, <2>5, <2>6, Zenon DEF Stands
  <2> QED BY <1>3, <2>1, <2>3, <2>4, <2>5, <2>6, <2>7, <2>8, Zenon
<1>5. ASSUME NEW name, name # "acquire", Perform(name)
      PROVE  /\ trap # "locked" /\ todo' = Tail(todo) /\ Head(todo).op = name
             /\ \E a, b \in Modes :
                  /\ Stands(a)
                  /\ Passes(Head(todo), a, b, Kind)
                  /\ Chain(Tail(todo), b, "free", Kind)
  <2>1. todo # <<>> /\ Head(todo).op = name /\ todo' = Tail(todo)
    BY <1>2, <1>5, Zenon
  <2>2. /\ trap # "locked"
        /\ \E a \in Modes : \E b \in Modes :
             /\ Stands(a)
             /\ Passes(Head(todo), a, b, Kind)
             /\ Chain(Tail(todo), b, "free", Kind)
    BY <2>1, <1>5, StandsBefore, Zenon
  <2> QED BY <2>1, <2>2, Zenon
<1>6. CASE Release
  <2>1. Perform("release") /\ "release" # "acquire"
    BY <1>6 DEF Release
  <2>2. /\ trap # "locked" /\ todo' = Tail(todo) /\ Head(todo).op = "release"
        /\ \E a, b \in Modes :
             /\ Stands(a)
             /\ Passes(Head(todo), a, b, Kind)
             /\ Chain(Tail(todo), b, "free", Kind)
    BY <1>5, <2>1
  <2>3. PICK a \in Modes, b \in Modes :
          /\ Stands(a)
          /\ Passes(Head(todo), a, b, Kind)
          /\ Chain(Tail(todo), b, "free", Kind)
    BY <2>2
  <2>4. a = "held" /\ b = "free"
    BY <2>2, <2>3 DEF Passes
  <2>5. "held" # "painted" /\ "free" # "painted"
    OBVIOUS
  <2>6. ~terminal_lock' /\ UNCHANGED current_color
    BY <1>6, Zenon DEF Release
  <2>7. trap # "unlocked" => current_color = LightGrey
    BY <2>3, <2>4, <2>5, Zenon DEF Stands
  <2> QED BY <1>3, <2>2, <2>3, <2>4, <2>5, <2>6, <2>7, Zenon
<1>7. CASE Put \/ UpdateCursor \/ Backspace
  <2>1. PICK name \in {"put", "cursor", "backspace"} : Perform(name)
    BY <1>7, Zenon DEF Put, UpdateCursor, Backspace
  <2>2. /\ trap # "locked" /\ todo' = Tail(todo) /\ Head(todo).op = name
        /\ \E a, b \in Modes :
             /\ Stands(a)
             /\ Passes(Head(todo), a, b, Kind)
             /\ Chain(Tail(todo), b, "free", Kind)
    BY <1>5, <2>1
  <2>3. PICK a \in Modes, b \in Modes :
          /\ Stands(a)
          /\ Passes(Head(todo), a, b, Kind)
          /\ Chain(Tail(todo), b, "free", Kind)
    BY <2>2
  <2>4. a = b
    BY <2>1, <2>2, <2>3 DEF Passes
  <2>5. UNCHANGED <<terminal_lock, eif, current_color, previous_color>>
    BY <1>7, Zenon DEF Put, UpdateCursor, Backspace
  <2>6. terminal_lock => ~eif
    BY Zenon DEF LockInv
  <2>7. /\ terminal_lock <=> b # "free"
        /\ trap # "unlocked" => IF b = "painted" THEN previous_color = LightGrey
                                                 ELSE current_color = LightGrey
    BY <2>3, <2>4, Zenon DEF Stands
  <2> QED BY <1>3, <2>2, <2>3, <2>5, <2>6, <2>7, Zenon
<1>8. CASE SetColor
  <2>1. Perform("color") /\ "color" # "acquire"
    BY <1>8 DEF SetColor
  <2>2. /\ trap # "locked" /\ todo' = Tail(todo) /\ Head(todo).op = "color"
        /\ \E a, b \in Modes :
             /\ Stands(a)
             /\ Passes(Head(todo), a, b, Kind)
             /\ Chain(Tail(todo), b, "free", Kind)
    BY <1>5, <2>1
  <2>3. PICK a \in Modes, b \in Modes :
          /\ Stands(a)
          /\ Passes(Head(todo), a, b, Kind)
          /\ Chain(Tail(todo), b, "free", Kind)
    BY <2>2
  <2>4. a = "held" /\ b = "held" /\ Kind = "report"
    BY <2>2, <2>3 DEF Passes
  <2>5. trap = "unlocked"
    BY <2>4 DEF Kind
  <2>6. UNCHANGED <<terminal_lock, eif>>
    BY <1>8, Zenon DEF SetColor
  <2>7. terminal_lock => ~eif
    BY Zenon DEF LockInv
  <2>8. terminal_lock <=> b # "free"
    BY <2>3, <2>4, Zenon DEF Stands
  <2> QED BY <1>3, <2>2, <2>3, <2>5, <2>6, <2>7, <2>8, Zenon
<1>9. CASE Paint
  <2>1. Perform("paint") /\ "paint" # "acquire"
    BY <1>9 DEF Paint
  <2>2. /\ trap # "locked" /\ todo' = Tail(todo) /\ Head(todo).op = "paint"
        /\ \E a, b \in Modes :
             /\ Stands(a)
             /\ Passes(Head(todo), a, b, Kind)
             /\ Chain(Tail(todo), b, "free", Kind)
    BY <1>5, <2>1
  <2>3. PICK a \in Modes, b \in Modes :
          /\ Stands(a)
          /\ Passes(Head(todo), a, b, Kind)
          /\ Chain(Tail(todo), b, "free", Kind)
    BY <2>2
  <2>4. a = "held" /\ b = "painted"
    BY <2>2, <2>3 DEF Passes
  <2>5. "held" # "painted" /\ "held" # "free" /\ "painted" # "free"
    OBVIOUS
  <2>6. UNCHANGED <<terminal_lock, eif>> /\ previous_color' = current_color
    BY <1>9, Zenon DEF Paint
  <2>7. terminal_lock => ~eif
    BY Zenon DEF LockInv
  <2>8. terminal_lock /\ (trap # "unlocked" => current_color = LightGrey)
    BY <2>3, <2>4, <2>5, Zenon DEF Stands
  <2> QED BY <1>3, <2>2, <2>3, <2>4, <2>5, <2>6, <2>7, <2>8, Zenon
<1>10. CASE Repaint
  <2>1. Perform("repaint") /\ "repaint" # "acquire"
    BY <1>10 DEF Repaint
  <2>2. /\ trap # "locked" /\ todo' = Tail(todo) /\ Head(todo).op = "repaint"
        /\ \E a, b \in Modes :
             /\ Stands(a)
             /\ Passes(Head(todo), a, b, Kind)
             /\ Chain(Tail(todo), b, "free", Kind)
    BY <1>5, <2>1
  <2>3. PICK a \in Modes, b \in Modes :
          /\ Stands(a)
          /\ Passes(Head(todo), a, b, Kind)
          /\ Chain(Tail(todo), b, "free", Kind)
    BY <2>2
  <2>4. a = "painted" /\ b = "held"
    BY <2>2, <2>3 DEF Passes
  <2>5. "held" # "painted" /\ "held" # "free" /\ "painted" # "free"
    OBVIOUS
  <2>6. UNCHANGED <<terminal_lock, eif>> /\ current_color' = previous_color
    BY <1>10, Zenon DEF Repaint
  <2>7. terminal_lock => ~eif
    BY Zenon DEF LockInv
  <2>8. terminal_lock /\ (trap # "unlocked" => previous_color = LightGrey)
    BY <2>3, <2>4, <2>5, Zenon DEF Stands
  <2> QED BY <1>3, <2>2, <2>3, <2>4, <2>5, <2>6, <2>7, <2>8, Zenon
<1>11. CASE Reset
  <2>1. todo # <<>> /\ Head(todo).op = "reset" /\ todo' = Tail(todo)
    BY <1>2, <1>11, Zenon DEF Reset
  <2>2. /\ ~terminal_lock /\ current_color = LightGrey
        /\ trap \in {"no IDT", "none"}
        /\ Calm(Tail(todo), "call")
    BY <2>1, FreeBefore
  <2>3. ~terminal_lock' /\ UNCHANGED current_color
    BY <1>11, Zenon DEF Reset
  <2> QED BY <1>1, <2>1, <2>2, <2>3, NewListStands, Zenon
<1> QED BY <1>4, <1>6, <1>7, <1>8, <1>9, <1>10, <1>11, Zenon DEF TerminalStep

LEMMA LockStutter ==
  ASSUME LockInv, UNCHANGED <<todo, eif, trap, terminal_lock, current_color, previous_color>>
  PROVE  LockInv'
<1>1. Kind' = Kind
  BY Zenon DEF Kind
<1>2. \A a : Stands(a) => Stands(a)'
  BY <1>1, Zenon DEF Stands
<1> QED BY <1>2, Zenon DEF LockInv

LEMMA LockNext == TInv /\ LockInv /\ [Next]_vars => LockInv'
<1> SUFFICES ASSUME TInv, LockInv, [Next]_vars PROVE LockInv'
  OBVIOUS
<1>1. CASE Keystroke
  <2>1. /\ AtRest /\ trap = "none" /\ UNCHANGED trap
        /\ UNCHANGED <<terminal_lock, current_color>>
    <3>1. CASE \E k \in Keys : EraseCharacter(k) \/ EnterLine(k) \/ TypeCharacter(k)
      BY <3>1, Zenon DEF EraseCharacter, EnterLine, TypeCharacter, Typed, Ready, Handle,
                         terminalVars
    <3>2. CASE \E k \in Keys : GuiKey(k)
      BY <3>2, Zenon DEF GuiKey, Ready, terminalVars
    <3> QED BY <1>1, <3>1, <3>2, Zenon DEF Keystroke
  <2>2. ~terminal_lock /\ current_color = LightGrey
    BY <2>1, FreeAtRest
  <2>3. Calm(<<Do("iret")>>, "call") /\ Calm(<<>>, "call")
    BY CalmDo, CalmEmpty
  <2>4. Calm(terminal_backspace, "call")
    <3>1. <<Do("backspace")>> \in Seq(Ops) /\ Chain(<<Do("backspace")>>, "held", "held", "call")
      BY DoIsOp, ChainDo
    <3> QED BY <3>1, CalmLocked DEF terminal_backspace
  <2>5. ASSUME NEW c \in Chars PROVE Calm(terminal_putchar(c), "call")
    <3>1. <<c>> \in Seq(Chars)
      OBVIOUS
    <3> QED BY <3>1, CalmWrite DEF terminal_putchar
  <2>6. ASSUME NEW ops, Calm(ops, "call"), Handle(ops) PROVE Calm(todo', "call")
    <3>1. todo' = ops \o <<Do("iret")>>
      BY <2>6, Zenon DEF Handle
    <3> QED BY <2>3, <2>6, <3>1, CalmConcat
  <2>7. Calm(todo', "call")
    <3>1. PICK k \in Keys : EraseCharacter(k) \/ EnterLine(k) \/ TypeCharacter(k) \/ GuiKey(k)
      BY <1>1, Zenon DEF Keystroke
    <3>2. CASE EraseCharacter(k)
      BY <3>2, <2>3, <2>4, <2>6, Zenon DEF EraseCharacter
    <3>3. CASE EnterLine(k)
      <4>1. Calm(terminal_putchar(Newline) \o <<Do("execute")>>, "call")
        BY <2>5, CharsAndColors, CalmDo, CalmConcat
      <4> QED BY <3>3, <4>1, <2>6, Zenon DEF EnterLine
    <3>4. CASE TypeCharacter(k)
      <4>1. Character(k) \in Chars
        <5>1. TypeOK
          BY DEF TInv
        <5>2. Character(k) # Nul /\ Character(k) # Erase
          BY <3>4 DEF TypeCharacter, Typed
        <5> QED BY <5>1, <5>2, CharacterIsTyped
      <4> QED BY <3>4, <4>1, <2>3, <2>5, <2>6, Zenon DEF TypeCharacter
    <3>5. CASE GuiKey(k)
      <4>1. \/ FocusNext
            \/ todo' = gui_redraw_window("notes") \o <<Do("iret")>>
            \/ todo' = <<Do("iret")>>
        BY <3>5, Zenon DEF GuiKey, GuiHandleKey, NotesWindowKey
      <4>2. \A w \in Windows : Calm(gui_redraw_window(w), "call")
        BY CalmCommands
      <4>3. CASE FocusNext
        <5>1. /\ Len(windows) > 1
              /\ focused_window' = (focused_window % Len(windows)) + 1
              /\ todo' = gui_redraw_window(windows[focused_window]) \o
                         gui_redraw_window(windows[focused_window']) \o <<Do("iret")>>
          BY <4>3, Zenon DEF FocusNext
        <5>2. windows = InOrder /\ Len(windows) = 3 /\ focused_window \in 1 .. 3
          BY <5>1, DesktopParts DEF InOrder
        <5>3. focused_window' \in 1 .. 3
          BY <5>1, <5>2
        <5>4. windows[focused_window] \in Windows /\ windows[focused_window'] \in Windows
          BY <5>2, <5>3 DEF InOrder, Windows
        <5>5. Calm(gui_redraw_window(windows[focused_window]), "call")
          BY <4>2, <5>4, Zenon
        <5>6. Calm(gui_redraw_window(windows[focused_window']), "call")
          BY <4>2, <5>4, Zenon
        <5>7. Calm(gui_redraw_window(windows[focused_window]) \o
                     gui_redraw_window(windows[focused_window']), "call")
          BY <5>5, <5>6, CalmConcat, Zenon
        <5>8. Calm(gui_redraw_window(windows[focused_window]) \o
                     gui_redraw_window(windows[focused_window']) \o <<Do("iret")>>, "call")
          BY <5>7, <2>3, CalmConcat, Zenon
        <5> QED BY <5>1, <5>8, Zenon
      <4>4. CASE todo' = gui_redraw_window("notes") \o <<Do("iret")>>
        <5>1. "notes" \in Windows
          BY DEF Windows
        <5>2. Calm(gui_redraw_window("notes") \o <<Do("iret")>>, "call")
          BY <4>2, <5>1, <2>3, CalmConcat, Zenon
        <5> QED BY <4>4, <5>2, Zenon
      <4>5. CASE todo' = <<Do("iret")>>
        BY <4>5, <2>3, Zenon
      <4> QED BY <4>1, <4>3, <4>4, <4>5
    <3> QED BY <3>1, <3>2, <3>3, <3>4, <3>5
  <2>8. trap' \in {"no IDT", "none"}
    BY <2>1
  <2> QED BY <2>1, <2>2, <2>7, <2>8, NewListStands, Zenon
<1>2. CASE Modifier
  <2>1. UNCHANGED <<todo, eif, trap, terminal_lock, current_color, previous_color>>
    BY <1>2, Zenon DEF Modifier, PressShift, ReleaseShift, PressCapsLock, handlerVars,
                       terminalVars
  <2> QED BY <2>1, LockStutter
<1>3. ASSUME todo # <<>>,
             Head(todo).op \in {"reset", "gui", "desktop", "window", "present",
                                "execute", "iret", "sti", "idt"},
             NEW ops, Calm(ops, "call"), todo' = ops \o Tail(todo),
             UNCHANGED <<terminal_lock, current_color>>,
             UNCHANGED trap \/ trap' = "none"
      PROVE  LockInv'
  <2>1. /\ ~terminal_lock /\ current_color = LightGrey
        /\ trap \in {"no IDT", "none"}
        /\ Calm(Tail(todo), "call")
    BY <1>3, FreeBefore
  <2>2. Calm(todo', "call")
    BY <1>3, <2>1, CalmConcat
  <2>3. trap' \in {"no IDT", "none"}
    BY <1>3, <2>1
  <2> QED BY <1>3, <2>1, <2>2, <2>3, NewListStands, Zenon
<1>4. ASSUME NEW line, NEW ops, Run(line, ops), Calm(ops, "call")
      PROVE  LockInv'
  <2>1. /\ todo # <<>> /\ Head(todo).op = "execute" /\ todo' = ops \o Tail(todo)
        /\ UNCHANGED <<terminal_lock, current_color>> /\ UNCHANGED trap
    BY <1>4, Zenon DEF Run, terminalVars
  <2> QED BY <1>3, <1>4, <2>1
<1>5. CASE Execute
  <2>1. /\ Calm(terminal_write(<<Prompt>>), "call")
        /\ Calm(terminal_write(<<Text, Newline, Prompt>>), "call")
        /\ Calm(terminal_write(<<Text, Newline, Newline, Prompt>>), "call")
        /\ Calm(terminal_write_colored(<<Text, Newline, Newline, Prompt>>, Red), "call")
    BY TextsAreChars, CharsAndColors, CalmWrite, CalmColored
  <2>2. CASE EmptyLine \/ Uptime \/ Unknown
    BY <2>1, <2>2, <1>4, Zenon DEF EmptyLine, Uptime, Unknown
  <2>3. CASE Help \/ Info \/ Shutdown
    BY <2>3, <1>4, CalmOutput, Zenon DEF Help, Info, Shutdown
  <2>4. CASE Clear \/ Test
    BY <2>4, <1>4, CalmCommands, Zenon DEF Clear, Test
  <2>5. CASE GuiCommand
    <3>1. Calm(<<Do("gui")>>, "call")
      BY CalmDo
    <3> QED BY <2>5, <3>1, <1>4, Zenon DEF GuiCommand
  <2>6. CASE Echo
    <3> DEFINE rest == SubSeq(input, Len(EchoPrefix) + 1, Len(input))
    <3>1. input \in Seq(Chars)
      <4>1. input \in Seq(Chars \ {Newline})
        BY Zenon DEF TInv, TypeOK
      <4> QED BY <4>1
    <3>2. Len(EchoPrefix) \in Nat /\ Len(input) >= Len(EchoPrefix)
      BY <2>6, ShellAssumption DEF Echo, IsEcho
    <3>3. rest \in Seq(Chars)
      BY <3>1, <3>2
    <3>4. Run(input, terminal_write(rest) \o EndWith(<<>>))
      BY <2>6, Zenon DEF Echo
    <3> HIDE DEF rest
    <3>5. Calm(terminal_write(rest) \o EndWith(<<>>), "call")
      BY <3>3, CalmWrite, CalmOutput, CalmConcat
    <3> QED BY <3>4, <3>5, <1>4
  <2>7. CASE GuiRefused
    <3>1. /\ todo # <<>> /\ Head(todo).op = "gui"
          /\ todo' = terminal_write_colored(<<Text, Newline, Newline, Prompt>>, Red)
                       \o Tail(todo)
          /\ UNCHANGED <<terminal_lock, current_color>> /\ UNCHANGED trap
      BY <2>7, Zenon DEF GuiRefused, terminalVars
    <3> QED BY <1>3, <2>1, <3>1
  <2> QED BY <1>5, <2>2, <2>3, <2>4, <2>5, <2>6, <2>7, Zenon DEF Execute
<1>6. CASE TerminalStep /\ UNCHANGED <<desktopVars, keyboardVars, trap>>
  BY <1>6, LockTerminalStep
<1>7. CASE Gui /\ UNCHANGED <<terminalVars, keyboardVars, trap>>
  <2>1. /\ todo # <<>> /\ Head(todo).op = "gui"
        /\ todo' = gui_render(InOrder) \o Tail(todo)
        /\ UNCHANGED <<terminal_lock, current_color>> /\ UNCHANGED trap
    BY <1>7, Zenon DEF Gui, AddWindows, terminalVars
  <2> QED BY <1>3, <2>1, CalmCommands
<1>8. ASSUME NEW name \in {"reset", "gui", "desktop", "window", "present",
                           "execute", "iret", "sti", "idt"},
             Perform(name), UNCHANGED terminalVars, UNCHANGED trap \/ trap' = "none"
      PROVE  LockInv'
  <2>1. /\ todo # <<>> /\ Head(todo).op = name /\ todo' = Tail(todo)
        /\ UNCHANGED <<terminal_lock, current_color>>
    BY <1>8, Zenon DEF Perform, terminalVars
  <2>2. /\ ~terminal_lock /\ current_color = LightGrey
        /\ trap \in {"no IDT", "none"}
        /\ Calm(Tail(todo), "call")
    BY <2>1, FreeBefore
  <2>3. trap' \in {"no IDT", "none"}
    BY <1>8, <2>2
  <2> QED BY <2>1, <2>2, <2>3, NewListStands, Zenon
<1>9. CASE DesktopStep /\ UNCHANGED <<terminalVars, keyboardVars, trap>>
  <2>1. Perform("desktop") \/ Perform("window") \/ Perform("present")
    BY <1>9, Zenon DEF DesktopStep, FillDesktop, DrawOneWindow, Present
  <2> QED BY <1>8, <1>9, <2>1
<1>10. CASE InterruptsInitialize \/ Returns
  <2>1. Perform("idt") \/ Perform("iret") \/ Perform("sti")
    BY <1>10, Zenon DEF InterruptsInitialize, Returns, Iret, Sti
  <2>2. UNCHANGED terminalVars /\ (UNCHANGED trap \/ trap' = "none")
    BY <1>10, Zenon DEF InterruptsInitialize, Returns
  <2> QED BY <1>8, <2>1, <2>2
<1>11. CASE Fault \/ PageFault
  <2>1. PICK fields \in 0 .. 2 : Raise(fields)
    <3>1. CASE Fault
      BY <3>1, Zenon DEF Fault
    <3>2. CASE PageFault
      <4>1. Raise(2)
        BY <3>2, Zenon DEF PageFault
      <4> QED BY <4>1
    <3> QED BY <1>11, <3>1, <3>2
  <2>2. /\ todo' = Report(fields) /\ ~eif'
        /\ terminal_lock' = terminal_lock
        /\ trap' = IF terminal_lock THEN "locked" ELSE "unlocked"
    BY <2>1, Zenon DEF Raise, terminalVars
  <2>3. CASE terminal_lock
    <3>1. trap' = "locked" /\ terminal_lock'
      BY <2>2, <2>3, Zenon
    <3>2. todo' # <<>> /\ Head(todo').op = "acquire"
      BY <2>2, CalmReport
    <3> QED BY <2>2, <3>1, <3>2, Zenon DEF LockInv
  <2>4. CASE ~terminal_lock
    <3>1. trap' = "unlocked" /\ ~terminal_lock'
      BY <2>2, <2>4, Zenon
    <3>2. Kind' = "report"
      BY <3>1 DEF Kind
    <3>3. Chain(todo', "free", "free", Kind')
      BY <2>2, <3>2, CalmReport, Zenon DEF Calm
    <3>4. "free" \in Modes /\ "unlocked" # "locked"
      BY DEF Modes
    <3>5. Stands("free")'
      BY <3>1, <3>3, Zenon DEF Stands
    <3> QED BY <3>1, <3>4, <3>5, Zenon DEF LockInv
  <2> QED BY <2>3, <2>4
<1>12. CASE UNCHANGED vars
  <2>1. UNCHANGED <<todo, eif, trap, terminal_lock, current_color, previous_color>>
    BY <1>12, Zenon DEF vars, handlerVars, terminalVars
  <2> QED BY <2>1, LockStutter
<1> QED BY <1>1, <1>2, <1>5, <1>6, <1>7, <1>9, <1>10, <1>11, <1>12, Zenon DEF Next

LEMMA LockHolds == Spec => [](TInv /\ LockInv)
<1>1. Init => TInv /\ LockInv
  BY InitTyped, LockInit
<1>2. (TInv /\ LockInv) /\ [Next]_vars => (TInv /\ LockInv)'
  BY NextTyped, LockNext
<1> QED BY <1>1, <1>2, PTL DEF Spec

(* terminal_lock is held with interrupts off only, and whoever finds it    *)
(* taken is the handler of an exception that hit its holder: for every     *)
(* text, command and screen.                                               *)
THEOREM LockIsSound == Spec => []OnlyFaultsSpin
<1>1. TInv /\ LockInv => OnlyFaultsSpin
  <2> SUFFICES ASSUME TInv, LockInv, terminal_lock,
                      todo # <<>>, Head(todo).op = "acquire", trap # "locked"
               PROVE  FALSE
    BY Zenon DEF OnlyFaultsSpin, LockInv
  <2>1. PICK a \in Modes : Stands(a)
    BY Zenon DEF LockInv
  <2>2. \E b \in Modes : Passes(Head(todo), a, b, Kind)
    BY <2>1, DesktopParts, ChainTail DEF Stands
  <2>3. a = "free"
    BY <2>2 DEF Passes
  <2> QED BY <2>1, <2>3, Zenon DEF Stands
<1> QED BY <1>1, LockHolds, PTL

(* Whatever is printed, in whatever colour, the terminal is grey again     *)
(* whenever its lock is free, until an exception is reported.              *)
THEOREM ColorIsRestored == Spec => []ColorRestored
<1>1. TInv /\ LockInv => ColorRestored
  <2> SUFFICES ASSUME TInv, LockInv, trap = "none", ~terminal_lock
               PROVE  current_color = LightGrey
    BY DEF ColorRestored
  <2>1. trap # "locked" /\ trap # "unlocked" /\ "free" # "painted"
    OBVIOUS
  <2>2. PICK a \in Modes : Stands(a)
    BY <2>1, Zenon DEF LockInv
  <2>3. a = "free"
    BY <2>2, Zenon DEF Stands
  <2> QED BY <2>1, <2>2, <2>3, Zenon DEF Stands
<1> QED BY <1>1, LockHolds, PTL
-----------------------------------------------------------------------------
(* The screen behind the cursor.  The firmware's text is gone with the     *)
(* first operation of the boot.                                            *)
Blanked == \A j \in Cells : j >= Position => video[j].char = Blank
BlankInv == \/ Blanked
            \/ trap = "no IDT" /\ todo # <<>> /\ Head(todo).op = "reset"

LEMMA ScreenParts ==
  ASSUME TInv
  PROVE  /\ video \in [Cells -> [char : Chars, color : Colors]]
         /\ row \in 0 .. VGA_HEIGHT - 1 /\ column \in 0 .. VGA_WIDTH - 1
         /\ VGA_HEIGHT \in Nat \ {0} /\ VGA_WIDTH \in Nat \ {0}
         /\ row * VGA_WIDTH \in Nat
         /\ VGA_WIDTH * VGA_HEIGHT \in Nat
         /\ Position \in Cells
         /\ (row + 1) * VGA_WIDTH = row * VGA_WIDTH + VGA_WIDTH
         /\ (row - 1) * VGA_WIDTH = row * VGA_WIDTH - VGA_WIDTH
         /\ (VGA_HEIGHT - 1) * VGA_WIDTH = VGA_WIDTH * VGA_HEIGHT - VGA_WIDTH
<1>1. /\ video \in [Cells -> [char : Chars, color : Colors]]
      /\ row \in 0 .. VGA_HEIGHT - 1 /\ column \in 0 .. VGA_WIDTH - 1
  BY Zenon DEF TInv, TypeOK, TerminalTypeOK
<1>2. VGA_HEIGHT \in Nat \ {0} /\ VGA_WIDTH \in Nat \ {0}
  BY ScreenAssumption
<1>3. \A x, y \in Nat : x * y \in Nat
  OBVIOUS
<1>4. row * VGA_WIDTH \in Nat /\ VGA_WIDTH * VGA_HEIGHT \in Nat
  BY <1>1, <1>2, <1>3
<1>5. Position \in Cells
  BY <1>1, PositionIsCell, Zenon DEF Position
<1>6. /\ (row + 1) * VGA_WIDTH = row * VGA_WIDTH + VGA_WIDTH
      /\ (row - 1) * VGA_WIDTH = row * VGA_WIDTH - VGA_WIDTH
      /\ (VGA_HEIGHT - 1) * VGA_WIDTH = VGA_WIDTH * VGA_HEIGHT - VGA_WIDTH
  BY <1>1, <1>2
<1> QED BY <1>1, <1>2, <1>4, <1>5, <1>6, Zenon

LEMMA NextRowBlank ==
  ASSUME TInv, NEW v \in [Cells -> [char : Chars, color : Colors]], NextRow(v),
         \A j \in Cells : j > Position => v[j].char = Blank
  PROVE  Blanked'
<1>1. SUFFICES ASSUME NEW j \in Cells, j >= Position'
               PROVE  video'[j].char = Blank
  BY DEF Blanked, Cells
<1>2. column' = 0
  BY Zenon DEF NextRow
<1>3. j \in Int
  BY ScreenParts DEF Cells
<1>4. CASE row + 1 < VGA_HEIGHT
  <2>1. row' = row + 1 /\ video' = v
    BY <1>4, Zenon DEF NextRow
  <2>2. Position' = row * VGA_WIDTH + VGA_WIDTH
    BY <1>2, <2>1, ScreenParts DEF Position
  <2>3. j > Position
    BY <1>1, <1>3, <2>2, ScreenParts DEF Position
  <2> QED BY <2>1, <2>3
<1>5. CASE ~(row + 1 < VGA_HEIGHT)
  <2>1. /\ row' = VGA_HEIGHT - 1
        /\ video' = [k \in Cells |-> IF k + VGA_WIDTH \in Cells THEN v[k + VGA_WIDTH]
                                                                ELSE Entry(Blank)]
    BY <1>5, Zenon DEF NextRow
  <2>2. Position' = VGA_WIDTH * VGA_HEIGHT - VGA_WIDTH
    BY <1>2, <2>1, ScreenParts DEF Position
  <2>3. j + VGA_WIDTH \notin Cells
    <3>1. VGA_WIDTH * VGA_HEIGHT \in Nat /\ VGA_WIDTH \in Nat
      BY ScreenParts
    <3>2. j >= VGA_WIDTH * VGA_HEIGHT - VGA_WIDTH
      BY <1>1, <2>2, Zenon
    <3>3. ~(j + VGA_WIDTH <= VGA_WIDTH * VGA_HEIGHT - 1)
      BY <1>3, <3>1, <3>2
    <3> QED BY <3>1, <3>3 DEF Cells
  <2> QED BY <2>1, <2>3 DEF Entry
<1> QED BY <1>4, <1>5

LEMMA BlankTerminalStep ==
  ASSUME TInv, Blanked \/ (todo # <<>> /\ Head(todo).op = "reset"), TerminalStep
  PROVE  Blanked'
<1>1. CASE Reset
  <2>1. video' = [j \in Cells |-> Entry(Blank)]
    BY <1>1, Zenon DEF Reset
  <2>2. \A j \in Cells : video'[j].char = Blank
    BY <2>1 DEF Entry
  <2> QED BY <2>2 DEF Blanked, Cells
<1>2. CASE Acquire \/ Release \/ UpdateCursor \/ SetColor \/ Paint \/ Repaint
  <2>1. Blanked
    BY <1>2 DEF Acquire, Release, UpdateCursor, SetColor, Paint, Repaint, Perform
  <2>2. UNCHANGED <<video, row, column>>
    BY <1>2, Zenon DEF Acquire, Release, UpdateCursor, SetColor, Paint, Repaint
  <2> QED BY <2>1, <2>2 DEF Blanked, Position, Cells
<1>3. CASE Put
  <2> DEFINE v == [video EXCEPT ![Position] = Entry(Head(todo).char)]
  <2>1. Blanked
    BY <1>3 DEF Put, Perform
  <2>2. \/ NextRow(video)
        \/ column + 1 = VGA_WIDTH /\ NextRow(v)
        \/ column + 1 # VGA_WIDTH /\ video' = v /\ column' = column + 1 /\ UNCHANGED row
    BY <1>3 DEF Put
  <2>3. Head(todo).char \in Chars
    <3>1. Perform("put")
      BY <1>3 DEF Put
    <3>2. Head(todo) \in Ops /\ Head(todo).op = "put"
      BY <3>1, PerformIsTyped, DesktopParts
    <3> QED BY <3>2 DEF Ops, TerminalOps, DesktopOps
  <2>4. v \in [Cells -> [char : Chars, color : Colors]]
    <3>1. Entry(Head(todo).char) \in [char : Chars, color : Colors]
      <4>1. current_color \in Colors
        BY Zenon DEF TInv, TypeOK, TerminalTypeOK
      <4> QED BY <2>3, <4>1 DEF Entry
    <3> QED BY <3>1, ScreenParts
  <2>5. Position \in Int /\ \A j \in Cells : j \in Int
    BY ScreenParts DEF Cells
  <2>6. \A j \in Cells : j > Position => video[j].char = Blank /\ v[j].char = Blank
    <3>1. ASSUME NEW j \in Cells, j > Position
          PROVE  video[j].char = Blank /\ v[j].char = Blank
      <4>1. j >= Position /\ j # Position
        BY <2>5, <3>1
      <4>2. video[j].char = Blank
        BY <2>1, <4>1, Zenon DEF Blanked
      <4>3. v[j] = video[j]
        BY <4>1, ScreenParts
      <4> QED BY <4>2, <4>3, Zenon
    <3> QED BY <3>1
  <2>7. CASE NextRow(video)
    BY <2>6, <2>7, NextRowBlank, ScreenParts
  <2>8. CASE NextRow(v)
    BY <2>4, <2>6, <2>8, NextRowBlank
  <2>9. CASE video' = v /\ column' = column + 1 /\ UNCHANGED row
    <3>1. Position' = Position + 1
      BY <2>9, ScreenParts DEF Position
    <3>2. \A j \in Cells : j >= Position' => video'[j].char = Blank
      BY <2>5, <2>6, <2>9, <3>1
    <3> QED BY <3>2 DEF Blanked, Cells
  <2> QED BY <2>2, <2>7, <2>8, <2>9
<1>4. CASE Backspace
  <2>1. Blanked
    BY <1>4 DEF Backspace, Perform
  <2>2. CASE row = 0 /\ column = 0
    <3>1. UNCHANGED <<video, row, column>>
      BY <1>4, <2>2 DEF Backspace
    <3> QED BY <2>1, <3>1 DEF Blanked, Position, Cells
  <2>3. CASE ~(row = 0 /\ column = 0)
    <3>1. /\ row' = IF column > 0 THEN row ELSE row - 1
          /\ column' = IF column > 0 THEN column - 1 ELSE VGA_WIDTH - 1
          /\ video' = [video EXCEPT ![row' * VGA_WIDTH + column'] = Entry(Blank)]
      BY <1>4, <2>3 DEF Backspace
    <3>2. Position' = Position - 1
      <4>1. CASE column > 0
        BY <3>1, <4>1, ScreenParts DEF Position
      <4>2. CASE ~(column > 0)
        <5>1. column = 0 /\ row' = row - 1 /\ column' = VGA_WIDTH - 1
          BY <3>1, <4>2, ScreenParts
        <5>2. Position' = row * VGA_WIDTH - VGA_WIDTH + (VGA_WIDTH - 1)
          BY <5>1, ScreenParts DEF Position
        <5> QED BY <5>1, <5>2, ScreenParts DEF Position
      <4> QED BY <4>1, <4>2
    <3>3. video' = [video EXCEPT ![Position - 1] = Entry(Blank)]
      BY <3>1, <3>2 DEF Position
    <3>4. Position \in Int /\ \A j \in Cells : j \in Int
      BY ScreenParts DEF Cells
    <3>5. ASSUME NEW j \in Cells, j >= Position' PROVE video'[j].char = Blank
      <4>1. CASE j = Position - 1
        BY <3>3, <4>1, ScreenParts DEF Entry
      <4>2. CASE j # Position - 1
        <5>1. j >= Position
          BY <3>2, <3>4, <3>5, <4>2
        <5> QED BY <2>1, <3>3, <4>2, <5>1, ScreenParts DEF Blanked
      <4> QED BY <4>1, <4>2
    <3> QED BY <3>5 DEF Blanked, Cells
  <2> QED BY <2>2, <2>3
<1> QED BY <1>1, <1>2, <1>3, <1>4, Zenon DEF TerminalStep

LEMMA OnlyTheTerminalWrites ==
  ASSUME [Next]_vars
  PROVE  TerminalStep \/ UNCHANGED terminalVars
<1>1. CASE Keystroke
  BY <1>1, Zenon DEF Keystroke, EraseCharacter, EnterLine, TypeCharacter, GuiKey, Handle
<1>2. CASE Execute
  BY <1>2, Zenon DEF Execute, EmptyLine, Help, Clear, Info, Shutdown, Uptime, Test,
                     GuiCommand, Echo, Unknown, Run, GuiRefused
<1>3. CASE InterruptsInitialize \/ Returns \/ Modifier
  BY <1>3, Zenon DEF InterruptsInitialize, Returns, Modifier, PressShift, ReleaseShift,
                     PressCapsLock
<1>4. CASE Fault \/ PageFault
  BY <1>4, Zenon DEF Fault, PageFault, Raise
<1>5. CASE UNCHANGED terminalVars \/ TerminalStep
  BY <1>5
<1>6. CASE UNCHANGED vars
  BY <1>6, Zenon DEF vars
<1> QED BY <1>1, <1>2, <1>3, <1>4, <1>5, <1>6, Zenon DEF Next

(* Before the first reset nothing else happens. *)
LEMMA ResetComesFirst ==
  ASSUME TInv, [Next]_vars, trap = "no IDT", todo # <<>>, Head(todo).op = "reset"
  PROVE  TerminalStep \/ UNCHANGED <<todo, trap>>
<1>1. ~AtRest /\ trap # "none"
  BY DEF AtRest
<1>2. ~Keystroke
  BY <1>1, Zenon DEF Keystroke, EraseCharacter, EnterLine, TypeCharacter, Typed, GuiKey, Ready
<1>3. ~Modifier
  BY <1>1, Zenon DEF Modifier, PressShift, ReleaseShift, PressCapsLock, Ready
<1>4. ~Execute
  BY DEF Execute, EmptyLine, Help, Clear, Info, Shutdown, Uptime, Test,
         GuiCommand, Echo, Unknown, Run, GuiRefused
<1>5. ~InterruptsInitialize /\ ~Returns
  BY DEF InterruptsInitialize, Returns, Iret, Sti, Perform
<1>6. ~DesktopStep /\ ~Gui
  BY DEF DesktopStep, FillDesktop, DrawOneWindow, Present, Gui, Perform
<1>7. ~Fault /\ ~PageFault
  BY <1>1 DEF Fault, PageFault, PresentFaults
<1>8. CASE UNCHANGED vars
  BY <1>8, Zenon DEF vars, handlerVars
<1> QED BY <1>2, <1>3, <1>4, <1>5, <1>6, <1>7, <1>8, Zenon DEF Next

(* Whatever has been printed, erased and scrolled, on a screen of any      *)
(* size, nothing is left over from the cursor on.                          *)
THEOREM NothingLeftOver == Spec => []NothingBehindCursor
<1>1. Init => TInv /\ BlankInv
  <2> SUFFICES ASSUME Init PROVE BlankInv
    BY InitTyped
  <2>1. trap = "no IDT" /\ todo = shell_initialize \o <<Do("idt")>>
    BY Zenon DEF Init
  <2>2. /\ terminal_write(<<Text, Newline, Prompt>>) \in Seq(Ops)
        /\ <<Do("reset")>> \in Seq(Ops) /\ <<Do("idt")>> \in Seq(Ops)
    BY CommandsAreOps, DoIsOp
  <2>3. todo # <<>> /\ Head(todo) = Do("reset")
    <3> DEFINE line == terminal_write(<<Text, Newline, Prompt>>)
    <3>1. todo = (<<Do("reset")>> \o line) \o <<Do("idt")>>
      BY <2>1, Zenon DEF shell_initialize
    <3>2. line \in Seq(Ops)
      BY <2>2
    <3> HIDE DEF line
    <3> QED BY <2>2, <3>1, <3>2
  <2>4. Head(todo).op = "reset"
    BY <2>3 DEF Do
  <2> QED BY <2>1, <2>3, <2>4, Zenon DEF BlankInv
<1>2. TInv /\ BlankInv /\ [Next]_vars => (TInv /\ BlankInv)'
  <2> SUFFICES ASSUME TInv, BlankInv, [Next]_vars PROVE BlankInv'
    BY NextTyped
  <2>1. CASE TerminalStep
    BY <2>1, BlankTerminalStep DEF BlankInv
  <2>2. CASE UNCHANGED terminalVars /\ ~TerminalStep
    <3>1. CASE Blanked
      BY <2>2, <3>1 DEF BlankInv, Blanked, terminalVars, Position, Cells
    <3>2. CASE trap = "no IDT" /\ todo # <<>> /\ Head(todo).op = "reset"
      BY <2>2, <3>2, ResetComesFirst DEF BlankInv
    <3> QED BY <3>1, <3>2 DEF BlankInv
  <2> QED BY <2>1, <2>2, OnlyTheTerminalWrites
<1>3. TInv /\ BlankInv => NothingBehindCursor
  <2> SUFFICES ASSUME TInv, BlankInv, trap # "no IDT" PROVE Blanked
    BY DEF NothingBehindCursor, Blanked
  <2> QED BY DEF BlankInv
<1> QED BY <1>1, <1>2, <1>3, PTL DEF Spec

-----------------------------------------------------------------------------
(* The line on the screen.  Operations that move no character: *)
Quiet(o) == o.op \in {"acquire", "release", "cursor", "color", "paint", "repaint",
                      "iret", "sti", "idt"}
(* Operations that are not replaced by what a command prints: *)
Plain(o) == o.op \notin {"execute", "gui"}

PutPrompt == [op |-> "put", char |-> Prompt]

(* Lists of operations: with a halt in them, with the execution of the      *)
(* line at the end, with a prompt as the last thing that is printed, and    *)
(* with one operation that writes on the screen.                            *)
Stops(s) == /\ \A k \in 1 .. Len(s) : Plain(s[k])
            /\ \E k \in 1 .. Len(s) : s[k].op = "halt"
Enters(s) == /\ Len(s) >= 2
             /\ s[Len(s) - 1] = Do("execute") /\ s[Len(s)] = Do("iret")
             /\ \A k \in 1 .. Len(s) - 2 : Plain(s[k])
PromptsAt(s, k) ==
  /\ s[k] = PutPrompt
  /\ \A j \in 1 .. k - 1 : Plain(s[j])
  /\ \A j \in k + 1 .. Len(s) : Quiet(s[j])
  /\ \E j \in k + 1 .. Len(s) : s[j].op = "cursor"
Prompts(s) == \E k \in 1 .. Len(s) : PromptsAt(s, k)
Only(s, k) == \A j \in 1 .. Len(s) : j # k => Quiet(s[j])
AllQuiet(s) == \A k \in 1 .. Len(s) : Quiet(s[k])
Moves(s) == \E k \in 1 .. Len(s) : s[k].op = "cursor"

(* The prompt and s stand right before the place of the next character. *)
Shown(s) ==
  /\ Position > Len(s)
  /\ video[Position - Len(s) - 1].char = Prompt
  /\ \A j \in 1 .. Len(s) : video[Position - Len(s) + j - 1].char = s[j]

Lines == Seq(Chars \ {Newline})

Types(s, k) ==
  /\ Only(s, k) /\ \E j \in k + 1 .. Len(s) : s[j].op = "cursor"
  /\ \E t \in Lines, c \in Chars \ {Newline} :
       input = Append(t, c) /\ Shown(t) /\ s[k] = [op |-> "put", char |-> c]
Erases(s, k) ==
  /\ Only(s, k) /\ s[k].op = "backspace"
  /\ \E c \in Chars : Shown(Append(input, c))

(* What is still to do ends with the prompt and the line on the screen, the *)
(* line being what has been typed, or starts something new.                 *)
Line ==
  \/ Stops(todo)
  \/ Enters(todo)
  \/ todo = <<Do("gui"), Do("iret")>> /\ input = <<>>
  \/ Prompts(todo) /\ input = <<>>
  \/ \E k \in 1 .. Len(todo) : Types(todo, k)
  \/ \E k \in 1 .. Len(todo) : Erases(todo, k)
  \/ Shown(input) /\ AllQuiet(todo) /\ (cursor = Position \/ Moves(todo))

Working == trap \in {"no IDT", "none"}

LineInv == Working /\ ~gui_active => Line

-----------------------------------------------------------------------------
(* Lists *)

LEMMA RestFacts ==
  ASSUME NEW s \in Seq(Ops), s # <<>>
  PROVE  /\ Len(s) \in Nat /\ Len(s) >= 1 /\ Tail(s) \in Seq(Ops)
         /\ Len(Tail(s)) = Len(s) - 1 /\ Head(s) = s[1]
         /\ \A k \in 1 .. Len(s) - 1 : Tail(s)[k] = s[k + 1]
  OBVIOUS

LEMMA GlueFacts ==
  ASSUME NEW s \in Seq(Ops), NEW t \in Seq(Ops)
  PROVE  /\ s \o t \in Seq(Ops)
         /\ Len(s) \in Nat /\ Len(t) \in Nat /\ Len(s \o t) = Len(s) + Len(t)
         /\ \A k \in 1 .. Len(s) : (s \o t)[k] = s[k]
         /\ \A k \in Len(s) + 1 .. Len(s) + Len(t) : (s \o t)[k] = t[k - Len(s)]
         /\ \A k \in 1 .. Len(t) : (s \o t)[Len(s) + k] = t[k]
  OBVIOUS

(* Short lists *)
LEMMA OneAndOne ==
  ASSUME NEW S, NEW a \in S, NEW b \in S
  PROVE  <<a>> \o <<b>> = <<a, b>>
<1>1. <<a>> \o <<b>> \in Seq(S)
  OBVIOUS
<1>2. /\ Len(<<a>> \o <<b>>) = 2
      /\ (<<a>> \o <<b>>)[1] = a
      /\ (<<a>> \o <<b>>)[2] = b
  OBVIOUS
<1>3. PICK u \in Seq(S) : u = <<a>> \o <<b>>
  BY <1>1, Zenon
<1>4. Len(u) = 2 /\ u[1] = a /\ u[2] = b
  BY <1>2, <1>3, Zenon
<1>5. u = <<a, b>>
  BY <1>4
<1> QED BY <1>3, <1>5, Zenon

LEMMA OneAndTwo ==
  ASSUME NEW S, NEW a \in S, NEW b \in S, NEW c \in S
  PROVE  <<a>> \o <<b, c>> = <<a, b, c>>
<1>1. <<a>> \o <<b, c>> \in Seq(S)
  OBVIOUS
<1>2. /\ Len(<<a>> \o <<b, c>>) = 3
      /\ (<<a>> \o <<b, c>>)[1] = a
      /\ (<<a>> \o <<b, c>>)[2] = b
      /\ (<<a>> \o <<b, c>>)[3] = c
  OBVIOUS
<1>3. PICK u \in Seq(S) : u = <<a>> \o <<b, c>>
  BY <1>1, Zenon
<1>4. Len(u) = 3 /\ u[1] = a /\ u[2] = b /\ u[3] = c
  BY <1>2, <1>3, Zenon
<1>5. u = <<a, b, c>>
  BY <1>4
<1> QED BY <1>3, <1>5, Zenon

LEMMA TwoAndOne ==
  ASSUME NEW S, NEW a \in S, NEW b \in S, NEW c \in S
  PROVE  <<a, b>> \o <<c>> = <<a, b, c>>
<1>1. <<a, b>> \o <<c>> \in Seq(S)
  OBVIOUS
<1>2. /\ Len(<<a, b>> \o <<c>>) = 3
      /\ (<<a, b>> \o <<c>>)[1] = a
      /\ (<<a, b>> \o <<c>>)[2] = b
      /\ (<<a, b>> \o <<c>>)[3] = c
  OBVIOUS
<1>3. PICK u \in Seq(S) : u = <<a, b>> \o <<c>>
  BY <1>1, Zenon
<1>4. Len(u) = 3 /\ u[1] = a /\ u[2] = b /\ u[3] = c
  BY <1>2, <1>3, Zenon
<1>5. u = <<a, b, c>>
  BY <1>4
<1> QED BY <1>3, <1>5, Zenon

LEMMA ThreeAndOne ==
  ASSUME NEW S, NEW a \in S, NEW b \in S, NEW c \in S, NEW d \in S
  PROVE  <<a, b, c>> \o <<d>> = <<a, b, c, d>>
<1>1. <<a, b, c>> \o <<d>> \in Seq(S)
  OBVIOUS
<1>2. /\ Len(<<a, b, c>> \o <<d>>) = 4
      /\ (<<a, b, c>> \o <<d>>)[1] = a
      /\ (<<a, b, c>> \o <<d>>)[2] = b
      /\ (<<a, b, c>> \o <<d>>)[3] = c
      /\ (<<a, b, c>> \o <<d>>)[4] = d
  OBVIOUS
<1>3. PICK u \in Seq(S) : u = <<a, b, c>> \o <<d>>
  BY <1>1, Zenon
<1>4. Len(u) = 4 /\ u[1] = a /\ u[2] = b /\ u[3] = c /\ u[4] = d
  BY <1>2, <1>3, Zenon
<1>5. u = <<a, b, c, d>>
  BY <1>4
<1> QED BY <1>3, <1>5, Zenon

LEMMA OneMore ==
  ASSUME NEW s \in Seq(Ops), NEW o \in Ops
  PROVE  /\ s \o <<o>> \in Seq(Ops) /\ Len(s \o <<o>>) = Len(s) + 1
         /\ (s \o <<o>>)[Len(s) + 1] = o
         /\ \A j \in 1 .. Len(s) : (s \o <<o>>)[j] = s[j]
<1>1. <<o>> \in Seq(Ops) /\ Len(<<o>>) = 1 /\ <<o>>[1] = o
  OBVIOUS
<1> QED BY <1>1, GlueFacts

LEMMA StopsRest ==
  ASSUME NEW s \in Seq(Ops), s # <<>>, Stops(s), Head(s).op # "halt"
  PROVE  Stops(Tail(s))
<1>1. PICK k \in 1 .. Len(s) : s[k].op = "halt"
  BY DEF Stops
<1>2. k # 1 /\ Len(s) \in Nat /\ Len(Tail(s)) = Len(s) - 1
  BY <1>1, RestFacts
<1>3. k - 1 \in 1 .. Len(Tail(s)) /\ Tail(s)[k - 1] = s[k]
  BY <1>2, RestFacts
<1>4. ASSUME NEW j \in 1 .. Len(Tail(s)) PROVE Plain(Tail(s)[j])
  <2>1. j + 1 \in 1 .. Len(s) /\ Tail(s)[j] = s[j + 1]
    BY <1>2, RestFacts
  <2> QED BY <2>1 DEF Stops
<1> QED BY <1>1, <1>3, <1>4 DEF Stops

LEMMA EntersRest ==
  ASSUME NEW s \in Seq(Ops), s # <<>>, Enters(s)
  PROVE  /\ Head(s).op # "execute" => Enters(Tail(s))
         /\ Head(s).op = "execute" => s = <<Do("execute"), Do("iret")>>
<1> DEFINE n == Len(s)
<1>1. /\ n \in Nat /\ n >= 2 /\ Head(s) = s[1] /\ Len(Tail(s)) = n - 1
      /\ s[n - 1] = Do("execute") /\ s[n] = Do("iret")
      /\ \A k \in 1 .. n - 2 : Plain(s[k])
      /\ \A k \in 1 .. n - 1 : Tail(s)[k] = s[k + 1]
  BY RestFacts DEF Enters
<1> HIDE DEF n
<1>2. CASE Head(s).op = "execute"
  <2>1. n = 2
    BY <1>1, <1>2 DEF Plain
  <2>2. Len(s) = 2 /\ s[1] = Do("execute") /\ s[2] = Do("iret")
    BY <1>1, <2>1 DEF n
  <2> QED BY <1>2, <2>2
<1>3. CASE Head(s).op # "execute"
  <2>1. n # 2
    BY <1>1, <1>3 DEF Do
  <2>2. /\ Len(Tail(s)) >= 2
        /\ Tail(s)[n - 2] = Do("execute") /\ Tail(s)[n - 1] = Do("iret")
    BY <1>1, <2>1
  <2>3. ASSUME NEW k \in 1 .. n - 3 PROVE Plain(Tail(s)[k])
    <3>1. k + 1 \in 1 .. n - 2 /\ k \in 1 .. n - 1
      BY <1>1
    <3> QED BY <1>1, <3>1
  <2>4. Len(Tail(s)) - 1 = n - 2 /\ Len(Tail(s)) - 2 = n - 3
    BY <1>1
  <2>5. Enters(Tail(s))
    BY <1>1, <2>2, <2>3, <2>4 DEF Enters
  <2> QED BY <1>3, <2>5
<1> QED BY <1>2, <1>3

LEMMA PromptsRest ==
  ASSUME NEW s \in Seq(Ops), s # <<>>, NEW k \in 1 .. Len(s), PromptsAt(s, k)
  PROVE  /\ Plain(Head(s))
         /\ k # 1 => Prompts(Tail(s))
         /\ k = 1 => Head(s) = PutPrompt /\ AllQuiet(Tail(s)) /\ Moves(Tail(s))
<1> DEFINE n == Len(s)
           r == Tail(s)
<1>1. /\ n \in Nat /\ k \in 1 .. n /\ Head(s) = s[1] /\ Len(r) = n - 1
      /\ \A j \in 1 .. n - 1 : r[j] = s[j + 1]
  BY RestFacts
<1>2. /\ s[k] = PutPrompt
      /\ \A j \in 1 .. k - 1 : Plain(s[j])
      /\ \A j \in k + 1 .. n : Quiet(s[j])
  BY DEF PromptsAt
<1>3. PICK m \in k + 1 .. n : s[m].op = "cursor"
  BY DEF PromptsAt
<1> HIDE DEF n, r
<1>4. Plain(PutPrompt)
  BY DEF Plain, PutPrompt
<1>5. Plain(Head(s))
  BY <1>1, <1>2, <1>4
<1>6. m - 1 \in k .. n - 1 /\ r[m - 1].op = "cursor"
  BY <1>1, <1>3
<1>7. ASSUME NEW j \in k .. n - 1 PROVE Quiet(r[j])
  BY <1>1, <1>2
<1>8. CASE k = 1
  <2>1. AllQuiet(r) /\ Moves(r)
    BY <1>1, <1>6, <1>7, <1>8 DEF AllQuiet, Moves
  <2> QED BY <1>1, <1>2, <1>5, <1>8, <2>1 DEF r
<1>9. CASE k # 1
  <2>1. k - 1 \in 1 .. Len(r) /\ r[k - 1] = PutPrompt
    BY <1>1, <1>2, <1>9
  <2>2. ASSUME NEW j \in 1 .. k - 1 - 1 PROVE Plain(r[j])
    <3>1. j + 1 \in 1 .. k - 1 /\ j \in 1 .. n - 1
      BY <1>1
    <3> QED BY <1>1, <1>2, <3>1
  <2>3. PromptsAt(r, k - 1)
    BY <1>1, <1>6, <1>7, <2>1, <2>2 DEF PromptsAt
  <2> QED BY <1>5, <1>9, <2>1, <2>3 DEF Prompts, r
<1> QED BY <1>8, <1>9

LEMMA OnlyRest ==
  ASSUME NEW s \in Seq(Ops), s # <<>>, NEW k \in 1 .. Len(s), Only(s, k)
  PROVE  /\ k # 1 => /\ Quiet(Head(s)) /\ k - 1 \in 1 .. Len(Tail(s))
                     /\ Only(Tail(s), k - 1) /\ Tail(s)[k - 1] = s[k]
         /\ k = 1 => Head(s) = s[1] /\ AllQuiet(Tail(s))
         /\ (\E j \in k + 1 .. Len(s) : s[j].op = "cursor")
              => \E j \in k .. Len(Tail(s)) : Tail(s)[j].op = "cursor"
<1> DEFINE n == Len(s)
           r == Tail(s)
<1>1. /\ n \in Nat /\ k \in 1 .. n /\ Head(s) = s[1] /\ Len(r) = n - 1
      /\ \A j \in 1 .. n - 1 : r[j] = s[j + 1]
      /\ \A j \in 1 .. n : j # k => Quiet(s[j])
  BY RestFacts DEF Only
<1> HIDE DEF n, r
<1>2. ASSUME NEW j \in 1 .. n - 1, j # k - 1 PROVE Quiet(r[j])
  BY <1>1, <1>2
<1>3. ASSUME NEW m \in k + 1 .. n, s[m].op = "cursor"
      PROVE  m - 1 \in k .. n - 1 /\ r[m - 1].op = "cursor"
  BY <1>1, <1>3
<1>4. CASE k = 1
  <2>1. AllQuiet(r)
    BY <1>1, <1>2, <1>4 DEF AllQuiet
  <2> QED BY <1>1, <1>3, <1>4, <2>1 DEF n, r
<1>5. CASE k # 1
  <2>1. k - 1 \in 1 .. Len(r) /\ r[k - 1] = s[k] /\ Quiet(Head(s))
    BY <1>1, <1>5
  <2>2. Only(r, k - 1)
    BY <1>1, <1>2 DEF Only
  <2> QED BY <1>1, <1>3, <1>5, <2>1, <2>2 DEF n, r
<1> QED BY <1>4, <1>5

LEMMA QuietRest ==
  ASSUME NEW s \in Seq(Ops), s # <<>>, AllQuiet(s)
  PROVE  /\ Quiet(Head(s)) /\ AllQuiet(Tail(s))
         /\ Moves(s) /\ Head(s).op # "cursor" => Moves(Tail(s))
<1> DEFINE n == Len(s)
           r == Tail(s)
<1>1. /\ n \in Nat /\ n >= 1 /\ Head(s) = s[1] /\ Len(r) = n - 1
      /\ \A j \in 1 .. n - 1 : r[j] = s[j + 1]
      /\ \A j \in 1 .. n : Quiet(s[j])
  BY RestFacts DEF AllQuiet
<1> HIDE DEF n, r
<1>2. Quiet(Head(s)) /\ AllQuiet(r)
  BY <1>1 DEF AllQuiet
<1>3. ASSUME NEW m \in 1 .. n, s[m].op = "cursor", Head(s).op # "cursor"
      PROVE  Moves(r)
  <2>1. m - 1 \in 1 .. Len(r) /\ r[m - 1].op = "cursor"
    BY <1>1, <1>3
  <2> QED BY <2>1 DEF Moves
<1> QED BY <1>2, <1>3 DEF Moves, n, r

-----------------------------------------------------------------------------
(* The screen *)

(* A character moves what is on the screen by d cells: by none, or by a row *)
(* when the screen scrolls.                                                 *)
LEMMA PutMoves ==
  ASSUME TInv, Put, Head(todo).char # Newline
  PROVE  \E d \in {0, VGA_WIDTH} :
           /\ Position' = Position + 1 - d
           /\ d # 0 => Position' = VGA_WIDTH * (VGA_HEIGHT - 1)
           /\ \A j \in Cells : j + d \in Cells =>
                video'[j].char = IF j + d = Position THEN Head(todo).char
                                 ELSE video[j + d].char
<1> DEFINE c == Head(todo).char
           v == [video EXCEPT ![Position] = Entry(c)]
<1>1. \/ column + 1 = VGA_WIDTH /\ NextRow(v)
      \/ column + 1 # VGA_WIDTH /\ video' = v /\ column' = column + 1 /\ UNCHANGED row
  BY DEF Put
<1>2. \A j \in Cells : v[j].char = IF j = Position THEN c ELSE video[j].char
  BY ScreenParts DEF Entry
<1>3. VGA_WIDTH * (VGA_HEIGHT - 1) = VGA_WIDTH * VGA_HEIGHT - VGA_WIDTH
  BY ScreenAssumption
<1>4. /\ Position = row * VGA_WIDTH + column
      /\ Position' = row' * VGA_WIDTH + column'
      /\ \A j \in Cells : j \in Int /\ j + 0 = j
  BY ScreenParts DEF Position, Cells
<1> HIDE DEF v, c
<1>5. CASE column + 1 # VGA_WIDTH /\ video' = v /\ column' = column + 1 /\ UNCHANGED row
  <2>1. Position' = Position + 1 - 0
    BY <1>4, <1>5, ScreenParts
  <2>2. \A j \in Cells : j + 0 \in Cells =>
          video'[j].char = IF j + 0 = Position THEN c ELSE video[j + 0].char
    BY <1>2, <1>4, <1>5
  <2> QED BY <2>1, <2>2 DEF c
<1>6. CASE column + 1 = VGA_WIDTH /\ NextRow(v) /\ row + 1 < VGA_HEIGHT
  <2>1. column' = 0 /\ row' = row + 1 /\ video' = v
    BY <1>6, Zenon DEF NextRow
  <2>2. Position' = Position + 1 - 0
    BY <1>4, <1>6, <2>1, ScreenParts
  <2>3. \A j \in Cells : j + 0 \in Cells =>
          video'[j].char = IF j + 0 = Position THEN c ELSE video[j + 0].char
    BY <1>2, <1>4, <2>1
  <2> QED BY <2>2, <2>3 DEF c
<1>7. CASE column + 1 = VGA_WIDTH /\ NextRow(v) /\ ~(row + 1 < VGA_HEIGHT)
  <2>1. /\ column' = 0 /\ row' = VGA_HEIGHT - 1
        /\ video' = [j \in Cells |-> IF j + VGA_WIDTH \in Cells THEN v[j + VGA_WIDTH]
                                                                ELSE Entry(Blank)]
    BY <1>7, Zenon DEF NextRow
  <2>2. row = VGA_HEIGHT - 1
    BY <1>7, ScreenParts
  <2>3. Position' = VGA_WIDTH * VGA_HEIGHT - VGA_WIDTH
    BY <1>4, <2>1, ScreenParts
  <2>4. Position = VGA_WIDTH * VGA_HEIGHT - VGA_WIDTH + column
    BY <1>4, <2>2, ScreenParts
  <2>5. Position' = Position + 1 - VGA_WIDTH
    BY <1>7, <2>3, <2>4, ScreenParts
  <2>6. \A j \in Cells : j + VGA_WIDTH \in Cells =>
          video'[j].char = IF j + VGA_WIDTH = Position THEN c ELSE video[j + VGA_WIDTH].char
    BY <1>2, <2>1
  <2> QED BY <1>3, <2>3, <2>5, <2>6 DEF c
<1> QED BY <1>1, <1>5, <1>6, <1>7

LEMMA CellFacts ==
  ASSUME TInv
  PROVE  /\ Position \in Nat /\ VGA_WIDTH \in Nat /\ VGA_WIDTH >= 1
         /\ \A m \in Int : m >= 0 /\ m <= Position => m \in Cells
<1> DEFINE n == VGA_WIDTH * VGA_HEIGHT
<1>1. n \in Nat /\ Cells = 0 .. n - 1
  BY ScreenParts DEF Cells
<1>2. Position \in Cells /\ VGA_WIDTH \in Nat \ {0}
  BY ScreenParts
<1> HIDE DEF n
<1> QED BY <1>1, <1>2

LEMMA LineFits ==
  /\ INPUT_SIZE \in Nat /\ INPUT_SIZE >= 1
  /\ INPUT_SIZE <= VGA_WIDTH * (VGA_HEIGHT - 1)
  /\ Prompt # Newline /\ Prompt \in Chars
  BY ShellAssumption

(* After the prompt the line is empty. *)
LEMMA PromptShows ==
  ASSUME TInv, Put, Head(todo) = PutPrompt
  PROVE  Shown(<<>>)'
<1>1. Head(todo).char = Prompt /\ Prompt # Newline
  BY LineFits DEF PutPrompt
<1>2. PICK d \in {0, VGA_WIDTH} :
        /\ Position' = Position + 1 - d
        /\ d # 0 => Position' = VGA_WIDTH * (VGA_HEIGHT - 1)
        /\ \A j \in Cells : j + d \in Cells =>
             video'[j].char = IF j + d = Position THEN Head(todo).char
                              ELSE video[j + d].char
  BY <1>1, PutMoves
<1>3. Position \in Nat /\ d \in Nat
  BY <1>2, CellFacts
<1>4. Position' \in Int /\ Position' > 0
  <2>1. CASE d = 0
    BY <1>2, <1>3, <2>1
  <2>2. CASE d # 0
    BY <1>2, <1>3, <2>2, LineFits
  <2> QED BY <2>1, <2>2
<1>5. /\ Position' - 1 \in Int /\ Position' - 1 >= 0 /\ Position' - 1 <= Position
      /\ Position' - 1 + d = Position
  BY <1>2, <1>3, <1>4
<1>6. Position' - 1 \in Cells /\ Position \in Cells
  BY <1>5, CellFacts, ScreenParts
<1>7. video'[Position' - 1].char = Prompt
  BY <1>1, <1>2, <1>5, <1>6
<1>8. Len(<<>>) = 0 /\ Position' - 0 - 1 = Position' - 1
  BY <1>4
<1> QED BY <1>4, <1>7, <1>8 DEF Shown

(* A character typed behind the line makes it longer; the beginning of the  *)
(* line does not scroll away.                                               *)
LEMMA TypeShows ==
  ASSUME TInv, Put, NEW t \in Seq(Chars), Shown(t), Len(t) + 1 < INPUT_SIZE,
         NEW c \in Chars \ {Newline}, Head(todo) = [op |-> "put", char |-> c]
  PROVE  Shown(Append(t, c))'
<1> DEFINE n == Len(t)
           P == Position
           Q == Position'
<1>1. Head(todo).char = c /\ c # Newline
  OBVIOUS
<1>2. PICK d \in {0, VGA_WIDTH} :
        /\ Q = P + 1 - d
        /\ d # 0 => Q = VGA_WIDTH * (VGA_HEIGHT - 1)
        /\ \A j \in Cells : j + d \in Cells =>
             video'[j].char = IF j + d = P THEN c ELSE video[j + d].char
  BY <1>1, PutMoves
<1>3. P \in Cells /\ P \in Nat /\ d \in Nat /\ n \in Nat /\ P > n
  <2>1. P \in Cells
    BY ScreenParts
  <2>2. P \in Nat /\ d \in Nat
    BY <1>2, CellFacts
  <2> QED BY <2>1, <2>2 DEF Shown
<1>4. /\ video[P - n - 1].char = Prompt
      /\ \A j \in 1 .. n : video[P - n + j - 1].char = t[j]
  BY DEF Shown
<1>5. /\ Len(Append(t, c)) = n + 1 /\ Append(t, c)[n + 1] = c
      /\ \A j \in 1 .. n : Append(t, c)[j] = t[j]
  OBVIOUS
<1>6. n + 1 < INPUT_SIZE
  OBVIOUS
<1> HIDE DEF n, P, Q
<1>7. Q \in Int /\ Q > n + 1
  <2>1. CASE d = 0
    BY <1>2, <1>3, <2>1
  <2>2. CASE d # 0
    BY <1>2, <1>3, <1>6, <2>2, LineFits
  <2> QED BY <2>1, <2>2
<1>8. ASSUME NEW j \in 0 .. n
      PROVE  /\ Q - (n + 1) + j - 1 \in Cells
             /\ Q - (n + 1) + j - 1 + d = P - n + j - 1
             /\ P - n + j - 1 \in Cells /\ P - n + j - 1 # P
  <2>1. /\ Q - (n + 1) + j - 1 + d = P - n + j - 1
        /\ Q - (n + 1) + j - 1 >= 0
        /\ P - n + j - 1 <= P - 1 /\ P - n + j - 1 \in Int
    BY <1>2, <1>3, <1>7
  <2>2. \A m \in Int : m >= 0 /\ m <= P => m \in Cells
    BY CellFacts DEF P
  <2> QED BY <1>3, <1>7, <2>1, <2>2
<1>9. video'[Q - (n + 1) - 1].char = Prompt
  <2>1. /\ Q - (n + 1) + 0 - 1 \in Cells
        /\ Q - (n + 1) + 0 - 1 + d = P - n + 0 - 1
        /\ P - n + 0 - 1 \in Cells /\ P - n + 0 - 1 # P
    <3>1. 0 \in 0 .. n
      BY <1>3
    <3> QED BY <1>8, <3>1
  <2>2. Q - (n + 1) + 0 - 1 = Q - (n + 1) - 1 /\ P - n + 0 - 1 = P - n - 1
    BY <1>3, <1>7
  <2> QED BY <1>2, <1>4, <2>1, <2>2
<1>10. ASSUME NEW j \in 1 .. n + 1
       PROVE  video'[Q - (n + 1) + j - 1].char = Append(t, c)[j]
  <2>1. CASE j = n + 1
    <3>1. /\ Q - (n + 1) + j - 1 = Q - 1 /\ Q - 1 + d = P
          /\ Q - 1 \in Int /\ Q - 1 >= 0 /\ Q - 1 <= P
      BY <1>2, <1>3, <1>7, <2>1
    <3>2. Q - 1 \in Cells
      BY <3>1, CellFacts DEF P
    <3>3. video'[Q - 1].char = c
      BY <1>2, <1>3, <3>1, <3>2
    <3> QED BY <1>5, <2>1, <3>1, <3>3
  <2>2. CASE j # n + 1
    <3>1. j \in 0 .. n /\ j \in 1 .. n
      BY <1>3, <2>2
    <3>2. /\ Q - (n + 1) + j - 1 \in Cells
          /\ Q - (n + 1) + j - 1 + d = P - n + j - 1
          /\ P - n + j - 1 \in Cells /\ P - n + j - 1 # P
      BY <1>8, <3>1
    <3>3. video'[Q - (n + 1) + j - 1].char = video[P - n + j - 1].char
      BY <1>2, <3>2
    <3> QED BY <1>4, <1>5, <3>1, <3>3
  <2> QED BY <2>1, <2>2
<1>11. Len(Append(t, c)) = n + 1
  BY <1>5
<1> QED BY <1>7, <1>9, <1>10, <1>11 DEF Shown, Q

(* A backspace takes the last character away, across the margin too. *)
LEMMA EraseShows ==
  ASSUME TInv, Backspace, NEW t \in Seq(Chars), NEW c \in Chars, Shown(Append(t, c))
  PROVE  Shown(t)' /\ cursor' = Position'
<1> DEFINE n == Len(t)
           P == Position
           Q == Position'
<1>1. /\ n \in Nat /\ Len(Append(t, c)) = n + 1
      /\ \A j \in 1 .. n : Append(t, c)[j] = t[j]
  OBVIOUS
<1>2. P \in Cells /\ P \in Nat
  BY ScreenParts, CellFacts
<1>3. /\ P > n + 1
      /\ video[P - (n + 1) - 1].char = Prompt
      /\ \A j \in 1 .. n + 1 : video[P - (n + 1) + j - 1].char = Append(t, c)[j]
  BY <1>1 DEF Shown
<1>4. ~(row = 0 /\ column = 0)
  BY <1>1, <1>3, ScreenParts DEF Position, P
<1>5. /\ row' = IF column > 0 THEN row ELSE row - 1
      /\ column' = IF column > 0 THEN column - 1 ELSE VGA_WIDTH - 1
      /\ video' = [video EXCEPT ![row' * VGA_WIDTH + column'] = Entry(Blank)]
      /\ cursor' = row' * VGA_WIDTH + column'
  BY <1>4 DEF Backspace
<1>6. Q = P - 1
  <2>1. CASE column > 0
    <3>1. row' = row /\ column' = column - 1
      BY <1>5, <2>1
    <3>2. Q = row * VGA_WIDTH + (column - 1)
      BY <3>1 DEF Position, Q
    <3> QED BY <3>2, ScreenParts DEF Position, P
  <2>2. CASE ~(column > 0)
    <3>1. row' = row - 1 /\ column' = VGA_WIDTH - 1
      BY <1>5, <2>2
    <3>4. column = 0
      BY <2>2, ScreenParts
    <3>2. Q = (row - 1) * VGA_WIDTH + (VGA_WIDTH - 1)
      BY <3>1 DEF Position, Q
    <3>3. Q = row * VGA_WIDTH - VGA_WIDTH + (VGA_WIDTH - 1)
      BY <3>2, ScreenParts
    <3> QED BY <3>3, <3>4, ScreenParts DEF Position, P
  <2> QED BY <2>1, <2>2
<1>7. cursor' = Q /\ video' = [video EXCEPT ![Q] = Entry(Blank)]
  BY <1>5 DEF Position, Q
<1> HIDE DEF n, P, Q
<1>8. \A j \in Cells : j # Q => video'[j] = video[j]
  BY <1>7, ScreenParts
<1>9. \A m \in Int : m >= 0 /\ m <= P => m \in Cells
  BY CellFacts DEF P
<1>10. Q > n /\ Q \in Int
  BY <1>1, <1>2, <1>3, <1>6
<1>11. video'[Q - n - 1].char = Prompt
  <2>1. Q - n - 1 = P - (n + 1) - 1 /\ Q - n - 1 \in Cells /\ Q - n - 1 # Q
    BY <1>1, <1>2, <1>3, <1>6, <1>9
  <2> QED BY <1>3, <1>8, <2>1
<1>12. ASSUME NEW j \in 1 .. n PROVE video'[Q - n + j - 1].char = t[j]
  <2>1. /\ Q - n + j - 1 = P - (n + 1) + j - 1 /\ j \in 1 .. n + 1
        /\ Q - n + j - 1 \in Cells /\ Q - n + j - 1 # Q
    BY <1>1, <1>2, <1>3, <1>6, <1>9
  <2> QED BY <1>1, <1>3, <1>8, <2>1
<1> QED BY <1>7, <1>10, <1>11, <1>12 DEF Shown, n, Q

-----------------------------------------------------------------------------
LEMMA ShownPrime ==
  ASSUME NEW t
  PROVE  /\ t = input' /\ Shown(t)' => Shown(input)'
         /\ \A c : t = Append(input', c) /\ Shown(t)' => Shown(Append(input, c))'
  BY DEF Shown

(* Line, step by step: the next operation of the running handler *)
LEMMA LinePops ==
  ASSUME TInv, Line, todo # <<>>, todo' = Tail(todo), UNCHANGED input,
         Plain(Head(todo)), Head(todo).op # "halt",
         Quiet(Head(todo)) =>
           /\ UNCHANGED <<video, row, column>>
           /\ IF Head(todo).op = "cursor" THEN cursor' = Position ELSE UNCHANGED cursor,
         Head(todo).op = "put" => Put,
         Head(todo).op = "backspace" => Backspace
  PROVE  Line'
<1>1. todo \in Seq(Ops)
  BY DesktopParts
<1>2. /\ ~Quiet(PutPrompt) /\ PutPrompt.op = "put"
      /\ \A o : o.op \in {"put", "backspace"} => ~Quiet(o)
      /\ ~Plain(Do("gui")) /\ ~Plain(Do("execute"))
  BY DEF Quiet, PutPrompt, Plain, Do
<1>3. input \in Seq(Chars \ {Newline}) /\ Len(input) < INPUT_SIZE
  BY Zenon DEF TInv, TypeOK
<1>4. ASSUME UNCHANGED <<video, row, column>>
      PROVE  Position' = Position /\ \A t : Shown(t) => Shown(t)'
  BY <1>4 DEF Shown, Position
<1>5. CASE Stops(todo)
  BY <1>1, <1>5, StopsRest DEF Line
<1>6. CASE Enters(todo)
  <2>1. Head(todo).op # "execute"
    BY DEF Plain
  <2> QED BY <1>1, <1>6, <2>1, EntersRest DEF Line
<1>7. CASE todo = <<Do("gui"), Do("iret")>>
  <2>1. Head(todo) = Do("gui")
    BY <1>7
  <2> QED BY <1>2, <2>1
<1>8. CASE Prompts(todo) /\ input = <<>>
  <2>1. PICK k \in 1 .. Len(todo) : PromptsAt(todo, k)
    BY <1>8 DEF Prompts
  <2>2. CASE k # 1
    <3>1. Prompts(todo')
      BY <1>1, <2>1, <2>2, PromptsRest
    <3> QED BY <1>8, <3>1 DEF Line
  <2>3. CASE k = 1
    <3>1. Head(todo) = PutPrompt /\ AllQuiet(todo') /\ Moves(todo')
      BY <1>1, <2>1, <2>3, PromptsRest
    <3>2. Shown(<<>>)'
      BY <1>2, <3>1, PromptShows
    <3>3. Shown(input)'
      BY <1>8, <3>2, ShownPrime
    <3> QED BY <3>1, <3>3 DEF Line
  <2> QED BY <2>2, <2>3
<1>9. CASE \E k \in 1 .. Len(todo) : Types(todo, k)
  <2>1. PICK k \in 1 .. Len(todo) : Types(todo, k)
    BY <1>9
  <2>2. PICK t \in Lines, c \in Chars \ {Newline} :
          input = Append(t, c) /\ Shown(t) /\ todo[k] = [op |-> "put", char |-> c]
    BY <2>1 DEF Types
  <2>3. Only(todo, k) /\ \E j \in k + 1 .. Len(todo) : todo[j].op = "cursor"
    BY <2>1 DEF Types
  <2>4. PICK m \in k .. Len(todo') : todo'[m].op = "cursor"
    BY <1>1, <2>3, OnlyRest
  <2>5. CASE k # 1
    <3>1. /\ Quiet(Head(todo)) /\ k - 1 \in 1 .. Len(todo')
          /\ Only(todo', k - 1) /\ todo'[k - 1] = todo[k]
      BY <1>1, <2>3, <2>5, OnlyRest
    <3>2. Shown(t)'
      BY <1>4, <2>2, <3>1
    <3>3. m \in (k - 1) + 1 .. Len(todo')
      BY <2>4
    <3>4. Types(todo, k - 1)'
      BY <2>2, <2>4, <3>1, <3>2, <3>3 DEF Types
    <3> QED BY <3>1, <3>4 DEF Line
  <2>6. CASE k = 1
    <3>1. Head(todo) = todo[1] /\ AllQuiet(todo')
      BY <1>1, <2>3, <2>6, OnlyRest
    <3>2. Put
      BY <2>2, <2>6, <3>1
    <3>3. t \in Seq(Chars) /\ Len(t) + 1 < INPUT_SIZE
      BY <1>3, <2>2 DEF Lines
    <3>4. Shown(Append(t, c))'
      BY <2>2, <2>6, <3>1, <3>2, <3>3, TypeShows
    <3>5. Shown(input)'
      BY <2>2, <3>4, ShownPrime
    <3>6. Moves(todo')
      BY <2>4, <2>6 DEF Moves
    <3> QED BY <3>1, <3>5, <3>6 DEF Line
  <2> QED BY <2>5, <2>6
<1>10. CASE \E k \in 1 .. Len(todo) : Erases(todo, k)
  <2>1. PICK k \in 1 .. Len(todo) : Erases(todo, k)
    BY <1>10
  <2>2. PICK c \in Chars : Shown(Append(input, c))
    BY <2>1 DEF Erases
  <2>3. Only(todo, k) /\ todo[k].op = "backspace"
    BY <2>1 DEF Erases
  <2>4. CASE k # 1
    <3>1. /\ Quiet(Head(todo)) /\ k - 1 \in 1 .. Len(todo')
          /\ Only(todo', k - 1) /\ todo'[k - 1] = todo[k]
      BY <1>1, <2>3, <2>4, OnlyRest
    <3>2. Shown(Append(input, c))'
      <4>1. PICK t : t = Append(input, c)
        OBVIOUS
      <4>2. Shown(t)'
        BY <1>4, <2>2, <3>1, <4>1
      <4> QED BY <4>1, <4>2, ShownPrime
    <3>3. Erases(todo, k - 1)'
      BY <2>3, <3>1, <3>2 DEF Erases
    <3> QED BY <3>1, <3>3 DEF Line
  <2>5. CASE k = 1
    <3>1. Head(todo) = todo[1] /\ AllQuiet(todo')
      BY <1>1, <2>3, <2>5, OnlyRest
    <3>2. Backspace
      BY <2>3, <2>5, <3>1
    <3>3. PICK t \in Seq(Chars) : t = input
      BY <1>3
    <3>4. Shown(t)' /\ cursor' = Position'
      BY <2>2, <3>2, <3>3, EraseShows
    <3>5. Shown(input)'
      BY <3>3, <3>4, ShownPrime
    <3> QED BY <3>1, <3>4, <3>5 DEF Line
  <2> QED BY <2>4, <2>5
<1>11. CASE Shown(input) /\ AllQuiet(todo) /\ (cursor = Position \/ Moves(todo))
  <2>1. Quiet(Head(todo)) /\ AllQuiet(todo')
    BY <1>1, <1>11, QuietRest
  <2>2. Shown(input)' /\ Position' = Position
    <3>1. PICK t : t = input
      OBVIOUS
    <3>2. Shown(t)' /\ Position' = Position
      BY <1>4, <1>11, <2>1, <3>1
    <3> QED BY <3>1, <3>2, ShownPrime
  <2>3. cursor' = Position' \/ Moves(todo')
    BY <1>1, <1>11, <2>1, <2>2, QuietRest
  <2> QED BY <2>1, <2>2, <2>3 DEF Line
<1> QED BY <1>5, <1>6, <1>7, <1>8, <1>9, <1>10, <1>11 DEF Line

LEMMA LineAtRest ==
  ASSUME TInv, Line, AtRest
  PROVE  Shown(input) /\ cursor = Position
<1>1. todo = <<>> /\ Len(todo) = 0 /\ \A k \in 1 .. Len(todo) : FALSE
  BY DEF AtRest
<1>2. ~Stops(todo) /\ ~Prompts(todo) /\ ~Moves(todo)
  BY <1>1 DEF Stops, Prompts, Moves
<1>3. ~Enters(todo)
  BY <1>1 DEF Enters
<1>4. todo # <<Do("gui"), Do("iret")>>
  BY <1>1
<1> QED BY <1>1, <1>2, <1>3, <1>4 DEF Line

(* What stands in front of a line that a command replaces *)
LEMMA LineStarts ==
  ASSUME TInv, Line, todo # <<>>
  PROVE  /\ Head(todo).op = "execute" => todo = <<Do("execute"), Do("iret")>>
         /\ Head(todo).op = "gui" => input = <<>> /\ todo = <<Do("gui"), Do("iret")>>
<1>1. todo \in Seq(Ops) /\ Head(todo) = todo[1] /\ Len(todo) \in Nat /\ Len(todo) >= 1
  BY DesktopParts, RestFacts
<1>2. Head(todo).op \in {"execute", "gui"} => ~Plain(Head(todo)) /\ ~Quiet(Head(todo))
  BY DEF Plain, Quiet
<1>3. ASSUME Head(todo).op \in {"execute", "gui"}
      PROVE  Enters(todo) \/ (todo = <<Do("gui"), Do("iret")>> /\ input = <<>>)
  <2>1. ~Stops(todo) /\ ~AllQuiet(todo)
    BY <1>1, <1>2, <1>3 DEF Stops, AllQuiet
  <2>2. ~Prompts(todo)
    BY <1>1, <1>2, <1>3, PromptsRest DEF Prompts
  <2>3. ASSUME NEW k \in 1 .. Len(todo) PROVE ~Types(todo, k) /\ ~Erases(todo, k)
    <3>1. CASE k = 1
      <4>1. todo[k].op \notin {"put", "backspace"}
        BY <1>1, <1>3, <3>1
      <4>2. \A c : [op |-> "put", char |-> c].op = "put"
        OBVIOUS
      <4>3. ~Types(todo, k)
        BY <4>1, <4>2, Zenon DEF Types
      <4>4. ~Erases(todo, k)
        BY <4>1, Zenon DEF Erases
      <4> QED BY <4>3, <4>4
    <3>2. CASE k # 1
      <4>1. ~Only(todo, k)
        BY <1>1, <1>2, <1>3, <3>2 DEF Only
      <4> QED BY <4>1 DEF Types, Erases
    <3> QED BY <3>1, <3>2
  <2> QED BY <2>1, <2>2, <2>3 DEF Line
<1>4. ASSUME Enters(todo), Head(todo).op = "gui" PROVE FALSE
  <2>1. Len(todo) >= 2
    BY <1>4 DEF Enters
  <2>2. CASE Len(todo) = 2
    BY <1>1, <1>4, <2>2 DEF Enters, Do
  <2>3. CASE Len(todo) # 2
    <3>1. 1 \in 1 .. Len(todo) - 2
      <4>1. PICK n \in Nat : n = Len(todo)
        BY <1>1
      <4>2. 1 \in 1 .. n - 2
        BY <2>1, <2>3, <4>1
      <4> QED BY <4>1, <4>2
    <3>2. Plain(Head(todo))
      BY <1>1, <1>4, <3>1 DEF Enters
    <3> QED BY <1>4, <3>2 DEF Plain
  <2> QED BY <2>2, <2>3
<1>5. todo = <<Do("gui"), Do("iret")>> => Head(todo).op = "gui"
  BY DEF Do
<1> QED BY <1>1, <1>3, <1>4, <1>5, EntersRest

-----------------------------------------------------------------------------
(* What commands print ends with the prompt. *)
Harmless(s) == s \in Seq(Ops) /\ \A k \in 1 .. Len(s) : Plain(s[k])
Prompting(s) == s \in Seq(Ops) /\ Prompts(s)

LEMMA HarmlessConcat ==
  ASSUME NEW s, NEW t, Harmless(s), Harmless(t)
  PROVE  Harmless(s \o t)
<1>1. s \in Seq(Ops) /\ t \in Seq(Ops)
  BY DEF Harmless
<1>2. ASSUME NEW k \in 1 .. Len(s) + Len(t) PROVE Plain((s \o t)[k])
  <2>1. CASE k <= Len(s)
    <3>1. k \in 1 .. Len(s)
      BY <1>1, <2>1, GlueFacts
    <3> QED BY <1>1, <3>1, GlueFacts DEF Harmless
  <2>2. CASE ~(k <= Len(s))
    <3>1. k \in Len(s) + 1 .. Len(s) + Len(t) /\ k - Len(s) \in 1 .. Len(t)
      BY <1>1, <2>2, GlueFacts
    <3> QED BY <1>1, <3>1, GlueFacts DEF Harmless
  <2> QED BY <2>1, <2>2
<1> QED BY <1>1, <1>2, GlueFacts DEF Harmless

LEMMA PromptingAfter ==
  ASSUME NEW s, NEW t, Harmless(s), Prompting(t)
  PROVE  Prompting(s \o t)
<1> DEFINE n == Len(s)
           m == Len(t)
           c == s \o t
<1>1. s \in Seq(Ops) /\ t \in Seq(Ops) /\ \A j \in 1 .. Len(s) : Plain(s[j])
  BY DEF Harmless, Prompting
<1>2. /\ c \in Seq(Ops) /\ n \in Nat /\ m \in Nat /\ Len(c) = n + m
      /\ \A j \in 1 .. n : c[j] = s[j]
      /\ \A j \in n + 1 .. n + m : c[j] = t[j - n]
      /\ \A j \in 1 .. m : c[n + j] = t[j]
      /\ \A j \in 1 .. n : Plain(s[j])
  BY <1>1, GlueFacts
<1>3. PICK k \in 1 .. m : PromptsAt(t, k)
  BY DEF Prompting, Prompts
<1>4. /\ t[k] = PutPrompt
      /\ \A j \in 1 .. k - 1 : Plain(t[j])
      /\ \A j \in k + 1 .. m : Quiet(t[j])
  BY <1>3 DEF PromptsAt
<1>5. PICK l \in k + 1 .. m : t[l].op = "cursor"
  BY <1>3 DEF PromptsAt
<1> HIDE DEF n, m, c
<1>6. n + k \in 1 .. Len(c) /\ c[n + k] = PutPrompt
  BY <1>2, <1>4
<1>7. ASSUME NEW j \in 1 .. n + k - 1 PROVE Plain(c[j])
  <2>1. CASE j <= n
    BY <1>2, <2>1
  <2>2. CASE ~(j <= n)
    <3>1. j \in n + 1 .. n + m /\ j - n \in 1 .. k - 1
      BY <1>2, <2>2
    <3> QED BY <1>2, <1>4, <3>1
  <2> QED BY <2>1, <2>2
<1>8. ASSUME NEW j \in n + k + 1 .. n + m PROVE Quiet(c[j])
  <2>1. j \in n + 1 .. n + m /\ j - n \in k + 1 .. m
    BY <1>2
  <2> QED BY <1>2, <1>4, <2>1
<1>9. n + l \in n + k + 1 .. n + m /\ c[n + l].op = "cursor"
  BY <1>2, <1>5
<1>10. PromptsAt(c, n + k)
  BY <1>2, <1>6, <1>7, <1>8, <1>9 DEF PromptsAt
<1> QED BY <1>2, <1>6, <1>10 DEF Prompting, Prompts, c

LEMMA PromptingBefore ==
  ASSUME NEW s, NEW t \in Seq(Ops), Prompting(s), AllQuiet(t)
  PROVE  Prompting(s \o t)
<1> DEFINE n == Len(s)
           m == Len(t)
           c == s \o t
<1>1. s \in Seq(Ops) /\ \A j \in 1 .. Len(t) : Quiet(t[j])
  BY DEF Prompting, AllQuiet
<1>2. /\ c \in Seq(Ops) /\ n \in Nat /\ m \in Nat /\ Len(c) = n + m
      /\ \A j \in 1 .. n : c[j] = s[j]
      /\ \A j \in n + 1 .. n + m : c[j] = t[j - n]
      /\ \A j \in 1 .. m : Quiet(t[j])
  BY <1>1, GlueFacts
<1>3. PICK k \in 1 .. n : PromptsAt(s, k)
  BY DEF Prompting, Prompts
<1>4. /\ s[k] = PutPrompt
      /\ \A j \in 1 .. k - 1 : Plain(s[j])
      /\ \A j \in k + 1 .. n : Quiet(s[j])
  BY <1>3 DEF PromptsAt
<1>5. PICK l \in k + 1 .. n : s[l].op = "cursor"
  BY <1>3 DEF PromptsAt
<1> HIDE DEF n, m, c
<1>6. k \in 1 .. Len(c) /\ c[k] = PutPrompt
  BY <1>2, <1>4
<1>7. ASSUME NEW j \in 1 .. k - 1 PROVE Plain(c[j])
  BY <1>2, <1>4
<1>8. ASSUME NEW j \in k + 1 .. n + m PROVE Quiet(c[j])
  <2>1. CASE j <= n
    BY <1>2, <1>4, <2>1
  <2>2. CASE ~(j <= n)
    <3>1. j \in n + 1 .. n + m /\ j - n \in 1 .. m
      BY <1>2, <2>2
    <3> QED BY <1>2, <3>1
  <2> QED BY <2>1, <2>2
<1>9. l \in k + 1 .. n + m /\ c[l].op = "cursor"
  BY <1>2, <1>5
<1>10. PromptsAt(c, k)
  BY <1>2, <1>6, <1>7, <1>8, <1>9 DEF PromptsAt
<1> QED BY <1>2, <1>6, <1>10 DEF Prompting, Prompts, c

LEMMA DoFacts ==
  /\ \A name : Do(name).op = name
  /\ \A name \in {"acquire", "release", "cursor", "repaint", "iret", "idt"} :
       Quiet(Do(name)) /\ Plain(Do(name)) /\ Do(name) \in Ops
  /\ \A name \in {"backspace", "reset", "sti", "halt"} : Plain(Do(name)) /\ Do(name) \in Ops
  /\ \A c : Plain([op |-> "put", char |-> c])
  /\ \A k : Plain([op |-> "paint", color |-> k])
  BY DoIsOp DEF Do, Quiet, Plain

LEMMA HarmlessPuts ==
  ASSUME NEW s \in Seq(Chars)
  PROVE  Harmless(Puts(s))
<1>1. Puts(s) \in Seq(Ops)
  BY PutsIsOps
<1>2. ASSUME NEW k \in 1 .. Len(Puts(s)) PROVE Plain(Puts(s)[k])
  <2>1. Puts(s)[k] = [op |-> "put", char |-> s[k]]
    BY DEF Puts
  <2> QED BY <2>1, DoFacts
<1> QED BY <1>1, <1>2 DEF Harmless

LEMMA HarmlessDo ==
  ASSUME NEW name \in {"acquire", "release", "cursor", "repaint", "reset", "sti", "halt"}
  PROVE  Harmless(<<Do(name)>>)
<1>1. Plain(Do(name)) /\ Do(name) \in Ops
  BY DoFacts
<1> QED BY <1>1 DEF Harmless

LEMMA HarmlessWrites ==
  ASSUME NEW s \in Seq(Chars)
  PROVE  /\ Harmless(terminal_write(s))
         /\ \A k \in Colors : Harmless(terminal_write_colored(s, k))
<1>1. Harmless(terminal_write(s))
  <2>1. Harmless(Puts(s) \o <<Do("cursor")>>)
    BY HarmlessPuts, HarmlessDo, HarmlessConcat
  <2>2. Harmless(<<Do("acquire")>> \o (Puts(s) \o <<Do("cursor")>>) \o <<Do("release")>>)
    BY <2>1, HarmlessDo, HarmlessConcat
  <2> QED BY <2>2 DEF terminal_write, Locked
<1>2. ASSUME NEW k \in Colors PROVE Harmless(terminal_write_colored(s, k))
  <2> DEFINE paint == <<[op |-> "paint", color |-> k]>>
             tail == <<Do("cursor"), Do("repaint")>>
  <2>1. Harmless(paint)
    <3>1. [op |-> "paint", color |-> k] \in Ops
      BY DEF Ops, TerminalOps
    <3> QED BY <3>1, DoFacts DEF Harmless
  <2>2. Harmless(tail)
    <3>1. tail = <<Do("cursor")>> \o <<Do("repaint")>>
      OBVIOUS
    <3> QED BY <3>1, HarmlessDo, HarmlessConcat
  <2> HIDE DEF paint, tail
  <2>3. Harmless(paint \o Puts(s) \o tail)
    BY <2>1, <2>2, HarmlessPuts, HarmlessConcat
  <2>4. Harmless(<<Do("acquire")>> \o (paint \o Puts(s) \o tail) \o <<Do("release")>>)
    BY <2>3, HarmlessDo, HarmlessConcat
  <2> QED BY <2>4 DEF terminal_write_colored, Locked, paint, tail
<1> QED BY <1>1, <1>2

(* The last character is a prompt, and the cursor follows. *)
LEMMA PromptingPuts ==
  ASSUME NEW s \in Seq(Chars), s # <<>>, s[Len(s)] = Prompt,
         NEW t \in Seq(Ops), AllQuiet(t), Moves(t)
  PROVE  Prompting(Puts(s) \o t)
<1> DEFINE u == Puts(s)
           n == Len(s)
           m == Len(t)
           c == u \o t
<1>1. /\ u \in Seq(Ops) /\ Len(u) = n /\ n \in Nat /\ n >= 1
      /\ \A j \in 1 .. n : u[j] = [op |-> "put", char |-> s[j]]
  BY PutsIsOps DEF Puts
<1> HIDE DEF u
<1>2. /\ c \in Seq(Ops) /\ m \in Nat /\ Len(c) = n + m
      /\ \A j \in 1 .. n : c[j] = u[j]
      /\ \A j \in 1 .. m : c[n + j] = t[j]
  <2>1. /\ c \in Seq(Ops) /\ Len(t) \in Nat /\ Len(c) = Len(u) + Len(t)
        /\ \A j \in 1 .. Len(u) : c[j] = u[j]
        /\ \A j \in 1 .. Len(t) : c[Len(u) + j] = t[j]
    BY <1>1, GlueFacts
  <2> QED BY <1>1, <2>1
<1>3. /\ \A j \in 1 .. m : Quiet(t[j])
      /\ \E l \in 1 .. m : t[l].op = "cursor"
  BY DEF AllQuiet, Moves
<1>4. s[n] = Prompt
  OBVIOUS
<1> HIDE DEF n, m, c
<1>5. n \in 1 .. Len(c) /\ c[n] = PutPrompt
  BY <1>1, <1>2, <1>4 DEF PutPrompt
<1>6. ASSUME NEW j \in 1 .. n - 1 PROVE Plain(c[j])
  <2>1. c[j] = [op |-> "put", char |-> s[j]]
    BY <1>1, <1>2
  <2> QED BY <2>1, DoFacts
<1>7. ASSUME NEW j \in n + 1 .. n + m PROVE Quiet(c[j])
  <2>1. j - n \in 1 .. m /\ n + (j - n) = j
    BY <1>1, <1>2
  <2> QED BY <1>2, <1>3, <2>1
<1>8. PICK l \in 1 .. m : t[l].op = "cursor"
  BY <1>3
<1>9. n + l \in n + 1 .. n + m /\ c[n + l].op = "cursor"
  BY <1>1, <1>2, <1>8
<1>10. PromptsAt(c, n)
  BY <1>2, <1>5, <1>6, <1>7, <1>9 DEF PromptsAt
<1> QED BY <1>2, <1>5, <1>10 DEF Prompting, Prompts, c, u

LEMMA PromptingWrites ==
  ASSUME NEW s \in Seq(Chars), s # <<>>, s[Len(s)] = Prompt
  PROVE  /\ Prompting(terminal_write(s))
         /\ \A k \in Colors : Prompting(terminal_write_colored(s, k))
<1>1. /\ <<Do("cursor")>> \in Seq(Ops) /\ AllQuiet(<<Do("cursor")>>) /\ Moves(<<Do("cursor")>>)
      /\ <<Do("release")>> \in Seq(Ops) /\ AllQuiet(<<Do("release")>>)
  BY DoFacts DEF AllQuiet, Moves
<1>2. /\ <<Do("cursor"), Do("repaint")>> \in Seq(Ops)
      /\ AllQuiet(<<Do("cursor"), Do("repaint")>>) /\ Moves(<<Do("cursor"), Do("repaint")>>)
  BY DoFacts DEF AllQuiet, Moves
<1>3. Prompting(terminal_write(s))
  <2>1. Prompting(Puts(s) \o <<Do("cursor")>>)
    BY <1>1, PromptingPuts
  <2>2. Prompting(<<Do("acquire")>> \o (Puts(s) \o <<Do("cursor")>>))
    BY <2>1, HarmlessDo, PromptingAfter
  <2>3. Prompting(<<Do("acquire")>> \o (Puts(s) \o <<Do("cursor")>>) \o <<Do("release")>>)
    BY <1>1, <2>2, PromptingBefore
  <2> QED BY <2>3 DEF terminal_write, Locked
<1>4. ASSUME NEW k \in Colors PROVE Prompting(terminal_write_colored(s, k))
  <2> DEFINE paint == <<[op |-> "paint", color |-> k]>>
             tail == <<Do("cursor"), Do("repaint")>>
  <2>1. Harmless(paint)
    <3>1. [op |-> "paint", color |-> k] \in Ops
      BY DEF Ops, TerminalOps
    <3> QED BY <3>1, DoFacts DEF Harmless
  <2>2. tail \in Seq(Ops) /\ AllQuiet(tail) /\ Moves(tail)
    BY <1>2
  <2> HIDE DEF paint, tail
  <2>3. Prompting(Puts(s) \o tail)
    BY <2>2, PromptingPuts
  <2>4. paint \o (Puts(s) \o tail) = paint \o Puts(s) \o tail
    <3>1. paint \in Seq(Ops) /\ Puts(s) \in Seq(Ops)
      BY <2>1, PutsIsOps DEF Harmless
    <3>2. ASSUME NEW t \in Seq(Ops), NEW u \in Seq(Ops), NEW v \in Seq(Ops)
          PROVE  t \o (u \o v) = t \o u \o v
      BY ConcatAssociative, SMTT(30)
    <3> QED BY <2>2, <3>1, <3>2, Zenon
  <2>5. Prompting(paint \o Puts(s) \o tail)
    BY <2>1, <2>3, <2>4, PromptingAfter
  <2>6. Prompting(<<Do("acquire")>> \o (paint \o Puts(s) \o tail))
    BY <2>5, HarmlessDo, PromptingAfter
  <2>7. Prompting(<<Do("acquire")>> \o (paint \o Puts(s) \o tail) \o <<Do("release")>>)
    BY <1>1, <2>6, PromptingBefore
  <2> QED BY <2>7 DEF terminal_write_colored, Locked, paint, tail
<1> QED BY <1>3, <1>4

LEMMA CommandsPrompt ==
  /\ Prompting(terminal_write(<<Prompt>>))
  /\ Prompting(Say \o EndWith(<<>>))
  /\ Prompting(shell_initialize)
  /\ Prompting(terminal_write(<<Text, Newline, Prompt>>))
  /\ Prompting(terminal_write(<<Text, Newline, Newline, Prompt>>))
  /\ Prompting(terminal_write_colored(<<Text, Newline, Newline, Prompt>>, Red))
  /\ \A s \in Seq(Chars) : Prompting(terminal_write(s) \o EndWith(<<>>))
  /\ \A failures \in BOOLEAN : Prompting(TestOutput(failures))
<1>1. /\ Prompting(terminal_write(<<Prompt>>))
      /\ Prompting(terminal_write(<<Text, Newline, Prompt>>))
      /\ Prompting(terminal_write(<<Text, Newline, Newline, Prompt>>))
      /\ Prompting(terminal_write_colored(<<Text, Newline, Newline, Prompt>>, Red))
  <2>1. /\ <<Prompt>> # <<>> /\ <<Prompt>>[Len(<<Prompt>>)] = Prompt
        /\ <<Text, Newline, Prompt>> # <<>>
        /\ <<Text, Newline, Prompt>>[Len(<<Text, Newline, Prompt>>)] = Prompt
        /\ <<Text, Newline, Newline, Prompt>> # <<>>
        /\ <<Text, Newline, Newline, Prompt>>[Len(<<Text, Newline, Newline, Prompt>>)]
             = Prompt
    OBVIOUS
  <2> QED BY <2>1, TextsAreChars, CharsAndColors, PromptingWrites
<1>2. Prompting(EndWith(<<>>))
  <2>1. <<Newline>> \o <<>> \o <<Prompt>> = <<Newline, Prompt>>
    <3>1. <<Newline>> \o <<>> = <<Newline>>
      OBVIOUS
    <3>2. <<Newline>> \o <<Prompt>> = <<Newline, Prompt>>
      BY CharsAndColors, OneAndOne
    <3> QED BY <3>1, <3>2
  <2>2. /\ <<Newline, Prompt>> \in Seq(Chars) /\ <<Newline, Prompt>> # <<>>
        /\ <<Newline, Prompt>>[Len(<<Newline, Prompt>>)] = Prompt
    BY CharsAndColors
  <2> QED BY <2>1, <2>2, PromptingWrites DEF EndWith
<1>3. Harmless(Say)
  BY TextsAreChars, HarmlessWrites DEF Say
<1>4. Prompting(shell_initialize)
  BY <1>1, HarmlessDo, PromptingAfter DEF shell_initialize
<1>5. ASSUME NEW s \in Seq(Chars) PROVE Prompting(terminal_write(s) \o EndWith(<<>>))
  BY <1>2, HarmlessWrites, PromptingAfter
<1>6. ASSUME NEW failures \in BOOLEAN PROVE Prompting(TestOutput(failures))
  <2> DEFINE lines == IF failures THEN terminal_write_colored(<<Text, Newline>>, Red)
                      ELSE <<>>
             verdict == terminal_write_colored(<<Text, Newline>>,
                                               IF failures THEN Red ELSE Green)
  <2>1. /\ Harmless(terminal_write_colored(<<Text, Newline>>, Red))
        /\ Harmless(terminal_write_colored(<<Text, Newline>>, Green))
    BY TextsAreChars, CharsAndColors, HarmlessWrites
  <2>2. Harmless(<<>>)
    BY DEF Harmless
  <2>3. Harmless(lines) /\ Harmless(verdict)
    <3>1. CASE failures
      BY <2>1, <3>1
    <3>2. CASE ~failures
      BY <2>1, <2>2, <3>2
    <3> QED BY <3>1, <3>2
  <2>4. Harmless(terminal_write(<<Newline>>)) /\ Harmless(<<Do("sti")>>)
    BY TextsAreChars, HarmlessWrites, HarmlessDo
  <2> HIDE DEF lines, verdict
  <2>5. Harmless(Say \o <<Do("sti")>> \o lines)
    BY <1>3, <2>3, <2>4, HarmlessConcat
  <2>6. Harmless(Say \o <<Do("sti")>> \o lines \o terminal_write(<<Newline>>) \o verdict)
    BY <2>3, <2>4, <2>5, HarmlessConcat
  <2>7. Prompting(Say \o <<Do("sti")>> \o lines \o terminal_write(<<Newline>>) \o verdict
                    \o EndWith(<<>>))
    BY <1>2, <2>6, PromptingAfter
  <2> QED BY <2>7 DEF TestOutput, lines, verdict
<1> QED BY <1>1, <1>2, <1>3, <1>4, <1>5, <1>6, PromptingAfter

-----------------------------------------------------------------------------
(* Line, step by step: keys and commands *)

LEMMA CharacterCall ==
  ASSUME NEW c \in Chars
  PROVE  /\ terminal_putchar(c) \in Seq(Ops) /\ Len(terminal_putchar(c)) = 4
         /\ terminal_putchar(c)[1] = Do("acquire")
         /\ terminal_putchar(c)[2] = [op |-> "put", char |-> c]
         /\ terminal_putchar(c)[3] = Do("cursor")
         /\ terminal_putchar(c)[4] = Do("release")
<1> DEFINE put == [op |-> "put", char |-> c]
<1>1. Puts(<<c>>) = <<put>>
  BY DEF Puts
<1>2. put \in Ops /\ Do("acquire") \in Ops /\ Do("cursor") \in Ops /\ Do("release") \in Ops
  BY DoFacts DEF Ops, TerminalOps
<1> HIDE DEF put
<1>3. terminal_putchar(c) = <<Do("acquire"), put, Do("cursor"), Do("release")>>
  <2>1. terminal_putchar(c)
          = <<Do("acquire")>> \o (<<put>> \o <<Do("cursor")>>) \o <<Do("release")>>
    BY <1>1 DEF terminal_putchar, terminal_write, Locked
  <2>2. <<put>> \o <<Do("cursor")>> = <<put, Do("cursor")>>
    BY <1>2, OneAndOne, Zenon
  <2>3. <<Do("acquire")>> \o <<put, Do("cursor")>> = <<Do("acquire"), put, Do("cursor")>>
    BY <1>2, OneAndTwo, Zenon
  <2>4. <<Do("acquire"), put, Do("cursor")>> \o <<Do("release")>>
          = <<Do("acquire"), put, Do("cursor"), Do("release")>>
    <3>1. PICK a \in Ops, b \in Ops, d \in Ops :
            a = Do("acquire") /\ b = Do("cursor") /\ d = Do("release")
      BY <1>2, Zenon
    <3>2. <<a, put, b>> \o <<d>> = <<a, put, b, d>>
      BY <1>2, ThreeAndOne
    <3> QED BY <3>1, <3>2, Zenon
  <2> QED BY <2>1, <2>2, <2>3, <2>4, Zenon
<1> QED BY <1>2, <1>3 DEF put

LEMMA LineKey ==
  ASSUME TInv, Line, NEW k \in Keys, EraseCharacter(k) \/ EnterLine(k) \/ TypeCharacter(k)
  PROVE  Line'
<1>1. AtRest /\ TypeOK
  BY DEF EraseCharacter, EnterLine, TypeCharacter, Typed, Ready, TInv
<1>2. Shown(input) /\ cursor = Position
  BY <1>1, LineAtRest
<1>3. input \in Lines
  BY Zenon DEF TInv, TypeOK, Lines
<1>4. \A ops : Handle(ops) => /\ todo' = ops \o <<Do("iret")>>
                              /\ UNCHANGED <<video, row, column, cursor>>
  BY DEF Handle, terminalVars
<1>5. ASSUME UNCHANGED <<video, row, column, cursor>>
      PROVE  cursor' = Position' /\ \A t : Shown(t) => Shown(t)'
  BY <1>2, <1>5 DEF Shown, Position
<1>6. ASSUME UNCHANGED input, Handle(<<>>) PROVE Line'
  <2>1. todo' = <<Do("iret")>> /\ UNCHANGED <<video, row, column, cursor>>
    BY <1>4, <1>6
  <2>2. AllQuiet(todo')
    BY <2>1, DoFacts DEF AllQuiet
  <2>3. PICK t : t = input
    OBVIOUS
  <2>4. Shown(input)' /\ cursor' = Position'
    BY <1>2, <1>5, <1>6, <2>1, <2>3, ShownPrime
  <2> QED BY <2>2, <2>4 DEF Line
<1>7. CASE EraseCharacter(k)
  <2>1. CASE input = <<>>
    BY <1>6, <1>7, <2>1 DEF EraseCharacter
  <2>2. CASE input # <<>>
    <3>1. /\ input' = SubSeq(input, 1, Len(input) - 1)
          /\ todo' = terminal_backspace \o <<Do("iret")>>
          /\ UNCHANGED <<video, row, column, cursor>>
      BY <1>4, <1>7, <2>2 DEF EraseCharacter
    <3>2. PICK t \in Lines : t = input
      BY <1>3
    <3>3. PICK c \in Chars \ {Newline} : c = t[Len(t)]
      BY <2>2, <3>2 DEF Lines
    <3>4. Append(input', c) = t
      BY <2>2, <3>1, <3>2, <3>3 DEF Lines
    <3>5. Shown(Append(input, c))'
      <4>1. Shown(t)'
        BY <1>2, <1>5, <3>1, <3>2
      <4> QED BY <3>4, <4>1, ShownPrime
    <3>6. todo' = <<Do("acquire"), Do("backspace"), Do("release"), Do("iret")>>
      <4>1. todo' = <<Do("acquire")>> \o <<Do("backspace")>> \o <<Do("release")>>
                      \o <<Do("iret")>>
        BY <3>1 DEF terminal_backspace, Locked
      <4>2. /\ Do("acquire") \in Ops /\ Do("backspace") \in Ops
            /\ Do("release") \in Ops /\ Do("iret") \in Ops
        BY DoIsOp
      <4>3. <<Do("acquire")>> \o <<Do("backspace")>> = <<Do("acquire"), Do("backspace")>>
        BY <4>2, OneAndOne, Zenon
      <4>4. <<Do("acquire"), Do("backspace")>> \o <<Do("release")>>
              = <<Do("acquire"), Do("backspace"), Do("release")>>
        BY <4>2, TwoAndOne, Zenon
      <4>5. <<Do("acquire"), Do("backspace"), Do("release")>> \o <<Do("iret")>>
              = <<Do("acquire"), Do("backspace"), Do("release"), Do("iret")>>
        <5>1. PICK a \in Ops, b \in Ops, e \in Ops, d \in Ops :
                /\ a = Do("acquire") /\ b = Do("backspace")
                /\ e = Do("release") /\ d = Do("iret")
          BY <4>2, Zenon
        <5>2. <<a, b, e>> \o <<d>> = <<a, b, e, d>>
          BY ThreeAndOne
        <5> QED BY <5>1, <5>2, Zenon
      <4> QED BY <4>1, <4>3, <4>4, <4>5, Zenon
    <3>7. 2 \in 1 .. Len(todo') /\ todo'[2].op = "backspace" /\ Only(todo', 2)
      BY <3>6, DoFacts DEF Only
    <3>8. Erases(todo, 2)'
      BY <3>5, <3>7 DEF Erases
    <3> QED BY <3>7, <3>8 DEF Line
  <2> QED BY <2>1, <2>2
<1>8. CASE EnterLine(k)
  <2>1. todo' = terminal_putchar(Newline) \o <<Do("execute")>> \o <<Do("iret")>>
    BY <1>4, <1>8 DEF EnterLine
  <2>2. PICK s : s = terminal_putchar(Newline)
    OBVIOUS
  <2>7. /\ s \in Seq(Ops) /\ Len(s) = 4
        /\ s[1] = Do("acquire") /\ s[2] = [op |-> "put", char |-> Newline]
        /\ s[3] = Do("cursor") /\ s[4] = Do("release")
    <3>1. Newline \in Chars
      BY CharsAndColors
    <3> QED BY <2>2, <3>1, CharacterCall, Zenon
  <2>8. Plain(s[1]) /\ Plain(s[2]) /\ Plain(s[3]) /\ Plain(s[4])
    BY <2>7, DoFacts, Zenon
  <2>3. s \in Seq(Ops) /\ Len(s) = 4 /\ \A j \in 1 .. 4 : Plain(s[j])
    BY <2>7, <2>8
  <2>4. Do("execute") \in Ops /\ Do("iret") \in Ops
    BY DoIsOp
  <2>5. /\ Len(todo') = 6 /\ todo'[5] = Do("execute") /\ todo'[6] = Do("iret")
        /\ \A j \in 1 .. 4 : todo'[j] = s[j]
    <3>1. PICK a \in Ops, b \in Ops : a = Do("execute") /\ b = Do("iret")
      BY <2>4, Zenon
    <3>2. todo' = (s \o <<a>>) \o <<b>>
      BY <2>1, <2>2, <3>1, Zenon
    <3>3. /\ s \o <<a>> \in Seq(Ops) /\ Len(s \o <<a>>) = 5 /\ (s \o <<a>>)[5] = a
          /\ \A j \in 1 .. 4 : (s \o <<a>>)[j] = s[j]
      <4>1. /\ s \o <<a>> \in Seq(Ops) /\ Len(s \o <<a>>) = Len(s) + 1
            /\ (s \o <<a>>)[Len(s) + 1] = a
            /\ \A j \in 1 .. Len(s) : (s \o <<a>>)[j] = s[j]
        BY <2>3, OneMore, Zenon
      <4>2. Len(s) = 4 /\ 4 + 1 = 5
        BY <2>3
      <4> QED BY <4>1, <4>2, Zenon
    <3>4. PICK u \in Seq(Ops) : u = s \o <<a>>
      BY <3>3, Zenon
    <3>5. todo' = u \o <<b>> /\ Len(u) = 5 /\ u[5] = a /\ \A j \in 1 .. 4 : u[j] = s[j]
      BY <3>2, <3>3, <3>4, Zenon
    <3>6. /\ Len(u \o <<b>>) = 6 /\ (u \o <<b>>)[6] = b
          /\ \A j \in 1 .. 5 : (u \o <<b>>)[j] = u[j]
      <4>1. /\ Len(u \o <<b>>) = Len(u) + 1 /\ (u \o <<b>>)[Len(u) + 1] = b
            /\ \A j \in 1 .. Len(u) : (u \o <<b>>)[j] = u[j]
        BY OneMore, Zenon
      <4>2. Len(u) = 5 /\ 5 + 1 = 6
        BY <3>5
      <4> QED BY <4>1, <4>2, Zenon
    <3>7. Len(todo') = 6 /\ todo'[6] = b /\ \A j \in 1 .. 5 : todo'[j] = u[j]
      BY <3>5, <3>6, Zenon
    <3> QED BY <3>1, <3>5, <3>7
  <2>6. Enters(todo')
    BY <2>3, <2>5 DEF Enters
  <2> QED BY <2>6 DEF Line
<1>9. CASE TypeCharacter(k)
  <2>1. Character(k) \in Chars \ {Newline}
    BY <1>1, <1>9, CharacterIsTyped DEF TypeCharacter, Typed
  <2>2. PICK c \in Chars \ {Newline} : c = Character(k)
    BY <2>1
  <2>3. CASE Len(input) < INPUT_SIZE - 1
    <3>1. input' = Append(input, c) /\ Handle(terminal_putchar(c))
      BY <1>9, <2>2, <2>3 DEF TypeCharacter
    <3>2. /\ todo' = terminal_putchar(c) \o <<Do("iret")>>
          /\ UNCHANGED <<video, row, column, cursor>>
      BY <1>4, <3>1
    <3>3. PICK s : s = terminal_putchar(c)
      OBVIOUS
    <3>4. /\ s \in Seq(Ops) /\ Len(s) = 4
          /\ s[1] = Do("acquire") /\ s[2] = [op |-> "put", char |-> c]
          /\ s[3] = Do("cursor") /\ s[4] = Do("release")
      BY <3>3, CharacterCall
    <3>5. /\ Len(todo') = 5 /\ todo'[5] = Do("iret")
          /\ \A j \in 1 .. 4 : todo'[j] = s[j]
      <4>1. PICK b \in Ops : b = Do("iret")
        BY DoIsOp
      <4>2. /\ Len(s \o <<b>>) = 5 /\ (s \o <<b>>)[5] = b
            /\ \A j \in 1 .. 4 : (s \o <<b>>)[j] = s[j]
        <5>1. /\ Len(s \o <<b>>) = Len(s) + 1 /\ (s \o <<b>>)[Len(s) + 1] = b
              /\ \A j \in 1 .. Len(s) : (s \o <<b>>)[j] = s[j]
          BY <3>4, OneMore, Zenon
        <5>2. Len(s) = 4 /\ 4 + 1 = 5
          BY <3>4
        <5> QED BY <5>1, <5>2, Zenon
      <4>3. todo' = s \o <<b>>
        BY <3>2, <3>3, <4>1, Zenon
      <4> QED BY <4>1, <4>2, <4>3, Zenon
    <3>6. /\ 2 \in 1 .. Len(todo') /\ Only(todo', 2)
          /\ 3 \in 2 + 1 .. Len(todo') /\ todo'[3].op = "cursor"
      BY <3>4, <3>5, DoFacts DEF Only
    <3>7. PICK t \in Lines : t = input
      BY <1>3
    <3>8. Shown(t)'
      BY <1>2, <1>5, <3>2, <3>7
    <3>9. Types(todo, 2)'
      BY <3>1, <3>4, <3>5, <3>6, <3>7, <3>8 DEF Types
    <3> QED BY <3>6, <3>9 DEF Line
  <2>4. CASE ~(Len(input) < INPUT_SIZE - 1)
    BY <1>6, <1>9, <2>4 DEF TypeCharacter
  <2> QED BY <2>3, <2>4
<1> QED BY <1>7, <1>8, <1>9

LEMMA LineCommand ==
  ASSUME TInv, Line, Execute
  PROVE  Line'
<1>1. ASSUME NEW line, NEW ops \in Seq(Ops), Run(line, ops)
      PROVE  todo' = ops \o <<Do("iret")>> /\ input' = <<>>
  <2>1. todo # <<>> /\ Head(todo).op = "execute" /\ todo' = ops \o Tail(todo) /\ input' = <<>>
    BY <1>1 DEF Run
  <2>2. todo = <<Do("execute"), Do("iret")>>
    BY <2>1, LineStarts
  <2> QED BY <2>1, <2>2
<1>2. <<Do("iret")>> \in Seq(Ops) /\ AllQuiet(<<Do("iret")>>)
  BY DoFacts DEF AllQuiet
<1>3. ASSUME NEW line, NEW ops, Prompting(ops), Run(line, ops) PROVE Line'
  <2>1. ops \in Seq(Ops)
    BY <1>3 DEF Prompting
  <2>2. todo' = ops \o <<Do("iret")>> /\ input' = <<>>
    BY <1>1, <1>3, <2>1
  <2>3. Prompts(todo')
    BY <1>2, <1>3, <2>2, PromptingBefore DEF Prompting
  <2> QED BY <2>2, <2>3 DEF Line
<1>4. CASE EmptyLine
  BY <1>3, <1>4, CommandsPrompt DEF EmptyLine
<1>5. CASE Help
  BY <1>3, <1>5, CommandsPrompt DEF Help
<1>6. CASE Clear
  BY <1>3, <1>6, CommandsPrompt DEF Clear
<1>7. CASE Info
  BY <1>3, <1>7, CommandsPrompt DEF Info
<1>8. CASE Uptime
  BY <1>3, <1>8, CommandsPrompt DEF Uptime
<1>9. CASE Test
  BY <1>3, <1>9, CommandsPrompt DEF Test
<1>10. CASE Unknown
  BY <1>3, <1>10, CommandsPrompt DEF Unknown
<1>11. CASE Echo
  <2> DEFINE rest == SubSeq(input, Len(EchoPrefix) + 1, Len(input))
  <2>1. input \in Seq(Chars)
    <3>1. input \in Seq(Chars \ {Newline})
      BY Zenon DEF TInv, TypeOK
    <3> QED BY <3>1
  <2>2. Len(EchoPrefix) \in Nat /\ Len(input) >= Len(EchoPrefix)
    BY <1>11, ShellAssumption DEF Echo, IsEcho
  <2>3. rest \in Seq(Chars)
    BY <2>1, <2>2
  <2>4. Run(input, terminal_write(rest) \o EndWith(<<>>))
    BY <1>11, Zenon DEF Echo
  <2> HIDE DEF rest
  <2>5. PICK line, ops : Prompting(ops) /\ Run(line, ops)
    BY <2>3, <2>4, CommandsPrompt
  <2> QED BY <1>3, <2>5
<1>12. CASE Shutdown
  <2>1. Run(CommandLine["shutdown"], Say \o <<Do("halt")>>)
    BY <1>12 DEF Shutdown
  <2>2. todo' = Say \o <<Do("halt")>> \o <<Do("iret")>>
    BY <1>1, <2>1, CommandsAreOps
  <2>3. Harmless(Say \o <<Do("halt")>> \o <<Do("iret")>>)
    <3>1. Harmless(Say) /\ Harmless(<<Do("halt")>>)
      BY TextsAreChars, HarmlessWrites, HarmlessDo DEF Say
    <3>2. Harmless(<<Do("iret")>>)
      BY <1>2, DoFacts DEF Harmless
    <3> QED BY <3>1, <3>2, HarmlessConcat
  <2>4. PICK s \in Seq(Ops) : s = Say
    BY OutputIsOps
  <2>5. Len(s) + 1 \in 1 .. Len(todo') /\ todo'[Len(s) + 1] = Do("halt")
    BY <1>2, <2>2, <2>4, DoFacts
  <2>6. Stops(todo')
    BY <2>2, <2>3, <2>5, DoFacts DEF Stops, Harmless
  <2> QED BY <2>6 DEF Line
<1>13. CASE GuiCommand
  <2>1. todo' = <<Do("gui")>> \o <<Do("iret")>> /\ input' = <<>>
    BY <1>1, <1>13, CommandsAreOps DEF GuiCommand
  <2>2. todo' = <<Do("gui"), Do("iret")>>
    <3>1. Do("gui") \in Ops /\ Do("iret") \in Ops
      BY DoIsOp
    <3>2. <<Do("gui")>> \o <<Do("iret")>> = <<Do("gui"), Do("iret")>>
      BY <3>1, OneAndOne, Zenon
    <3> QED BY <2>1, <3>2
  <2> QED BY <2>1, <2>2 DEF Line
<1>14. CASE GuiRefused
  <2>1. /\ todo # <<>> /\ Head(todo).op = "gui" /\ UNCHANGED input
        /\ todo' = terminal_write_colored(<<Text, Newline, Newline, Prompt>>, Red)
                     \o Tail(todo)
    BY <1>14 DEF GuiRefused, keyboardVars
  <2>2. input' = <<>> /\ Tail(todo) = <<Do("iret")>>
    <3>1. input = <<>> /\ todo = <<Do("gui"), Do("iret")>>
      BY <2>1, LineStarts
    <3>2. Tail(<<Do("gui"), Do("iret")>>) = <<Do("iret")>>
      OBVIOUS
    <3> QED BY <2>1, <3>1, <3>2, Zenon
  <2>3. Prompts(todo')
    BY <1>2, <2>1, <2>2, CommandsPrompt, PromptingBefore DEF Prompting
  <2> QED BY <2>2, <2>3 DEF Line
<1> QED BY <1>4, <1>5, <1>6, <1>7, <1>8, <1>9, <1>10, <1>11, <1>12, <1>13, <1>14, Zenon
        DEF Execute

LEMMA LineNext ==
  ASSUME TInv, LockInv, LineInv, [Next]_vars
  PROVE  LineInv'
<1> SUFFICES ASSUME Working', ~gui_active' PROVE Line'
  BY DEF LineInv
<1>1. ASSUME UNCHANGED gui_active, UNCHANGED trap \/ Working
      PROVE  Line
  <2>1. UNCHANGED trap => Working
    BY Zenon DEF Working
  <2> QED BY <1>1, <2>1 DEF LineInv
<1>2. CASE Keystroke
  <2>1. PICK k \in Keys : EraseCharacter(k) \/ EnterLine(k) \/ TypeCharacter(k) \/ GuiKey(k)
    BY <1>2 DEF Keystroke
  <2>2. ~GuiKey(k)
    BY DEF GuiKey, GuiHandleKey
  <2>3. UNCHANGED gui_active /\ UNCHANGED trap
    BY <2>1, <2>2, Zenon DEF EraseCharacter, EnterLine, TypeCharacter, Handle, desktopVars
  <2> QED BY <1>1, <2>1, <2>2, <2>3, LineKey
<1>3. CASE Modifier \/ UNCHANGED vars
  <2>1. UNCHANGED <<todo, video, row, column, cursor, input, gui_active, trap>>
    BY <1>3, Zenon DEF Modifier, PressShift, ReleaseShift, PressCapsLock, vars, handlerVars,
                       terminalVars, desktopVars, keyboardVars
  <2>2. Line
    BY <1>1, <2>1
  <2>3. \A t : Shown(t) => Shown(t)'
    BY <2>1 DEF Shown, Position
  <2>4. Shown(input) => Shown(input)'
    <3>1. PICK t : t = input
      OBVIOUS
    <3> QED BY <2>1, <2>3, <3>1, ShownPrime
  <2>5. ASSUME NEW k \in 1 .. Len(todo), Types(todo, k) PROVE Types(todo, k)'
    BY <2>1, <2>3, <2>5, Zenon DEF Types
  <2>6. ASSUME NEW k \in 1 .. Len(todo), Erases(todo, k) PROVE Erases(todo, k)'
    <3>1. PICK c \in Chars : Shown(Append(input, c))
      BY <2>6 DEF Erases
    <3>2. PICK t : t = Append(input, c)
      OBVIOUS
    <3>3. Shown(Append(input, c))'
      BY <2>1, <2>3, <3>1, <3>2, ShownPrime
    <3> QED BY <2>1, <2>6, <3>3 DEF Erases
  <2>7. cursor = Position => cursor' = Position'
    BY <2>1 DEF Position
  <2> QED BY <2>1, <2>2, <2>4, <2>5, <2>6, <2>7, Zenon DEF Line
<1>4. CASE Execute
  <2>1. UNCHANGED gui_active /\ UNCHANGED trap
    BY <1>4, Zenon DEF Execute, EmptyLine, Help, Clear, Info, Shutdown, Uptime, Test,
                       GuiCommand, Echo, Unknown, Run, GuiRefused, desktopVars
  <2> QED BY <1>1, <1>4, <2>1, LineCommand
<1>5. CASE TerminalStep /\ UNCHANGED <<desktopVars, keyboardVars, trap>>
  <2>1. UNCHANGED <<gui_active, trap, input>>
    BY <1>5, Zenon DEF desktopVars, keyboardVars
  <2>2. PICK name \in {"acquire", "release", "put", "backspace", "cursor", "color",
                       "paint", "repaint", "reset"} : Perform(name)
    BY <1>5, Zenon DEF TerminalStep, Acquire, Release, Put, Backspace, UpdateCursor, SetColor,
                       Paint, Repaint, Reset
  <2>3. todo # <<>> /\ todo' = Tail(todo) /\ Head(todo).op = name
    BY <2>2 DEF Perform
  <2>4. Plain(Head(todo)) /\ Head(todo).op # "halt"
    BY <2>2, <2>3 DEF Plain
  <2>5. /\ name = "put" => Put
        /\ name = "backspace" => Backspace
        /\ Quiet(Head(todo)) => Acquire \/ Release \/ UpdateCursor \/ SetColor \/ Paint \/ Repaint
    BY <1>5, <2>3 DEF TerminalStep, Acquire, Release, Put, Backspace, UpdateCursor, SetColor,
                      Paint, Repaint, Reset, Perform, Quiet
  <2>6. /\ Acquire \/ Release \/ SetColor \/ Paint \/ Repaint
             => UNCHANGED <<video, row, column, cursor>> /\ Head(todo).op # "cursor"
        /\ UpdateCursor => /\ UNCHANGED <<video, row, column>> /\ cursor' = Position
                           /\ Head(todo).op = "cursor"
    BY DEF Acquire, Release, UpdateCursor, SetColor, Paint, Repaint, Perform
  <2> QED BY <1>1, <2>1, <2>3, <2>4, <2>5, <2>6, LinePops
<1>6. CASE \/ DesktopStep /\ UNCHANGED <<terminalVars, keyboardVars, trap>>
           \/ Returns \/ InterruptsInitialize
  <2>1. PICK name \in {"desktop", "window", "present", "iret", "sti", "idt"} : Perform(name)
    BY <1>6, Zenon DEF DesktopStep, FillDesktop, DrawOneWindow, Present, Returns, Iret, Sti,
                       InterruptsInitialize
  <2>2. todo # <<>> /\ todo' = Tail(todo) /\ Head(todo).op = name
    BY <2>1 DEF Perform
  <2>3. Working
    BY <2>2, FreeBefore, Zenon DEF Working
  <2>4. UNCHANGED <<gui_active, input>>
    <3>1. CASE DesktopStep /\ UNCHANGED <<terminalVars, keyboardVars, trap>>
      BY <3>1, Zenon DEF DesktopStep, FillDesktop, DrawOneWindow, Present, keyboardVars
    <3>2. CASE Returns \/ InterruptsInitialize
      BY <3>2, Zenon DEF Returns, InterruptsInitialize, desktopVars, keyboardVars
    <3> QED BY <1>6, <3>1, <3>2
  <2>5. UNCHANGED <<video, row, column, cursor>>
    BY <1>6, Zenon DEF Returns, InterruptsInitialize, terminalVars
  <2>6. Plain(Head(todo)) /\ Head(todo).op \notin {"halt", "cursor", "put", "backspace"}
    BY <2>1, <2>2 DEF Plain
  <2>7. Line
    BY <1>1, <2>3, <2>4
  <2> QED BY <2>2, <2>4, <2>5, <2>6, <2>7, LinePops
<1>7. CASE Gui
  BY <1>7 DEF Gui
<1>8. CASE Fault \/ PageFault
  <2>1. trap' = "locked" \/ trap' = "unlocked"
    BY <1>8, Zenon DEF Fault, PageFault, Raise
  <2>2. ~Working'
    BY <2>1, Zenon DEF Working
  <2> QED BY <2>2
<1> QED BY <1>2, <1>3, <1>4, <1>5, <1>6, <1>7, <1>8, Zenon DEF Next

LEMMA LineHolds == Spec => [](TInv /\ LockInv /\ LineInv)
<1>1. Init => LineInv
  <2> SUFFICES ASSUME Init PROVE Line
    BY DEF LineInv
  <2>1. todo = shell_initialize \o <<Do("idt")>> /\ input = <<>>
    BY Zenon DEF Init
  <2>2. <<Do("idt")>> \in Seq(Ops) /\ AllQuiet(<<Do("idt")>>)
    BY DoFacts DEF AllQuiet
  <2>3. Prompts(todo)
    <3>1. Prompting(shell_initialize)
      BY CommandsPrompt
    <3>2. Prompting(shell_initialize \o <<Do("idt")>>)
      BY <2>2, <3>1, PromptingBefore
    <3> QED BY <2>1, <3>2 DEF Prompting
  <2> QED BY <2>1, <2>3 DEF Line
<1>2. (TInv /\ LockInv) /\ LineInv /\ [Next]_vars => LineInv'
  BY LineNext
<1> QED BY <1>1, <1>2, LockHolds, PTL DEF Spec

(* Whatever is typed, erased, printed and scrolled on a screen of any size, *)
(* between keystrokes the prompt and the line that Enter would execute are  *)
(* on the screen right before the cursor.                                   *)
THEOREM LineIsOnScreen == Spec => []LineOnScreen
<1>1. TInv /\ LockInv /\ LineInv => LineOnScreen
  <2> SUFFICES ASSUME TInv, LineInv, AtRest, trap = "none", ~gui_active
               PROVE  Shown(input) /\ cursor = Position
    BY DEF LineOnScreen, Shown
  <2>1. Line
    BY Zenon DEF LineInv, Working
  <2> QED BY <2>1, LineAtRest
<1> QED BY <1>1, LineHolds, PTL


-----------------------------------------------------------------------------
(* The display.  The pixels in the notes' line to the right of their window *)
Beyond(p) == LET g == Geometry["notes"] IN
  /\ p[1] >= ContentX(g) + ContentWidth(g)
  /\ p[2] \in ContentY(g) + TextY .. ContentY(g) + TextY + FONT_GLYPH_SIZE - 1

(* b shows window w with the focus at f and the notes t; b shows the        *)
(* desktop around the windows; b shows all of it; b shows nothing yet.      *)
Fine(b, w, f, t) ==
  \A p \in DOMAIN b : ~Beyond(p) /\ Covers(w, p) => b[p] = WindowPart(w, f, t, p)
Around(b) ==
  \A p \in DOMAIN b : ~Beyond(p) /\ (\A w \in Windows : ~Covers(w, p)) => b[p] = <<"desktop">>
Whole(b, f, t) == Around(b) /\ \A w \in Windows : Fine(b, w, f, t)
Dark(b) == \A p \in DOMAIN b : b[p] = <<"unknown">>

Highlights(f, w) == f > 0 /\ InOrder[f] = w

LEMMA OrderFacts ==
  /\ Len(InOrder) = 3
  /\ InOrder[1] = "notes" /\ InOrder[2] = "welcome" /\ InOrder[3] = "info"
  /\ Windows = {InOrder[1], InOrder[2], InOrder[3]}
  /\ \A f, e \in 1 .. 3 : InOrder[f] = InOrder[e] => f = e
<1>1. /\ Len(InOrder) = 3
      /\ InOrder[1] = "notes" /\ InOrder[2] = "welcome" /\ InOrder[3] = "info"
  BY DEF InOrder
<1>2. \A f \in 1 .. 3 : f = 1 \/ f = 2 \/ f = 3
  OBVIOUS
<1>3. \A f, e \in 1 .. 3 : InOrder[f] = InOrder[e] => f = e
  BY <1>1, <1>2
<1> QED BY <1>1, <1>3 DEF Windows

LEMMA GeometryFacts ==
  ASSUME NEW w \in Windows
  PROVE  /\ Geometry[w].x \in Nat /\ Geometry[w].y \in Nat
         /\ Geometry[w].width \in Nat /\ Geometry[w].height \in Nat
         /\ Geometry[w].height >= TITLE_BAR_HEIGHT + 2
         /\ TITLE_BAR_HEIGHT \in Nat /\ TITLE_BAR_HEIGHT >= 1
         /\ FONT_GLYPH_SIZE \in Nat /\ FONT_GLYPH_SIZE >= 1
         /\ TextX \in Nat /\ TextY \in Nat
<1>1. Geometry[w] \in [x : Nat, y : Nat, width : Nat, height : Nat]
  BY DesktopAssumption
<1>2. /\ TITLE_BAR_HEIGHT \in Nat \ {0} /\ FONT_GLYPH_SIZE \in Nat \ {0}
      /\ TextX \in Nat /\ TextY \in Nat
  BY DesktopAssumption
<1>3. Geometry[w].height >= TITLE_BAR_HEIGHT + 2
  BY WindowsAssumption
<1> QED BY <1>1, <1>2, <1>3

(* No pixel belongs to two windows. *)
LEMMA CoveredOnce ==
  ASSUME NEW v \in Windows, NEW w \in Windows, v # w,
         NEW p, p[1] \in Int, p[2] \in Int, Covers(v, p)
  PROVE  ~Covers(w, p)
<1>1. \/ Geometry[v].x + Geometry[v].width <= Geometry[w].x
      \/ Geometry[w].x + Geometry[w].width <= Geometry[v].x
      \/ Geometry[v].y + Geometry[v].height <= Geometry[w].y
      \/ Geometry[w].y + Geometry[w].height <= Geometry[v].y
  BY WindowsAssumption
<1>2. /\ Geometry[v].x \in Nat /\ Geometry[v].y \in Nat
      /\ Geometry[v].width \in Nat /\ Geometry[v].height \in Nat
      /\ Geometry[w].x \in Nat /\ Geometry[w].y \in Nat
      /\ Geometry[w].width \in Nat /\ Geometry[w].height \in Nat
  BY GeometryFacts
<1>3. /\ p[1] \in Geometry[v].x .. Geometry[v].x + Geometry[v].width - 1
      /\ p[2] \in Geometry[v].y .. Geometry[v].y + Geometry[v].height - 1
  BY DEF Covers, Inside
<1>4. ~(/\ p[1] \in Geometry[w].x .. Geometry[w].x + Geometry[w].width - 1
        /\ p[2] \in Geometry[w].y .. Geometry[w].y + Geometry[w].height - 1)
  BY <1>1, <1>2, <1>3
<1> QED BY <1>4 DEF Covers, Inside

(* What one window shows depends on the focus by its own title alone, and   *)
(* on the notes if it is their window.                                      *)
LEMMA SamePart ==
  ASSUME NEW b, NEW w \in Windows, NEW f, NEW e, NEW t, NEW u, Fine(b, w, f, t),
         Highlights(f, w) <=> Highlights(e, w), w = "notes" => t = u
  PROVE  Fine(b, w, e, u)
<1>1. ASSUME NEW p PROVE WindowPart(w, f, t, p) = WindowPart(w, e, u, p)
  <2>1. TitleOf(w, f > 0 /\ InOrder[f] = w) = TitleOf(w, e > 0 /\ InOrder[e] = w)
    BY DEF TitleOf, Highlights
  <2>2. CASE w = "notes"
    <3>1. t = u
      BY <2>2
    <3> QED BY <2>1, <3>1, Zenon DEF WindowPart
  <2>3. CASE w # "notes"
    BY <2>1, <2>3 DEF WindowPart
  <2> QED BY <2>2, <2>3
<1> QED BY <1>1 DEF Fine

LEMMA WholePicture ==
  ASSUME NEW b, NEW f, NEW t, Whole(b, f, t), NEW p \in DOMAIN b, ~Beyond(p)
  PROVE  b[p] = Picture(f, t, p)
<1>1. CASE \E w \in Windows : Covers(w, p)
  <2> DEFINE w == CHOOSE v \in Windows : Covers(v, p)
  <2>1. w \in Windows /\ Covers(w, p)
    BY <1>1
  <2>2. Picture(f, t, p) = WindowPart(w, f, t, p)
    BY <1>1 DEF Picture
  <2> HIDE DEF w
  <2> QED BY <2>1, <2>2 DEF Whole, Fine
<1>2. CASE ~\E w \in Windows : Covers(w, p)
  BY <1>2 DEF Picture, Whole, Around
<1> QED BY <1>1, <1>2

(* One pixel after a window's frame and title have been drawn *)
LEMMA FramePixel ==
  ASSUME NEW b, NEW w \in Windows, NEW focused, NEW p \in DOMAIN b,
         p[1] \in Int, p[2] \in Int
  PROVE  LET g == Geometry[w]
             d == DrawWindow(b, w, focused)
         IN  /\ DOMAIN d = DOMAIN b
             /\ ~Covers(w, p) => d[p] = b[p]
             /\ Covers(w, p) =>
                  IF ~Inside(p, g.x + 1, g.y + 1, g.width - 2, g.height - 2)
                  THEN d[p] = <<"border">>
                  ELSE IF p[2] \in g.y + 1 .. g.y + TITLE_BAR_HEIGHT
                  THEN d[p] = TitleOf(w, focused)
                  ELSE d[p] = <<w>>
<1> DEFINE g == Geometry[w]
           filled == FillRect(b, g.x, g.y, g.width, g.height, <<w>>)
           framed == DrawRect(filled, g.x, g.y, g.width, g.height, <<"border">>)
           d == DrawWindow(b, w, focused)
           Outer == Inside(p, g.x, g.y, g.width, g.height)
           Inner == Inside(p, g.x + 1, g.y + 1, g.width - 2, g.height - 2)
           Title == Inside(p, g.x + 1, g.y + 1, g.width - 2, TITLE_BAR_HEIGHT)
<1>1. DOMAIN filled = DOMAIN b /\ filled[p] = IF Outer THEN <<w>> ELSE b[p]
  BY DEF FillRect
<1>2. /\ DOMAIN framed = DOMAIN b
      /\ framed[p] = IF Outer /\ ~Inner THEN <<"border">> ELSE filled[p]
  BY <1>1 DEF DrawRect
<1>3. /\ DOMAIN d = DOMAIN b
      /\ d[p] = IF Title THEN TitleOf(w, focused) ELSE framed[p]
  BY <1>2 DEF DrawWindow, FillRect
<1>4. /\ g.x \in Nat /\ g.y \in Nat /\ g.width \in Nat /\ g.height \in Nat
      /\ g.height >= TITLE_BAR_HEIGHT + 2 /\ TITLE_BAR_HEIGHT \in Nat
  BY GeometryFacts
<1>5. Covers(w, p) <=> Outer
  BY DEF Covers
<1>6. /\ Title <=> Inner /\ p[2] \in g.y + 1 .. g.y + TITLE_BAR_HEIGHT
      /\ Inner => Outer
  <2> HIDE DEF g
  <2> QED BY <1>4 DEF Inside
<1> HIDE DEF filled, framed, d, Outer, Inner, Title
<1>7. ~Covers(w, p) => d[p] = b[p]
  BY <1>1, <1>2, <1>3, <1>5, <1>6
<1>8. ASSUME Covers(w, p)
      PROVE  IF ~Inner THEN d[p] = <<"border">>
             ELSE IF p[2] \in g.y + 1 .. g.y + TITLE_BAR_HEIGHT
             THEN d[p] = TitleOf(w, focused) ELSE d[p] = <<w>>
  BY <1>1, <1>2, <1>3, <1>5, <1>6, <1>8
<1> QED BY <1>3, <1>7, <1>8 DEF d, Inner

(* One pixel after the notes have been drawn *)
LEMMA NotesPixel ==
  ASSUME NEW b, NEW p \in DOMAIN b
  PROVE  LET g == Geometry["notes"]
             d == NotesWindowDraw(b)
             x == ContentX(g) + TextX
             y == ContentY(g) + TextY
         IN  /\ DOMAIN d = DOMAIN b
             /\ d[p] = IF Inside(p, x, y, FONT_GLYPH_SIZE * Len(notes), FONT_GLYPH_SIZE)
                       THEN <<notes[(p[1] - x) \div FONT_GLYPH_SIZE + 1],
                              (p[1] - x) % FONT_GLYPH_SIZE, p[2] - y>>
                       ELSE IF Inside(p, ContentX(g), ContentY(g),
                                      ContentWidth(g), ContentHeight(g))
                       THEN <<"notes">> ELSE b[p]
<1> DEFINE g == Geometry["notes"]
           cleared == FillRect(b, ContentX(g), ContentY(g),
                               ContentWidth(g), ContentHeight(g), <<"notes">>)
<1>1. /\ DOMAIN cleared = DOMAIN b
      /\ cleared[p] = IF Inside(p, ContentX(g), ContentY(g), ContentWidth(g), ContentHeight(g))
                      THEN <<"notes">> ELSE b[p]
  BY DEF FillRect
<1>2. NotesWindowDraw(b) = DrawString(cleared, ContentX(g) + TextX, ContentY(g) + TextY, notes)
  BY DEF NotesWindowDraw
<1> HIDE DEF cleared
<1>3. DOMAIN NotesWindowDraw(b) = DOMAIN b
  BY <1>1, <1>2 DEF DrawString
<1>4. NotesWindowDraw(b)[p] =
        IF Inside(p, ContentX(g) + TextX, ContentY(g) + TextY,
                  FONT_GLYPH_SIZE * Len(notes), FONT_GLYPH_SIZE)
        THEN <<notes[(p[1] - (ContentX(g) + TextX)) \div FONT_GLYPH_SIZE + 1],
               (p[1] - (ContentX(g) + TextX)) % FONT_GLYPH_SIZE,
               p[2] - (ContentY(g) + TextY)>>
        ELSE cleared[p]
  BY <1>1, <1>2, Zenon DEF DrawString
<1> QED BY <1>1, <1>3, <1>4, Zenon

(* Where the areas of the Notes window lie: the text, of n pixels a line,   *)
(* inside the content but for what is beyond it, the content below the      *)
(* title, and one row between the two that both leave as it was filled.     *)
LEMMA AreasOfNotes ==
  ASSUME NEW gx \in Nat, NEW gy \in Nat, NEW gw \in Nat, NEW gh \in Nat,
         NEW tb \in Nat, NEW fs \in Nat, NEW n \in Nat, NEW tx \in Nat, NEW ty \in Nat,
         NEW p, p[1] \in Int, p[2] \in Int,
         gh >= tb + 2, ty + fs <= gh - tb - 3,
         ~(/\ p[1] >= gx + 1 + (gw - 2)
           /\ p[2] \in gy + tb + 2 + ty .. gy + tb + 2 + ty + fs - 1)
  PROVE  /\ Inside(p, gx + 1 + tx, gy + tb + 2 + ty, n, fs) =>
              /\ Inside(p, gx + 1, gy + 1, gw - 2, gh - 2)
              /\ ~(p[2] \in gy + 1 .. gy + tb)
         /\ Inside(p, gx + 1, gy + tb + 2, gw - 2, gh - tb - 3) =>
              /\ Inside(p, gx + 1, gy + 1, gw - 2, gh - 2)
              /\ ~(p[2] \in gy + 1 .. gy + tb)
         /\ Inside(p, gx + 1, gy + 1, gw - 2, gh - 2) => Inside(p, gx, gy, gw, gh)
<1>1. PICK a \in Int, c \in Int : a = p[1] /\ c = p[2]
  OBVIOUS
<1>2. ASSUME Inside(p, gx + 1 + tx, gy + tb + 2 + ty, n, fs)
      PROVE  /\ Inside(p, gx + 1, gy + 1, gw - 2, gh - 2)
             /\ ~(p[2] \in gy + 1 .. gy + tb)
  BY <1>1, <1>2 DEF Inside
<1>3. ASSUME Inside(p, gx + 1, gy + tb + 2, gw - 2, gh - tb - 3)
      PROVE  /\ Inside(p, gx + 1, gy + 1, gw - 2, gh - 2)
             /\ ~(p[2] \in gy + 1 .. gy + tb)
  BY <1>1, <1>3 DEF Inside
<1>4. ASSUME Inside(p, gx + 1, gy + 1, gw - 2, gh - 2)
      PROVE  Inside(p, gx, gy, gw, gh)
  BY <1>1, <1>4 DEF Inside
<1> QED BY <1>2, <1>3, <1>4

(* A window is drawn as the picture has it, and nothing else changes but    *)
(* to the right of the notes.                                               *)
LEMMA WindowDrawn ==
  ASSUME TInv, windows = InOrder, NEW b, NEW w \in Windows, NEW p \in DOMAIN b,
         p[1] \in Int, p[2] \in Int, ~Beyond(p)
  PROVE  LET d == OnDraw(DrawWindow(b, w, HasFocus(w)), w)
         IN  /\ DOMAIN d = DOMAIN b
             /\ d[p] = IF Covers(w, p) THEN WindowPart(w, focused_window, notes, p) ELSE b[p]
<1> DEFINE g == Geometry[w]
           e == DrawWindow(b, w, HasFocus(w))
           d == OnDraw(e, w)
           Inner == Inside(p, g.x + 1, g.y + 1, g.width - 2, g.height - 2)
           Title == p[2] \in g.y + 1 .. g.y + TITLE_BAR_HEIGHT
           x == ContentX(g) + TextX
           y == ContentY(g) + TextY
           Text1 == Inside(p, x, y, FONT_GLYPH_SIZE * Len(notes), FONT_GLYPH_SIZE)
           Text2 == Inside(p, x, y, Len(notes) * FONT_GLYPH_SIZE, FONT_GLYPH_SIZE)
           glyph == <<notes[(p[1] - x) \div FONT_GLYPH_SIZE + 1],
                      (p[1] - x) % FONT_GLYPH_SIZE, p[2] - y>>
           part == WindowPart(w, focused_window, notes, p)
<1>1. /\ DOMAIN e = DOMAIN b
      /\ ~Covers(w, p) => e[p] = b[p]
      /\ Covers(w, p) => IF ~Inner THEN e[p] = <<"border">>
                         ELSE IF Title THEN e[p] = TitleOf(w, HasFocus(w))
                         ELSE e[p] = <<w>>
  BY FramePixel
<1>2. TitleOf(w, HasFocus(w)) = TitleOf(w, focused_window > 0 /\ InOrder[focused_window] = w)
  BY DEF HasFocus
<1>3. /\ ~Inner => part = <<"border">>
      /\ Inner /\ Title => part = TitleOf(w, HasFocus(w))
      /\ Inner /\ ~Title /\ w = "notes" /\ Text2 => part = glyph
      /\ Inner /\ ~Title /\ ~(w = "notes" /\ Text2) => part = <<w>>
  <2> DEFINE title == TitleOf(w, focused_window > 0 /\ InOrder[focused_window] = w)
  <2>1. part = IF ~Inner THEN <<"border">>
               ELSE IF Title THEN title
               ELSE IF w = "notes" /\ Text2 THEN glyph ELSE <<w>>
    BY DEF WindowPart
  <2>2. title = TitleOf(w, HasFocus(w))
    BY <1>2
  <2> HIDE DEF part, Inner, Title, Text2, glyph, title
  <2> QED BY <2>1, <2>2
<1>4. Covers(w, p) <=> Inside(p, g.x, g.y, g.width, g.height)
  BY DEF Covers
<1>5. CASE w # "notes"
  <2>1. d = e
    BY <1>5 DEF OnDraw
  <2> HIDE DEF e, d, Inner, Title, Text2, glyph, part
  <2>2. d[p] = IF Covers(w, p) THEN part ELSE b[p]
    BY <1>1, <1>3, <1>5, <2>1
  <2> QED BY <1>1, <2>1, <2>2 DEF d, e, part
<1>6. CASE w = "notes"
  <2> DEFINE Content == Inside(p, ContentX(g), ContentY(g), ContentWidth(g), ContentHeight(g))
  <2>1. d = NotesWindowDraw(e)
    BY <1>6 DEF OnDraw
  <2>2. /\ DOMAIN d = DOMAIN b
        /\ d[p] = IF Text1 THEN glyph ELSE IF Content THEN <<"notes">> ELSE e[p]
    <3>1. p \in DOMAIN e
      BY <1>1
    <3> HIDE DEF e
    <3> QED BY <1>1, <1>6, <2>1, <3>1, NotesPixel
  <2>3. /\ g.x \in Nat /\ g.y \in Nat /\ g.width \in Nat /\ g.height \in Nat
        /\ g.height >= TITLE_BAR_HEIGHT + 2
        /\ TITLE_BAR_HEIGHT \in Nat /\ FONT_GLYPH_SIZE \in Nat
        /\ TextX \in Nat /\ TextY \in Nat /\ Len(notes) \in Nat
    <3>1. notes \in Seq(Printable)
      BY DesktopParts
    <3> QED BY <3>1, GeometryFacts
  <2>4. /\ ContentX(g) = g.x + 1 /\ ContentY(g) = g.y + TITLE_BAR_HEIGHT + 2
        /\ ContentWidth(g) = g.width - 2
        /\ ContentHeight(g) = g.height - TITLE_BAR_HEIGHT - 3
    BY DEF ContentX, ContentY, ContentWidth, ContentHeight
  <2>5. TextY + FONT_GLYPH_SIZE <= g.height - TITLE_BAR_HEIGHT - 3
    BY <1>6, <2>4, WindowsAssumption
  <2>6. ~(/\ p[1] >= g.x + 1 + (g.width - 2)
          /\ p[2] \in g.y + TITLE_BAR_HEIGHT + 2 + TextY
                  .. g.y + TITLE_BAR_HEIGHT + 2 + TextY + FONT_GLYPH_SIZE - 1)
    BY <1>6, <2>4 DEF Beyond
  <2>7. FONT_GLYPH_SIZE * Len(notes) = Len(notes) * FONT_GLYPH_SIZE
    BY <2>3
  <2>8. /\ Text1 <=> Text2
        /\ Text1 => Inner /\ ~Title
        /\ Content => Inner /\ ~Title
        /\ Inner => Covers(w, p)
    <3>1. Text1 <=> Text2
      BY <2>7
    <3>2. FONT_GLYPH_SIZE * Len(notes) \in Nat
      <4>1. \A i, j \in Nat : i * j \in Nat
        OBVIOUS
      <4> QED BY <2>3, <4>1
    <3> DEFINE n == FONT_GLYPH_SIZE * Len(notes)
    <3>3. Text1 = Inside(p, g.x + 1 + TextX, g.y + TITLE_BAR_HEIGHT + 2 + TextY, n, FONT_GLYPH_SIZE)
      BY <2>4, <3>2
    <3>4. Content = Inside(p, g.x + 1, g.y + TITLE_BAR_HEIGHT + 2,
                           g.width - 2, g.height - TITLE_BAR_HEIGHT - 3)
      BY <2>4
    <3> HIDE DEF g, Text1, Text2, Content, x, y
    <3>5. /\ Text1 => Inner /\ ~Title
          /\ Content => Inner /\ ~Title
          /\ Inner => Inside(p, g.x, g.y, g.width, g.height)
      BY <2>3, <2>5, <2>6, <3>2, <3>3, <3>4, AreasOfNotes
    <3> QED BY <1>4, <3>1, <3>5
  <2> HIDE DEF e, d, Inner, Title, Text1, Text2, Content, glyph, part
  <2>9. d[p] = IF Covers(w, p) THEN part ELSE b[p]
    BY <1>1, <1>3, <1>6, <2>2, <2>8
  <2> QED BY <2>2, <2>9 DEF d, e, part
<1> QED BY <1>5, <1>6

-----------------------------------------------------------------------------
(* Where the redrawing of the display is, once the GUI is up.               *)
W(w) == [op |-> "window", window |-> w]
Neighbours(t) == {t} \cup {SubSeq(t, 1, Len(t) - 1)} \cup {Append(t, c) : c \in Printable}

(* The windows are drawn for the first time: those that still miss come     *)
(* first in the list, and the display is dark.                              *)
FirstDrawing ==
  /\ Dark(hw)
  /\ \/ todo = <<Do("desktop"), W("notes"), W("welcome"), W("info"), Do("present"), Do("iret")>>
     \/ /\ todo = <<W("notes"), W("welcome"), W("info"), Do("present"), Do("iret")>>
        /\ Around(back)
     \/ /\ todo = <<W("welcome"), W("info"), Do("present"), Do("iret")>>
        /\ Around(back) /\ Fine(back, "notes", focused_window, notes)
     \/ /\ todo = <<W("info"), Do("present"), Do("iret")>>
        /\ Around(back) /\ Fine(back, "notes", focused_window, notes)
        /\ Fine(back, "welcome", focused_window, notes)

(* All is drawn, and is to be shown. *)
Drawn ==
  /\ todo = <<Do("present"), Do("iret")>>
  /\ Whole(back, focused_window, notes)
  /\ \/ Dark(hw)
     \/ \E f \in 0 .. 3 : \E t \in Neighbours(notes) : Whole(hw, f, t)

(* All is shown. *)
Current ==
  /\ todo \in {<<Do("iret")>>, <<>>}
  /\ hw = back /\ Whole(back, focused_window, notes)

(* The notes are one keystroke ahead of what is drawn and shown. *)
NotesAhead ==
  /\ todo = <<W("notes"), Do("present"), Do("iret")>>
  /\ hw = back
  /\ \E t \in Neighbours(notes) : Whole(back, focused_window, t)

(* The focus moves from window f to the next: window f is drawn without it  *)
(* and shown, then the next one is drawn with it and shown.                 *)
FocusAhead(f) ==
  LET last == W(InOrder[f])
      next == W(InOrder[focused_window])
  IN  \/ /\ todo = <<last, Do("present"), next, Do("present"), Do("iret")>>
         /\ focused_window # f
         /\ hw = back /\ Whole(back, f, notes)
      \/ /\ todo = <<Do("present"), next, Do("present"), Do("iret")>>
         /\ Whole(back, 0, notes) /\ Whole(hw, f, notes)
      \/ /\ todo = <<next, Do("present"), Do("iret")>>
         /\ hw = back /\ Whole(back, 0, notes)

Screened ==
  /\ windows = InOrder
  /\ info \in GrubModes \cup {GuiMode}
  /\ DOMAIN back = Pixels(info) /\ DOMAIN hw = Pixels(info)

Stage == \/ FirstDrawing \/ Drawn \/ Current \/ NotesAhead
         \/ \E f \in 1 .. 3 : FocusAhead(f)

DisplayInv == Working /\ gui_active => Screened /\ Stage

(* After an exception the list never runs empty. *)
HaltInv == ~Working => Stops(todo)

LEMMA PixelFacts ==
  ASSUME Screened, NEW p \in Pixels(info)
  PROVE  /\ p[1] \in Int /\ p[2] \in Int
         /\ Inside(p, 0, 0, info.width, info.height)
<1>1. info.width \in Nat /\ info.height \in Nat
  BY DesktopAssumption DEF Screened
<1>2. p[1] \in 0 .. info.width - 1 /\ p[2] \in 0 .. info.height - 1
  BY DEF Pixels
<1> QED BY <1>1, <1>2 DEF Inside

LEMMA DrawnDomain ==
  ASSUME NEW b, NEW w, NEW focused
  PROVE  DOMAIN OnDraw(DrawWindow(b, w, focused), w) = DOMAIN b
<1>1. DOMAIN DrawWindow(b, w, focused) = DOMAIN b
  BY DEF DrawWindow, FillRect, DrawRect
<1> HIDE DEF DrawWindow
<1>2. \A c : DOMAIN NotesWindowDraw(c) = DOMAIN c
  BY DEF NotesWindowDraw, DrawString, FillRect
<1> QED BY <1>1, <1>2 DEF OnDraw

(* A window is drawn with the focus and the notes as they are, and the rest *)
(* of what the buffer shows stays.                                          *)
LEMMA Redrawn ==
  ASSUME TInv, Screened, NEW w \in Windows, DrawOneWindow, Head(todo) = W(w)
  PROVE  /\ DOMAIN back' = DOMAIN back
         /\ Fine(back', w, focused_window, notes)
         /\ Around(back) => Around(back')
         /\ \A v \in Windows : \A f, t : v # w /\ Fine(back, v, f, t) => Fine(back', v, f, t)
<1>1. Head(todo).window = w
  BY DEF W
<1>2. back' = OnDraw(DrawWindow(back, w, HasFocus(w)), w)
  BY <1>1 DEF DrawOneWindow
<1>3. DOMAIN back' = DOMAIN back
  BY <1>2, DrawnDomain
<1>4. ASSUME NEW p \in DOMAIN back, ~Beyond(p)
      PROVE  /\ p[1] \in Int /\ p[2] \in Int
             /\ back'[p] = IF Covers(w, p) THEN WindowPart(w, focused_window, notes, p)
                           ELSE back[p]
  <2>1. p[1] \in Int /\ p[2] \in Int
    BY PixelFacts DEF Screened
  <2>2. windows = InOrder
    BY DEF Screened
  <2> QED BY <1>2, <1>4, <2>1, <2>2, WindowDrawn
<1>5. Fine(back', w, focused_window, notes)
  BY <1>3, <1>4 DEF Fine
<1>6. Around(back) => Around(back')
  BY <1>3, <1>4 DEF Around
<1>7. ASSUME NEW v \in Windows, NEW f, NEW t, v # w, Fine(back, v, f, t)
      PROVE  Fine(back', v, f, t)
  <2>1. ASSUME NEW p \in DOMAIN back, ~Beyond(p), Covers(v, p)
        PROVE  back'[p] = WindowPart(v, f, t, p)
    <3>1. ~Covers(w, p)
      BY <1>4, <1>7, <2>1, CoveredOnce
    <3>2. back'[p] = back[p]
      BY <1>4, <2>1, <3>1
    <3> QED BY <1>7, <2>1, <3>2 DEF Fine
  <2> QED BY <1>3, <2>1 DEF Fine
<1> QED BY <1>3, <1>5, <1>6, <1>7

(* What a whole picture is when one window has been drawn again *)
LEMMA RedrawnWhole ==
  ASSUME TInv, Screened, NEW w \in Windows, DrawOneWindow, Head(todo) = W(w),
         NEW f, NEW t, Whole(back, f, t), NEW e,
         Highlights(focused_window, w) <=> Highlights(e, w),
         \A v \in Windows \ {w} :
            /\ Highlights(f, v) <=> Highlights(e, v)
            /\ v = "notes" => t = notes
  PROVE  Whole(back', e, notes)
<1>1. Around(back')
  BY Redrawn DEF Whole
<1>2. Fine(back', w, e, notes)
  <2>1. Fine(back', w, focused_window, notes)
    BY Redrawn
  <2> QED BY <2>1, SamePart
<1>3. ASSUME NEW v \in Windows, v # w PROVE Fine(back', v, e, notes)
  <2>1. Fine(back, v, f, t)
    BY DEF Whole
  <2>2. Fine(back', v, f, t)
    BY <1>3, <2>1, Redrawn
  <2> QED BY <1>3, <2>2, SamePart
<1> QED BY <1>1, <1>2, <1>3 DEF Whole

LEMMA FocusFacts ==
  ASSUME TInv, Screened
  PROVE  /\ focused_window \in 1 .. 3 /\ InOrder[focused_window] \in Windows
         /\ notes \in Seq(Printable) /\ notes \in Neighbours(notes)
<1>1. focused_window \in 0 .. Len(windows) /\ focused_window > 0 /\ notes \in Seq(Printable)
  BY DesktopParts DEF Screened
<1>2. Len(windows) = 3
  BY OrderFacts DEF Screened
<1>3. focused_window \in 1 .. 3
  BY <1>1, <1>2
<1>4. \A f \in 1 .. 3 : f = 1 \/ f = 2 \/ f = 3
  OBVIOUS
<1> QED BY <1>1, <1>3, <1>4, OrderFacts DEF Neighbours

LEMMA HighlightFacts ==
  /\ \A w : ~Highlights(0, w)
  /\ \A f \in 1 .. 3 : \A w : Highlights(f, w) <=> w = InOrder[f]
  BY DEF Highlights

LEMMA DesktopFrame ==
  ASSUME Screened, DesktopStep
  PROVE  /\ Screened'
         /\ UNCHANGED <<windows, focused_window, notes, info>>
         /\ todo' = Tail(todo)
<1>1. CASE FillDesktop
  BY <1>1 DEF FillDesktop, FillRect, Screened, Perform
<1>2. CASE DrawOneWindow
  BY <1>2, DrawnDomain DEF DrawOneWindow, Screened, Perform
<1>3. CASE Present
  BY <1>3 DEF Present, Screened, Perform
<1> QED BY <1>1, <1>2, <1>3 DEF DesktopStep

(* Which step takes which operation *)
LEMMA DesktopHeads ==
  ASSUME DesktopStep
  PROVE  /\ Head(todo) = Do("desktop") => FillDesktop
         /\ Head(todo) = Do("present") => Present /\ hw' = back /\ UNCHANGED back
         /\ Head(todo) # Do("iret")
         /\ \A w : Head(todo) = W(w) => DrawOneWindow /\ UNCHANGED hw
<1>1. /\ Head(todo).op = "desktop" => FillDesktop
      /\ Head(todo).op = "present" => Present
      /\ Head(todo).op = "window" => DrawOneWindow
      /\ Head(todo).op # "iret"
  BY DEF DesktopStep, FillDesktop, DrawOneWindow, Present, Perform
<1>2. /\ \A name : Do(name).op = name
      /\ \A w : W(w).op = "window"
  BY DEF Do, W
<1>3. Present => hw' = back /\ UNCHANGED back
  BY DEF Present
<1>4. DrawOneWindow => UNCHANGED hw
  BY DEF DrawOneWindow
<1> QED BY <1>1, <1>2, <1>3, <1>4

LEMMA FirstDrawingStep ==
  ASSUME TInv, Screened, FirstDrawing, DesktopStep
  PROVE  Stage'
<1>1. UNCHANGED <<windows, focused_window, notes, info>> /\ todo' = Tail(todo)
  BY DesktopFrame
<1>2. Dark(hw)
  BY DEF FirstDrawing
<1>3. "notes" \in Windows /\ "welcome" \in Windows /\ "info" \in Windows
  BY DEF Windows
<1>4. CASE todo = <<Do("desktop"), W("notes"), W("welcome"), W("info"), Do("present"), Do("iret")>>
  <2>1. /\ Head(todo) = Do("desktop")
        /\ Tail(todo) = <<W("notes"), W("welcome"), W("info"), Do("present"), Do("iret")>>
    BY <1>4
  <2>2. FillDesktop
    BY <2>1, DesktopHeads
  <2>3. back' = FillRect(back, 0, 0, info.width, info.height, <<"desktop">>) /\ UNCHANGED hw
    BY <2>2 DEF FillDesktop
  <2>4. \A p \in DOMAIN back : back'[p] = <<"desktop">>
    BY <2>3, PixelFacts DEF FillRect, Screened
  <2>5. Around(back')
    BY <2>3, <2>4 DEF Around, FillRect
  <2>6. FirstDrawing'
    BY <1>1, <1>2, <2>1, <2>3, <2>5 DEF FirstDrawing
  <2> QED BY <2>6 DEF Stage
<1>5. CASE /\ todo = <<W("notes"), W("welcome"), W("info"), Do("present"), Do("iret")>>
           /\ Around(back)
  <2>1. /\ Head(todo) = W("notes")
        /\ Tail(todo) = <<W("welcome"), W("info"), Do("present"), Do("iret")>>
    BY <1>5
  <2>2. DrawOneWindow /\ UNCHANGED hw
    BY <2>1, DesktopHeads
  <2>3. Around(back') /\ Fine(back', "notes", focused_window, notes)
    BY <1>3, <1>5, <2>1, <2>2, Redrawn
  <2>4. FirstDrawing'
    BY <1>1, <1>2, <2>1, <2>2, <2>3 DEF FirstDrawing
  <2> QED BY <2>4 DEF Stage
<1>6. CASE /\ todo = <<W("welcome"), W("info"), Do("present"), Do("iret")>>
           /\ Around(back) /\ Fine(back, "notes", focused_window, notes)
  <2>1. /\ Head(todo) = W("welcome")
        /\ Tail(todo) = <<W("info"), Do("present"), Do("iret")>>
    BY <1>6
  <2>2. DrawOneWindow /\ UNCHANGED hw
    BY <2>1, DesktopHeads
  <2>3. /\ Around(back') /\ Fine(back', "notes", focused_window, notes)
        /\ Fine(back', "welcome", focused_window, notes)
    BY <1>3, <1>6, <2>1, <2>2, Redrawn
  <2>4. FirstDrawing'
    BY <1>1, <1>2, <2>1, <2>2, <2>3 DEF FirstDrawing
  <2> QED BY <2>4 DEF Stage
<1>7. CASE /\ todo = <<W("info"), Do("present"), Do("iret")>>
           /\ Around(back) /\ Fine(back, "notes", focused_window, notes)
           /\ Fine(back, "welcome", focused_window, notes)
  <2>1. /\ Head(todo) = W("info")
        /\ Tail(todo) = <<Do("present"), Do("iret")>>
    BY <1>7
  <2>2. DrawOneWindow /\ UNCHANGED hw
    BY <2>1, DesktopHeads
  <2>3. /\ Around(back') /\ Fine(back', "notes", focused_window, notes)
        /\ Fine(back', "welcome", focused_window, notes)
        /\ Fine(back', "info", focused_window, notes)
    BY <1>3, <1>7, <2>1, <2>2, Redrawn
  <2>4. Whole(back', focused_window, notes)
    BY <2>3 DEF Whole, Windows
  <2>5. Drawn'
    BY <1>1, <1>2, <2>1, <2>2, <2>4 DEF Drawn
  <2> QED BY <2>5 DEF Stage
<1> QED BY <1>4, <1>5, <1>6, <1>7 DEF FirstDrawing

LEMMA DrawnStep ==
  ASSUME TInv, Screened, Drawn, DesktopStep
  PROVE  Stage'
<1>1. UNCHANGED <<windows, focused_window, notes, info>> /\ todo' = Tail(todo)
  BY DesktopFrame
<1>2. Head(todo) = Do("present") /\ Tail(todo) = <<Do("iret")>>
  BY DEF Drawn
<1>3. hw' = back /\ UNCHANGED back
  BY <1>2, DesktopHeads
<1>4. Whole(back', focused_window, notes)
  BY <1>3 DEF Drawn
<1>5. Current'
  BY <1>1, <1>2, <1>3, <1>4 DEF Current
<1> QED BY <1>5 DEF Stage

LEMMA NotesAheadStep ==
  ASSUME TInv, Screened, NotesAhead, DesktopStep
  PROVE  Stage'
<1>1. UNCHANGED <<windows, focused_window, notes, info>> /\ todo' = Tail(todo)
  BY DesktopFrame
<1>2. Head(todo) = W("notes") /\ Tail(todo) = <<Do("present"), Do("iret")>> /\ hw = back
  BY DEF NotesAhead
<1>3. DrawOneWindow /\ UNCHANGED hw
  BY <1>2, DesktopHeads
<1>4. PICK t \in Neighbours(notes) : Whole(back, focused_window, t)
  BY DEF NotesAhead
<1>5. Whole(back', focused_window, notes)
  <2>1. "notes" \in Windows
    BY DEF Windows
  <2>2. \A v \in Windows \ {"notes"} : v = "notes" => t = notes
    OBVIOUS
  <2> QED BY <1>2, <1>3, <1>4, <2>1, <2>2, RedrawnWhole
<1>6. Whole(hw', focused_window, t) /\ focused_window \in 0 .. 3
  BY <1>2, <1>3, <1>4, FocusFacts
<1>7. Drawn'
  BY <1>1, <1>2, <1>4, <1>5, <1>6 DEF Drawn
<1> QED BY <1>7 DEF Stage

LEMMA FocusAheadStep ==
  ASSUME TInv, Screened, NEW f \in 1 .. 3, FocusAhead(f), DesktopStep
  PROVE  Stage'
<1> DEFINE last == W(InOrder[f])
           next == W(InOrder[focused_window])
<1>1. UNCHANGED <<windows, focused_window, notes, info>> /\ todo' = Tail(todo)
  BY DesktopFrame
<1>2. /\ focused_window \in 1 .. 3 /\ notes \in Neighbours(notes)
      /\ InOrder[focused_window] \in Windows /\ InOrder[f] \in Windows
  <2>1. f = 1 \/ f = 2 \/ f = 3
    OBVIOUS
  <2> QED BY <2>1, FocusFacts, OrderFacts
<1>3. CASE /\ todo = <<last, Do("present"), next, Do("present"), Do("iret")>>
           /\ focused_window # f
           /\ hw = back /\ Whole(back, f, notes)
  <2>1. /\ Head(todo) = W(InOrder[f])
        /\ Tail(todo) = <<Do("present"), next, Do("present"), Do("iret")>>
    BY <1>3
  <2>2. DrawOneWindow /\ UNCHANGED hw
    BY <2>1, DesktopHeads
  <2>3. /\ Highlights(focused_window, InOrder[f]) <=> Highlights(0, InOrder[f])
        /\ \A v \in Windows \ {InOrder[f]} : Highlights(f, v) <=> Highlights(0, v)
    BY <1>2, <1>3, OrderFacts, HighlightFacts
  <2>4. Whole(back', 0, notes)
    BY <1>2, <1>3, <2>1, <2>2, <2>3, RedrawnWhole
  <2>5. Whole(hw', f, notes)
    BY <1>3, <2>2
  <2>6. FocusAhead(f)'
    BY <1>1, <2>1, <2>4, <2>5 DEF FocusAhead
  <2> QED BY <2>6 DEF Stage
<1>4. CASE /\ todo = <<Do("present"), next, Do("present"), Do("iret")>>
           /\ Whole(back, 0, notes) /\ Whole(hw, f, notes)
  <2>1. /\ Head(todo) = Do("present")
        /\ Tail(todo) = <<next, Do("present"), Do("iret")>>
    BY <1>4
  <2>2. hw' = back /\ UNCHANGED back
    BY <2>1, DesktopHeads
  <2>3. Whole(back', 0, notes)
    BY <1>4, <2>2
  <2>4. FocusAhead(f)'
    BY <1>1, <2>1, <2>2, <2>3 DEF FocusAhead
  <2> QED BY <2>4 DEF Stage
<1>5. CASE /\ todo = <<next, Do("present"), Do("iret")>>
           /\ hw = back /\ Whole(back, 0, notes)
  <2>1. /\ Head(todo) = W(InOrder[focused_window])
        /\ Tail(todo) = <<Do("present"), Do("iret")>>
    BY <1>5
  <2>2. DrawOneWindow /\ UNCHANGED hw
    BY <2>1, DesktopHeads
  <2>3. \A v \in Windows \ {InOrder[focused_window]} :
          Highlights(0, v) <=> Highlights(focused_window, v)
    BY <1>2, HighlightFacts
  <2>4. Whole(back', focused_window, notes)
    BY <1>2, <1>5, <2>1, <2>2, <2>3, RedrawnWhole
  <2>5. Whole(hw', 0, notes) /\ 0 \in 0 .. 3
    BY <1>5, <2>2
  <2>6. Drawn'
    BY <1>1, <1>2, <2>1, <2>4, <2>5 DEF Drawn
  <2> QED BY <2>6 DEF Stage
<1> QED BY <1>3, <1>4, <1>5 DEF FocusAhead

LEMMA DesktopStage ==
  ASSUME TInv, Screened, Stage, DesktopStep
  PROVE  Screened' /\ Stage'
<1>1. Screened'
  BY DesktopFrame
<1>2. ~Current
  <2>1. todo # <<>>
    BY DEF DesktopStep, FillDesktop, DrawOneWindow, Present, Perform
  <2>2. todo = <<Do("iret")>> => Head(todo) = Do("iret")
    OBVIOUS
  <2> QED BY <2>1, <2>2, DesktopHeads DEF Current
<1> QED BY <1>1, <1>2, FirstDrawingStep, DrawnStep, NotesAheadStep, FocusAheadStep DEF Stage

LEMMA StageHeads ==
  ASSUME Stage, todo # <<>>
  PROVE  Head(todo).op \in {"desktop", "window", "present", "iret"}
<1>1. Head(todo) \in {Do("desktop"), Do("present"), Do("iret")} \/ \E w : Head(todo) = W(w)
  BY DEF Stage, FirstDrawing, Drawn, Current, NotesAhead, FocusAhead
<1>2. /\ \A name : Do(name).op = name
      /\ \A w : W(w).op = "window"
  BY DEF Do, W
<1> QED BY <1>1, <1>2

LEMMA StageStutters ==
  ASSUME Screened, Stage,
         UNCHANGED <<todo, windows, focused_window, notes, info, back, hw>>
  PROVE  Screened' /\ Stage'
<1>1. Screened'
  BY DEF Screened
<1>2. CASE FirstDrawing
  <2>1. FirstDrawing'
    BY <1>2 DEF FirstDrawing
  <2> QED BY <1>1, <2>1 DEF Stage
<1>3. CASE Drawn
  <2>1. Drawn'
    BY <1>3 DEF Drawn
  <2> QED BY <1>1, <2>1 DEF Stage
<1>4. CASE Current
  <2>1. Current'
    BY <1>4 DEF Current
  <2> QED BY <1>1, <2>1 DEF Stage
<1>5. CASE NotesAhead
  <2>1. NotesAhead'
    BY <1>5 DEF NotesAhead
  <2> QED BY <1>1, <2>1 DEF Stage
<1>6. ASSUME NEW f \in 1 .. 3, FocusAhead(f) PROVE Screened' /\ Stage'
  <2>1. FocusAhead(f)'
    BY <1>6 DEF FocusAhead
  <2> QED BY <1>1, <2>1 DEF Stage
<1> QED BY <1>2, <1>3, <1>4, <1>5, <1>6 DEF Stage

LEMMA ReturnStage ==
  ASSUME Screened, Stage, Returns
  PROVE  Screened' /\ Stage'
<1>1. todo # <<>> /\ todo' = Tail(todo) /\ Head(todo).op \in {"iret", "sti"}
  BY DEF Returns, Iret, Sti, Perform
<1>2. UNCHANGED <<windows, focused_window, notes, info, back, hw>>
  BY DEF Returns, desktopVars
<1>3. /\ \A name : Do(name).op = name
      /\ \A w : W(w).op = "window"
  BY DEF Do, W
<1>4. todo = <<Do("iret")>> /\ Current
  <2>1. Head(todo) = Do("iret")
    <3>1. Head(todo) \in {Do("desktop"), Do("present"), Do("iret")} \/ \E w : Head(todo) = W(w)
      BY <1>1 DEF Stage, FirstDrawing, Drawn, Current, NotesAhead, FocusAhead
    <3> QED BY <1>1, <1>3, <3>1
  <2>2. /\ \A w : W(w) # Do("iret")
        /\ Do("desktop") # Do("iret") /\ Do("present") # Do("iret")
    BY <1>3
  <2> QED BY <1>1, <2>1, <2>2 DEF Stage, FirstDrawing, Drawn, Current, NotesAhead, FocusAhead
<1>5. todo' = <<>>
  BY <1>1, <1>4
<1>6. Current'
  BY <1>2, <1>4, <1>5 DEF Current
<1>7. Screened'
  BY <1>2 DEF Screened
<1> QED BY <1>6, <1>7 DEF Stage

(* Before a keystroke the notes were a neighbour of what they are after it. *)
LEMMA NeighboursMutual ==
  ASSUME NEW s \in Seq(Printable), NEW t,
         \/ t = s
         \/ s # <<>> /\ t = SubSeq(s, 1, Len(s) - 1)
         \/ \E c \in Printable : t = Append(s, c)
  PROVE  s \in Neighbours(t)
<1>1. CASE t = s
  BY <1>1 DEF Neighbours
<1>2. CASE s # <<>> /\ t = SubSeq(s, 1, Len(s) - 1)
  <2>1. PICK c \in Printable : c = s[Len(s)]
    BY <1>2
  <2>2. s = Append(t, c)
    BY <1>2, <2>1
  <2> QED BY <2>2 DEF Neighbours
<1>3. ASSUME NEW c \in Printable, t = Append(s, c) PROVE s \in Neighbours(t)
  <2>1. s = SubSeq(t, 1, Len(t) - 1)
    BY <1>3
  <2> QED BY <2>1 DEF Neighbours
<1> QED BY <1>1, <1>2, <1>3

(* Longer lists *)
LEMMA TwoAndTwo ==
  ASSUME NEW S, NEW a \in S, NEW b \in S, NEW c \in S, NEW d \in S
  PROVE  <<a, b>> \o <<c, d>> = <<a, b, c, d>>
<1>1. <<a, b>> \o <<c, d>> \in Seq(S)
  OBVIOUS
<1>2. /\ Len(<<a, b>> \o <<c, d>>) = 4
      /\ (<<a, b>> \o <<c, d>>)[1] = a
      /\ (<<a, b>> \o <<c, d>>)[2] = b
      /\ (<<a, b>> \o <<c, d>>)[3] = c
      /\ (<<a, b>> \o <<c, d>>)[4] = d
  OBVIOUS
<1>3. PICK u \in Seq(S) : u = <<a, b>> \o <<c, d>>
  BY <1>1, Zenon
<1>4. Len(u) = 4 /\ u[1] = a /\ u[2] = b /\ u[3] = c /\ u[4] = d
  BY <1>2, <1>3, Zenon
<1>5. u = <<a, b, c, d>>
  BY <1>4
<1> QED BY <1>3, <1>5, Zenon

LEMMA OneAndThree ==
  ASSUME NEW S, NEW a \in S, NEW b \in S, NEW c \in S, NEW d \in S
  PROVE  <<a>> \o <<b, c, d>> = <<a, b, c, d>>
<1>1. <<a>> \o <<b, c, d>> \in Seq(S)
  OBVIOUS
<1>2. /\ Len(<<a>> \o <<b, c, d>>) = 4
      /\ (<<a>> \o <<b, c, d>>)[1] = a
      /\ (<<a>> \o <<b, c, d>>)[2] = b
      /\ (<<a>> \o <<b, c, d>>)[3] = c
      /\ (<<a>> \o <<b, c, d>>)[4] = d
  OBVIOUS
<1>3. PICK u \in Seq(S) : u = <<a>> \o <<b, c, d>>
  BY <1>1, Zenon
<1>4. Len(u) = 4 /\ u[1] = a /\ u[2] = b /\ u[3] = c /\ u[4] = d
  BY <1>2, <1>3, Zenon
<1>5. u = <<a, b, c, d>>
  BY <1>4
<1> QED BY <1>3, <1>5, Zenon

LEMMA FourAndOne ==
  ASSUME NEW S, NEW a \in S, NEW b \in S, NEW c \in S, NEW d \in S,
         NEW e \in S
  PROVE  <<a, b, c, d>> \o <<e>> = <<a, b, c, d, e>>
<1>1. <<a, b, c, d>> \o <<e>> \in Seq(S)
  OBVIOUS
<1>2. /\ Len(<<a, b, c, d>> \o <<e>>) = 5
      /\ (<<a, b, c, d>> \o <<e>>)[1] = a
      /\ (<<a, b, c, d>> \o <<e>>)[2] = b
      /\ (<<a, b, c, d>> \o <<e>>)[3] = c
      /\ (<<a, b, c, d>> \o <<e>>)[4] = d
      /\ (<<a, b, c, d>> \o <<e>>)[5] = e
  OBVIOUS
<1>3. PICK u \in Seq(S) : u = <<a, b, c, d>> \o <<e>>
  BY <1>1, Zenon
<1>4. /\ Len(u) = 5 /\ u[1] = a /\ u[2] = b /\ u[3] = c
      /\ u[4] = d /\ u[5] = e
  BY <1>2, <1>3, Zenon
<1>5. u = <<a, b, c, d, e>>
  BY <1>4
<1> QED BY <1>3, <1>5, Zenon

LEMMA FiveAndOne ==
  ASSUME NEW S, NEW a \in S, NEW b \in S, NEW c \in S, NEW d \in S,
         NEW e \in S, NEW f \in S
  PROVE  <<a, b, c, d, e>> \o <<f>> = <<a, b, c, d, e, f>>
<1>1. <<a, b, c, d, e>> \o <<f>> \in Seq(S)
  OBVIOUS
<1>2. /\ Len(<<a, b, c, d, e>> \o <<f>>) = 6
      /\ (<<a, b, c, d, e>> \o <<f>>)[1] = a
      /\ (<<a, b, c, d, e>> \o <<f>>)[2] = b
      /\ (<<a, b, c, d, e>> \o <<f>>)[3] = c
      /\ (<<a, b, c, d, e>> \o <<f>>)[4] = d
      /\ (<<a, b, c, d, e>> \o <<f>>)[5] = e
      /\ (<<a, b, c, d, e>> \o <<f>>)[6] = f
  OBVIOUS
<1>3. PICK u \in Seq(S) : u = <<a, b, c, d, e>> \o <<f>>
  BY <1>1, Zenon
<1>4. /\ Len(u) = 6 /\ u[1] = a /\ u[2] = b /\ u[3] = c
      /\ u[4] = d /\ u[5] = e /\ u[6] = f
  BY <1>2, <1>3, Zenon
<1>5. u = <<a, b, c, d, e, f>>
  BY <1>4
<1> QED BY <1>3, <1>5, Zenon

LEMMA TwoRedraws ==
  ASSUME NEW v \in Windows, NEW w \in Windows
  PROVE  /\ gui_redraw_window(v) \o <<Do("iret")>> = <<W(v), Do("present"), Do("iret")>>
         /\ gui_redraw_window(v) \o gui_redraw_window(w) \o <<Do("iret")>>
              = <<W(v), Do("present"), W(w), Do("present"), Do("iret")>>
<1>1. /\ gui_redraw_window(v) = <<W(v), Do("present")>>
      /\ gui_redraw_window(w) = <<W(w), Do("present")>>
  BY DEF gui_redraw_window, W
<1>2. /\ W(v) \in Ops /\ W(w) \in Ops /\ Do("present") \in Ops /\ Do("iret") \in Ops
  BY DoIsOp DEF W, Ops, DesktopOps
<1>3. ASSUME NEW a \in Ops, NEW b \in Ops, NEW p \in Ops, NEW r \in Ops
      PROVE  /\ <<a, p>> \o <<r>> = <<a, p, r>>
             /\ <<a, p>> \o <<b, p>> \o <<r>> = <<a, p, b, p, r>>
  <2>1. <<a, p>> \o <<b, p>> = <<a, p, b, p>>
    BY TwoAndTwo
  <2>2. <<a, p, b, p>> \o <<r>> = <<a, p, b, p, r>>
    BY FourAndOne
  <2>3. <<a, p>> \o <<r>> = <<a, p, r>>
    BY TwoAndOne
  <2> QED BY <2>1, <2>2, <2>3, Zenon
<1> QED BY <1>1, <1>2, <1>3, SMT

LEMMA KeyStage ==
  ASSUME TInv, Screened, Stage, NEW k \in Keys, GuiKey(k)
  PROVE  Screened' /\ Stage'
<1>1. /\ AtRest
      /\ UNCHANGED <<windows, info, back, hw>>
      /\ \/ FocusNext
         \/ NotesWindowKey(Character(k), Erase)
         \/ todo' = <<Do("iret")>> /\ UNCHANGED <<focused_window, notes>>
  BY Zenon DEF GuiKey, GuiHandleKey, Ready
<1>2. todo = <<>> /\ Current
  BY <1>1 DEF AtRest, Stage, FirstDrawing, Drawn, Current, NotesAhead, FocusAhead
<1>3. hw = back /\ Whole(back, focused_window, notes)
  BY <1>2 DEF Current
<1>4. Screened'
  BY <1>1 DEF Screened
<1>5. /\ focused_window \in 1 .. 3 /\ InOrder[focused_window] \in Windows
      /\ notes \in Seq(Printable) /\ windows = InOrder /\ Len(InOrder) = 3
  BY FocusFacts, OrderFacts DEF Screened
<1>6. CASE FocusNext
  <2>1. /\ focused_window' = (focused_window % 3) + 1 /\ UNCHANGED notes
        /\ todo' = gui_redraw_window(InOrder[focused_window]) \o
                   gui_redraw_window(InOrder[focused_window']) \o <<Do("iret")>>
    BY <1>1, <1>5, <1>6 DEF FocusNext
  <2>2. focused_window' \in 1 .. 3 /\ focused_window' # focused_window
    <3>1. focused_window = 1 \/ focused_window = 2 \/ focused_window = 3
      BY <1>5
    <3>2. 1 % 3 = 1 /\ 2 % 3 = 2 /\ 3 % 3 = 0
      OBVIOUS
    <3> QED BY <2>1, <3>1, <3>2
  <2>3. InOrder[focused_window'] \in Windows
    <3>1. focused_window' = 1 \/ focused_window' = 2 \/ focused_window' = 3
      BY <2>2
    <3> QED BY <3>1, OrderFacts
  <2>4. todo' = <<W(InOrder[focused_window]), Do("present"),
                  W(InOrder[focused_window']), Do("present"), Do("iret")>>
    BY <1>5, <2>1, <2>3, TwoRedraws
  <2>5. PICK f \in 1 .. 3 : f = focused_window
    BY <1>5
  <2>6. FocusAhead(f)'
    BY <1>1, <1>3, <2>1, <2>2, <2>4, <2>5 DEF FocusAhead
  <2> QED BY <1>4, <2>6 DEF Stage
<1>7. CASE NotesWindowKey(Character(k), Erase)
  <2>1. UNCHANGED focused_window /\ todo' = gui_redraw_window("notes") \o <<Do("iret")>>
    BY <1>7, Zenon DEF NotesWindowKey
  <2>2. todo' = <<W("notes"), Do("present"), Do("iret")>>
    BY <2>1, TwoRedraws DEF Windows
  <2>3. \/ notes' = notes
        \/ notes # <<>> /\ notes' = SubSeq(notes, 1, Len(notes) - 1)
        \/ Character(k) \in Printable /\ notes' = Append(notes, Character(k))
    BY <1>7, Zenon DEF NotesWindowKey
  <2>4. notes \in Neighbours(notes')
    BY <1>5, <2>3, NeighboursMutual
  <2>5. PICK t : t = notes
    OBVIOUS
  <2>6. NotesAhead'
    BY <1>1, <1>3, <2>1, <2>2, <2>4, <2>5 DEF NotesAhead
  <2> QED BY <1>4, <2>6 DEF Stage
<1>8. CASE todo' = <<Do("iret")>> /\ UNCHANGED <<focused_window, notes>>
  <2>1. Current'
    BY <1>1, <1>3, <1>8 DEF Current
  <2> QED BY <1>4, <2>1 DEF Stage
<1> QED BY <1>1, <1>6, <1>7, <1>8

LEMMA GuiStage ==
  ASSUME TInv, Line, Gui
  PROVE  Screened' /\ Stage'
<1>1. /\ todo # <<>> /\ Head(todo).op = "gui" /\ ModeFound # NoMode
      /\ info' = ModeFound
      /\ back' = [p \in Pixels(ModeFound) |-> <<"black">>]
      /\ hw' = [p \in Pixels(ModeFound) |-> <<"unknown">>]
      /\ windows' = InOrder
      /\ todo' = gui_render(windows') \o Tail(todo)
  BY DEF Gui, AddWindows
<1>2. todo = <<Do("gui"), Do("iret")>>
  BY <1>1, LineStarts
<1>3. Tail(todo) = <<Do("iret")>>
  BY <1>2
<1>4. ModeFound \in GrubModes \cup {GuiMode}
  BY <1>1, DesktopParts DEF ModeFound
<1>5. DOMAIN back' = Pixels(info') /\ DOMAIN hw' = Pixels(info')
  BY <1>1
<1>6. Screened'
  BY <1>1, <1>4, <1>5 DEF Screened
<1>7. Dark(hw')
  BY <1>1 DEF Dark
<1>8. gui_render(InOrder) \o <<Do("iret")>>
        = <<Do("desktop"), W("notes"), W("welcome"), W("info"), Do("present"), Do("iret")>>
  <2> DEFINE s == [i \in 1 .. Len(InOrder) |-> [op |-> "window", window |-> InOrder[i]]]
  <2>1. s = <<W("notes"), W("welcome"), W("info")>>
    BY OrderFacts DEF W
  <2>2. gui_render(InOrder) = <<Do("desktop")>> \o s \o <<Do("present")>>
    BY Zenon DEF gui_render
  <2> HIDE DEF s
  <2>3. /\ W("notes") \in Ops /\ W("welcome") \in Ops /\ W("info") \in Ops
        /\ Do("desktop") \in Ops /\ Do("present") \in Ops /\ Do("iret") \in Ops
    BY DoIsOp DEF W, Ops, DesktopOps, Windows
  <2>4. ASSUME NEW a \in Ops, NEW b \in Ops, NEW c \in Ops,
               NEW d \in Ops, NEW p \in Ops, NEW r \in Ops
        PROVE  <<d>> \o <<a, b, c>> \o <<p>> \o <<r>> = <<d, a, b, c, p, r>>
    <3>1. <<d>> \o <<a, b, c>> = <<d, a, b, c>>
      BY OneAndThree
    <3>2. <<d, a, b, c>> \o <<p>> = <<d, a, b, c, p>>
      BY FourAndOne
    <3>3. <<d, a, b, c, p>> \o <<r>> = <<d, a, b, c, p, r>>
      BY FiveAndOne
    <3> QED BY <3>1, <3>2, <3>3, Zenon
  <2>5. <<Do("desktop")>> \o <<W("notes"), W("welcome"), W("info")>>
          \o <<Do("present")>> \o <<Do("iret")>>
        = <<Do("desktop"), W("notes"), W("welcome"), W("info"), Do("present"), Do("iret")>>
    BY <2>3, <2>4
  <2> QED BY <2>1, <2>2, <2>5, Zenon
<1>9. FirstDrawing'
  BY <1>1, <1>3, <1>7, <1>8 DEF FirstDrawing
<1> QED BY <1>6, <1>9 DEF Stage

-----------------------------------------------------------------------------
(* An exception's report ends in a halt that nothing removes. *)
LEMMA ReportStops ==
  ASSUME NEW fields \in 0 .. 2
  PROVE  Stops(Report(fields))
<1> DEFINE color == Locked(<<[op |-> "color", color |-> Red]>>)
           one == IF fields > 0 THEN Say ELSE <<>>
           two == IF fields > 1 THEN Say ELSE <<>>
           report == color \o terminal_write(<<Newline, Text, Newline>>) \o one \o two
<1>1. Harmless(color)
  <2> DEFINE paint == [op |-> "color", color |-> Red]
  <2>1. paint \in Ops
    BY CharsAndColors DEF Ops, TerminalOps
  <2>2. Harmless(<<paint>>)
    BY <2>1 DEF Harmless, Plain
  <2> HIDE DEF paint
  <2>3. Harmless(<<Do("acquire")>> \o <<paint>> \o <<Do("release")>>)
    BY <2>2, HarmlessDo, HarmlessConcat
  <2> QED BY <2>3 DEF Locked, paint
<1>2. Harmless(one) /\ Harmless(two)
  <2>1. Harmless(Say)
    BY TextsAreChars, HarmlessWrites DEF Say
  <2>2. Harmless(<<>>)
    BY DEF Harmless
  <2> QED BY <2>1, <2>2
<1>3. Harmless(terminal_write(<<Newline, Text, Newline>>))
  BY TextsAreChars, HarmlessWrites
<1> HIDE DEF color, one, two
<1>4. Harmless(report)
  BY <1>1, <1>2, <1>3, HarmlessConcat
<1>5. Report(fields) = report \o <<Do("halt")>>
  BY Zenon DEF Report, terminal_set_color, color, one, two
<1> HIDE DEF report
<1>6. Harmless(Report(fields))
  BY <1>4, <1>5, HarmlessDo, HarmlessConcat
<1>7. /\ Len(report) + 1 \in 1 .. Len(Report(fields))
      /\ Report(fields)[Len(report) + 1] = Do("halt")
  <2>1. report \in Seq(Ops) /\ Do("halt") \in Ops
    BY <1>4, DoIsOp DEF Harmless
  <2>2. /\ Len(Report(fields)) = Len(report) + 1 /\ Len(report) \in Nat
        /\ Report(fields)[Len(report) + 1] = Do("halt")
    BY <1>5, <2>1, OneMore
  <2> QED BY <2>2
<1> QED BY <1>6, <1>7, DoFacts DEF Stops, Harmless

LEMMA HaltNext ==
  ASSUME TInv, LockInv, HaltInv, [Next]_vars
  PROVE  HaltInv'
<1> SUFFICES ASSUME ~Working' PROVE Stops(todo')
  BY DEF HaltInv
<1>1. UNCHANGED trap => Stops(todo)
  <2>1. UNCHANGED trap => ~Working
    BY Zenon DEF Working
  <2> QED BY <2>1 DEF HaltInv
<1>2. trap = "none" => Working
  BY Zenon DEF Working
<1>3. CASE Keystroke
  <2>1. trap = "none" /\ UNCHANGED trap
    BY <1>3, Zenon DEF Keystroke, EraseCharacter, EnterLine, TypeCharacter, GuiKey, Typed, Ready,
                       Handle
  <2> QED BY <2>1, Zenon DEF Working
<1>4. CASE Modifier \/ UNCHANGED vars
  BY <1>1, <1>4, Zenon DEF Modifier, PressShift, ReleaseShift, PressCapsLock, vars, handlerVars
<1>5. CASE Execute \/ (Gui /\ UNCHANGED <<terminalVars, keyboardVars, trap>>)
  <2>1. todo # <<>> /\ Head(todo).op \in {"execute", "gui"} /\ UNCHANGED trap
    <3>1. CASE Execute
      <4>1. \/ Head(todo).op = "execute" /\ todo # <<>> /\ UNCHANGED trap
            \/ Head(todo).op = "gui" /\ todo # <<>> /\ UNCHANGED trap
        BY <3>1, Zenon DEF Execute, EmptyLine, Help, Clear, Info, Shutdown, Uptime, Test,
                           GuiCommand, Echo, Unknown, Run, GuiRefused
      <4> QED BY <4>1
    <3>2. CASE Gui /\ UNCHANGED <<terminalVars, keyboardVars, trap>>
      BY <3>2 DEF Gui
    <3> QED BY <1>5, <3>1, <3>2
  <2>2. Working
    BY <2>1, FreeBefore, Zenon DEF Working
  <2> QED BY <2>1, <2>2, Zenon DEF Working
<1>6. CASE TerminalStep /\ UNCHANGED <<desktopVars, keyboardVars, trap>>
  <2>1. PICK name \in {"acquire", "release", "put", "backspace", "cursor", "color",
                       "paint", "repaint", "reset"} : Perform(name)
    BY <1>6, Zenon DEF TerminalStep, Acquire, Release, Put, Backspace, UpdateCursor, SetColor,
                       Paint, Repaint, Reset
  <2>2. todo # <<>> /\ todo' = Tail(todo) /\ Head(todo).op # "halt"
    BY <2>1 DEF Perform
  <2>3. todo \in Seq(Ops)
    BY DesktopParts
  <2> QED BY <1>1, <1>6, <2>2, <2>3, StopsRest
<1>7. CASE \/ DesktopStep /\ UNCHANGED <<terminalVars, keyboardVars, trap>>
           \/ Returns \/ InterruptsInitialize
  <2>1. PICK name \in {"desktop", "window", "present", "iret", "sti", "idt"} : Perform(name)
    BY <1>7, Zenon DEF DesktopStep, FillDesktop, DrawOneWindow, Present, Returns, Iret, Sti,
                       InterruptsInitialize
  <2>2. todo # <<>> /\ Head(todo).op = name
    BY <2>1 DEF Perform
  <2>3. Working
    BY <2>2, FreeBefore, Zenon DEF Working
  <2>4. UNCHANGED trap \/ trap' = "none"
    BY <1>7, Zenon DEF Returns, InterruptsInitialize
  <2> QED BY <2>3, <2>4, Zenon DEF Working
<1>8. CASE Fault \/ PageFault
  <2>1. PICK fields \in 0 .. 2 : todo' = Report(fields)
    <3>1. CASE Fault
      BY <3>1, Zenon DEF Fault, Raise
    <3>2. CASE PageFault
      <4>1. todo' = Report(2) /\ 2 \in 0 .. 2
        BY <3>2 DEF PageFault, Raise
      <4> QED BY <4>1
    <3> QED BY <1>8, <3>1, <3>2
  <2>2. Stops(Report(fields))
    BY ReportStops
  <2> QED BY <2>1, <2>2, Zenon
<1> QED BY <1>3, <1>4, <1>5, <1>6, <1>7, <1>8, Zenon DEF Next

LEMMA DisplayNext ==
  ASSUME TInv, LockInv, LineInv, DisplayInv, [Next]_vars
  PROVE  DisplayInv'
<1> SUFFICES ASSUME Working', gui_active' PROVE Screened' /\ Stage'
  BY DEF DisplayInv
<1>1. ASSUME UNCHANGED gui_active, UNCHANGED trap \/ Working
      PROVE  Working /\ gui_active /\ Screened /\ Stage
  <2>1. UNCHANGED trap => Working
    BY Zenon DEF Working
  <2> QED BY <1>1, <2>1 DEF DisplayInv
<1>2. CASE Keystroke
  <2>1. UNCHANGED gui_active /\ UNCHANGED trap
    BY <1>2, Zenon DEF Keystroke, EraseCharacter, EnterLine, TypeCharacter, Handle, GuiKey,
                       GuiHandleKey, desktopVars
  <2>2. PICK k \in Keys : GuiKey(k)
    BY <1>1, <1>2, <2>1, Zenon DEF Keystroke, EraseCharacter, EnterLine, TypeCharacter, Typed
  <2> QED BY <1>1, <2>1, <2>2, KeyStage
<1>3. CASE Modifier \/ UNCHANGED vars
  <2>1. /\ UNCHANGED <<todo, windows, focused_window, notes, info, back, hw>>
        /\ UNCHANGED <<gui_active, trap>>
    BY <1>3, Zenon DEF Modifier, PressShift, ReleaseShift, PressCapsLock, vars, handlerVars,
                       desktopVars
  <2>2. Screened /\ Stage
    BY <1>1, <2>1
  <2> QED BY <2>1, <2>2, StageStutters, Zenon
<1>4. CASE Execute
  <2>1. UNCHANGED gui_active /\ UNCHANGED trap
    BY <1>4, Zenon DEF Execute, EmptyLine, Help, Clear, Info, Shutdown, Uptime, Test,
                       GuiCommand, Echo, Unknown, Run, GuiRefused, desktopVars
  <2>2. todo # <<>> /\ (Head(todo).op = "execute" \/ Head(todo).op = "gui")
    BY <1>4, Zenon DEF Execute, EmptyLine, Help, Clear, Info, Shutdown, Uptime, Test,
                       GuiCommand, Echo, Unknown, Run, GuiRefused
  <2> QED BY <1>1, <2>1, <2>2, StageHeads
<1>5. CASE TerminalStep /\ UNCHANGED <<desktopVars, keyboardVars, trap>>
  <2>1. UNCHANGED gui_active /\ UNCHANGED trap
    BY <1>5, Zenon DEF desktopVars
  <2>2. PICK name \in {"acquire", "release", "put", "backspace", "cursor", "color",
                       "paint", "repaint", "reset"} : Perform(name)
    BY <1>5, Zenon DEF TerminalStep, Acquire, Release, Put, Backspace, UpdateCursor, SetColor,
                       Paint, Repaint, Reset
  <2>3. todo # <<>> /\ Head(todo).op = name
    BY <2>2 DEF Perform
  <2> QED BY <1>1, <2>1, <2>3, StageHeads
<1>6. CASE DesktopStep /\ UNCHANGED <<terminalVars, keyboardVars, trap>>
  <2>1. UNCHANGED gui_active /\ UNCHANGED trap
    BY <1>6, Zenon DEF DesktopStep, FillDesktop, DrawOneWindow, Present
  <2>2. Screened /\ Stage
    BY <1>1, <2>1
  <2> QED BY <1>6, <2>2, DesktopStage, Zenon
<1>7. CASE Gui /\ UNCHANGED <<terminalVars, keyboardVars, trap>>
  <2>1. ~gui_active => Line
    <3>1. UNCHANGED trap
      BY <1>7
    <3>2. Working
      BY <3>1, Zenon DEF Working
    <3> QED BY <3>2 DEF LineInv
  <2>2. CASE ~gui_active
    BY <1>7, <2>1, <2>2, GuiStage
  <2>3. CASE gui_active
    <3>1. todo # <<>> /\ Head(todo).op = "gui" /\ gui_active' = TRUE /\ UNCHANGED trap
      BY <1>7 DEF Gui
    <3>2. Stage
      <4>1. Working
        BY <3>1, Zenon DEF Working
      <4> QED BY <2>3, <4>1 DEF DisplayInv
    <3> QED BY <3>1, <3>2, StageHeads
  <2> QED BY <2>2, <2>3
<1>8. CASE Returns \/ InterruptsInitialize
  <2>1. UNCHANGED gui_active
    BY <1>8, Zenon DEF Returns, InterruptsInitialize, desktopVars
  <2>2. CASE Returns
    <3>1. UNCHANGED trap
      BY <2>2, Zenon DEF Returns
    <3>2. Screened /\ Stage
      BY <1>1, <2>1, <3>1
    <3> QED BY <2>2, <3>2, ReturnStage, Zenon
  <2>3. CASE InterruptsInitialize
    <3>1. todo # <<>> /\ Head(todo).op = "idt"
      BY <2>3 DEF InterruptsInitialize, Perform
    <3>2. Working
      BY <3>1, FreeBefore, Zenon DEF Working
    <3> QED BY <1>1, <2>1, <3>1, <3>2, StageHeads
  <2> QED BY <1>8, <2>2, <2>3
<1>9. CASE Fault \/ PageFault
  <2>1. trap' = "locked" \/ trap' = "unlocked"
    BY <1>9, Zenon DEF Fault, PageFault, Raise
  <2> QED BY <2>1, Zenon DEF Working
<1> QED BY <1>2, <1>3, <1>4, <1>5, <1>6, <1>7, <1>8, <1>9, Zenon DEF Next

LEMMA DisplayHolds == Spec => [](TInv /\ DisplayInv /\ HaltInv)
<1>1. Init => DisplayInv /\ HaltInv
  <2> SUFFICES ASSUME Init PROVE ~gui_active /\ Working
    BY DEF DisplayInv, HaltInv
  <2>1. gui_active = FALSE
    BY Zenon DEF Init, DesktopInit
  <2>2. Working
    BY Zenon DEF Init, Working
  <2> QED BY <2>1, <2>2
<1>2. (TInv /\ LockInv /\ LineInv) /\ (DisplayInv /\ HaltInv) /\ [Next]_vars
        => (DisplayInv /\ HaltInv)'
  BY DisplayNext, HaltNext
<1> QED BY <1>1, <1>2, LineHolds, PTL DEF Spec

LEMMA WholeShows ==
  ASSUME NEW f, NEW t, Whole(hw, f, t)
  PROVE  Shows(f, t)
<1> SUFFICES ASSUME NEW p \in DOMAIN hw \ Spill PROVE hw[p] = Picture(f, t, p)
  BY DEF Shows
<1>1. ~Beyond(p)
  BY DEF Spill, Beyond
<1> QED BY <1>1, WholePicture

(* In every mode, with windows of any size that lie apart and any notes:    *)
(* whenever a keystroke has been handled the display shows the windows with *)
(* the focus and the notes as they are.                                     *)
THEOREM DisplayCurrent == Spec => []DisplayIsCurrent
<1>1. TInv /\ DisplayInv /\ HaltInv => DisplayIsCurrent
  <2> SUFFICES ASSUME DisplayInv, HaltInv, gui_active, todo = <<>>
               PROVE  Shows(focused_window, notes)
    BY DEF DisplayIsCurrent, AtRest
  <2>1. Working
    BY DEF HaltInv, Stops
  <2>2. Current
    BY <2>1 DEF DisplayInv, Stage, FirstDrawing, Drawn, NotesAhead, FocusAhead
  <2> QED BY <2>2, WholeShows DEF Current
<1> QED BY <1>1, DisplayHolds, PTL

(* And while one is being handled it shows a whole picture, of the notes    *)
(* before or after the keystroke, with at most one title highlighted.       *)
THEOREM DisplayIsWhole == Spec => []NeverHalfDrawn
<1>1. TInv /\ DisplayInv /\ HaltInv => NeverHalfDrawn
  <2> SUFFICES ASSUME TInv, DisplayInv, gui_active, trap = "none"
               PROVE  \/ Dark(hw)
                      \/ \E f \in 0 .. 3 : \E t \in Neighbours(notes) : Shows(f, t)
    <3>1. 0 .. Len(InOrder) = 0 .. 3
      BY OrderFacts
    <3> QED BY <3>1, Zenon DEF NeverHalfDrawn, Dark, Neighbours
  <2>1. Screened /\ Stage
    <3>1. Working
      BY Zenon DEF Working
    <3> QED BY <3>1 DEF DisplayInv
  <2>2. focused_window \in 0 .. 3 /\ notes \in Neighbours(notes)
    BY <2>1, FocusFacts
  <2>3. ASSUME NEW f \in 0 .. 3, NEW t \in Neighbours(notes), Whole(hw, f, t)
        PROVE  \E e \in 0 .. 3 : \E u \in Neighbours(notes) : Shows(e, u)
    BY <2>3, WholeShows
  <2>4. CASE FirstDrawing
    BY <2>4 DEF FirstDrawing
  <2>5. CASE Drawn
    BY <2>3, <2>5 DEF Drawn
  <2>6. CASE Current
    BY <2>2, <2>3, <2>6 DEF Current
  <2>7. CASE NotesAhead
    BY <2>2, <2>3, <2>7 DEF NotesAhead
  <2>8. ASSUME NEW f \in 1 .. 3, FocusAhead(f)
        PROVE  \E e \in 0 .. 3 : \E u \in Neighbours(notes) : Shows(e, u)
    <3>1. Whole(hw, f, notes) \/ Whole(hw, 0, notes)
      BY <2>8 DEF FocusAhead
    <3>2. f \in 0 .. 3 /\ 0 \in 0 .. 3
      OBVIOUS
    <3> QED BY <2>2, <2>3, <3>1, <3>2
  <2> QED BY <2>1, <2>4, <2>5, <2>6, <2>7, <2>8 DEF Stage
<1> QED BY <1>1, DisplayHolds, PTL
=============================================================================
