------------------------------ MODULE Desktop ------------------------------
(***************************************************************************)
(* The GUI: gui/gui.c and graphics.c, the buffers of io/framebuffer.c and  *)
(* the three windows of the gui command in shell/commands.c.               *)
(*                                                                         *)
(* A pixel's value says what was last painted there.  The window titles    *)
(* and the fixed texts, which fit their windows, are part of the areas     *)
(* they lie in; the text of the Notes window is drawn glyph by glyph.      *)
(***************************************************************************)
EXTENDS Handler

CONSTANTS
  GuiMode,                   \* [width, height] asked for: GUI_WIDTH, GUI_HEIGHT
  GrubModes,                 \* RGB modes a boot loader may have set up
  NoMode,                    \* no such tag, or no RGB mode
  FRAMEBUFFER_VIRTUAL_SIZE,  \* bytes mapped for the hardware's framebuffer
  Geometry,                  \* [x, y, width, height] of each window
  TITLE_BAR_HEIGHT, FONT_GLYPH_SIZE, NOTES_BUFFER_SIZE,
  TextX, TextY,              \* where the notes begin inside the content area
  Printable                  \* characters the Notes window accepts

Windows == {"notes", "welcome", "info"}
InOrder == <<"notes", "welcome", "info">>
PixelBytes == 4

(* Every mode has four bytes a pixel and no gap between rows, and the heap *)
(* has room for the draw buffer: the code relies on both.                  *)
ASSUME DesktopAssumption ==
  /\ GrubModes \cup {GuiMode} \subseteq [width : Nat \ {0}, height : Nat \ {0}]
  /\ NoMode \notin GrubModes
  /\ Geometry \in [Windows -> [x : Nat, y : Nat, width : Nat, height : Nat]]
  /\ {TITLE_BAR_HEIGHT, FONT_GLYPH_SIZE, NOTES_BUFFER_SIZE} \subseteq Nat \ {0}
  /\ {TextX, TextY, FRAMEBUFFER_VIRTUAL_SIZE} \subseteq Nat

VARIABLES
  grub, bochs,      \* the mode of the boot loader's tag; is there a dispi device
  gui_ready, gui_active,
  windows,          \* windows[0 .. window_count - 1], as a sequence
  focused_window,   \* 0 for none (-1 in the code), else the place in windows
  notes,            \* notes_state: text[0 .. length - 1]
  info,             \* the framebuffer's mode, NoMode before it is initialized
  back,             \* the off-screen draw buffer
  hw                \* what the display shows

desktopVars == <<grub, bochs, gui_ready, gui_active, windows, focused_window,
                 notes, info, back, hw>>

Pixels(m) == (0 .. m.width - 1) \X (0 .. m.height - 1)
Size(m) == PixelBytes * m.width * m.height

DesktopOps == [op : {"gui", "desktop", "present"}] \cup
              [op : {"window"}, window : Windows]

-----------------------------------------------------------------------------
(* graphics.c.  A pixel off the screen is dropped: it is not in b's domain. *)
Inside(p, x, y, w, h) == p[1] \in x .. x + w - 1 /\ p[2] \in y .. y + h - 1

FillRect(b, x, y, w, h, v) ==
  [p \in DOMAIN b |-> IF Inside(p, x, y, w, h) THEN v ELSE b[p]]

DrawRect(b, x, y, w, h, v) ==
  [p \in DOMAIN b |-> IF /\ Inside(p, x, y, w, h)
                         /\ ~Inside(p, x + 1, y + 1, w - 2, h - 2)
                      THEN v ELSE b[p]]

(* One glyph after the other to the right, whatever is there. *)
DrawString(b, x, y, s) ==
  [p \in DOMAIN b |->
     IF Inside(p, x, y, FONT_GLYPH_SIZE * Len(s), FONT_GLYPH_SIZE)
     THEN <<s[(p[1] - x) \div FONT_GLYPH_SIZE + 1],
            (p[1] - x) % FONT_GLYPH_SIZE, p[2] - y>>
     ELSE b[p]]

-----------------------------------------------------------------------------
ContentX(g) == g.x + 1
ContentY(g) == g.y + TITLE_BAR_HEIGHT + 2
ContentWidth(g) == g.width - 2
ContentHeight(g) == g.height - TITLE_BAR_HEIGHT - 3

(* The gui command's windows lie apart from each other, and a line of text *)
(* fits the content of the Notes window: shell/commands.c:252-285.         *)
ASSUME WindowsAssumption ==
  /\ \A w \in Windows : Geometry[w].height >= TITLE_BAR_HEIGHT + 2
  /\ \A v, w \in Windows : v # w =>
       \/ Geometry[v].x + Geometry[v].width <= Geometry[w].x
       \/ Geometry[w].x + Geometry[w].width <= Geometry[v].x
       \/ Geometry[v].y + Geometry[v].height <= Geometry[w].y
       \/ Geometry[w].y + Geometry[w].height <= Geometry[v].y
  /\ TextY + FONT_GLYPH_SIZE <= ContentHeight(Geometry["notes"])

TitleOf(w, focused) == IF focused THEN <<w, "focused">> ELSE <<w, "title">>

(* draw_window *)
DrawWindow(b, w, focused) ==
  LET g == Geometry[w]
      filled == FillRect(b, g.x, g.y, g.width, g.height, <<w>>)
      framed == DrawRect(filled, g.x, g.y, g.width, g.height, <<"border">>)
  IN  FillRect(framed, g.x + 1, g.y + 1, g.width - 2, TITLE_BAR_HEIGHT,
               TitleOf(w, focused))

(* notes_window_draw *)
NotesWindowDraw(b) ==
  LET g == Geometry["notes"]
      cleared == FillRect(b, ContentX(g), ContentY(g),
                          ContentWidth(g), ContentHeight(g), <<"notes">>)
  IN  DrawString(cleared, ContentX(g) + TextX, ContentY(g) + TextY, notes)

(* welcome_window_draw and info_window_draw write fixed texts only *)
OnDraw(b, w) == IF w = "notes" THEN NotesWindowDraw(b) ELSE b

HasFocus(w) == focused_window > 0 /\ windows[focused_window] = w

(* The calls, as lists of operations. *)
gui_redraw_window(w) == <<[op |-> "window", window |-> w], Do("present")>>

GuiRenderPresentsEachBug(ws) ==
  <<Do("desktop")>> \o
    [i \in 1 .. 2 * Len(ws) |->
       IF i % 2 = 0 THEN Do("present")
       ELSE [op |-> "window", window |-> ws[(i + 1) \div 2]]]

gui_render(ws) ==
  <<Do("desktop")>> \o [i \in 1 .. Len(ws) |-> [op |-> "window", window |-> ws[i]]]
    \o <<Do("present")>>

-----------------------------------------------------------------------------
DesktopInit ==
  /\ grub \in GrubModes \cup {NoMode}
  /\ bochs \in BOOLEAN
  /\ gui_ready = FALSE
  /\ gui_active = FALSE
  /\ windows = <<>>
  /\ focused_window = 0
  /\ notes = <<>>
  /\ info = NoMode
  /\ back = <<>>
  /\ hw = <<>>

(* framebuffer_initialize: GRUB's mode, else the dispi device's *)
ModeFound == IF grub # NoMode THEN grub ELSE IF bochs THEN GuiMode ELSE NoMode

(* gui_add_window, for the three windows; the first one gets the focus *)
AddWindows ==
  /\ windows' = InOrder
  /\ focused_window' = 1

(* gui: framebuffer_initialize, map_framebuffer, the windows, gui_enter.   *)
(* Its render, and present, are the operations that follow.                *)
Gui ==
  /\ todo # <<>>
  /\ Head(todo).op = "gui"
  /\ ModeFound # NoMode
  /\ info' = ModeFound
  /\ back' = [p \in Pixels(ModeFound) |-> <<"black">>]
  /\ hw' = [p \in Pixels(ModeFound) |-> <<"unknown">>]
  /\ gui_ready' = TRUE
  /\ gui_active' = TRUE
  /\ AddWindows
  /\ todo' = gui_render(windows') \o Tail(todo)
  /\ UNCHANGED <<eif, grub, bochs, notes>>

(* gui_render, the background *)
FillDesktop ==
  /\ Perform("desktop")
  /\ back' = FillRect(back, 0, 0, info.width, info.height, <<"desktop">>)
  /\ UNCHANGED <<eif, grub, bochs, gui_ready, gui_active, windows,
                 focused_window, notes, info, hw>>

(* draw_window and the window's on_draw *)
DrawOneWindow ==
  /\ Perform("window")
  /\ LET w == Head(todo).window
     IN  back' = OnDraw(DrawWindow(back, w, HasFocus(w)), w)
  /\ UNCHANGED <<eif, grub, bochs, gui_ready, gui_active, windows,
                 focused_window, notes, info, hw>>

(* framebuffer_present *)
Present ==
  /\ Perform("present")
  /\ Size(info) <= FRAMEBUFFER_VIRTUAL_SIZE
  /\ hw' = back
  /\ UNCHANGED <<eif, grub, bochs, gui_ready, gui_active, windows,
                 focused_window, notes, info, back>>

(* framebuffer_present copies the whole mode, mapped or not, up to a page  *)
(* fault.                                                                  *)
PresentFaults ==
  /\ todo # <<>>
  /\ Head(todo).op = "present"
  /\ Size(info) > FRAMEBUFFER_VIRTUAL_SIZE
  /\ hw' = [p \in DOMAIN hw |->
              IF PixelBytes * (p[2] * info.width + p[1]) < FRAMEBUFFER_VIRTUAL_SIZE
              THEN back[p] ELSE hw[p]]
  /\ UNCHANGED <<grub, bochs, gui_ready, gui_active, windows, focused_window,
                 notes, info, back>>

DesktopStep == FillDesktop \/ DrawOneWindow \/ Present

-----------------------------------------------------------------------------
FocusNextSkipsRedrawBug ==
  /\ Len(windows) > 1
  /\ focused_window' = (focused_window % Len(windows)) + 1
  /\ todo' = gui_redraw_window(windows[focused_window']) \o <<Do("iret")>>
  /\ UNCHANGED notes

(* gui_focus_next *)
FocusNext ==
  /\ Len(windows) > 1
  /\ focused_window' = (focused_window % Len(windows)) + 1
  /\ todo' = gui_redraw_window(windows[focused_window]) \o
             gui_redraw_window(windows[focused_window']) \o <<Do("iret")>>
  /\ UNCHANGED notes

(* notes_window_key *)
NotesWindowKey(c, backspace) ==
  /\ notes' = IF c = backspace
              THEN IF notes # <<>> THEN SubSeq(notes, 1, Len(notes) - 1) ELSE notes
              ELSE IF c \in Printable /\ Len(notes) < NOTES_BUFFER_SIZE - 1
              THEN Append(notes, c)
              ELSE notes
  /\ todo' = gui_redraw_window("notes") \o <<Do("iret")>>
  /\ UNCHANGED focused_window

(* gui_handle_key: tab moves the focus, the focused window gets the rest *)
GuiHandleKey(c, tab, backspace) ==
  /\ eif' = FALSE
  /\ UNCHANGED <<grub, bochs, gui_ready, gui_active, windows, info, back, hw>>
  /\ \/ c = tab /\ FocusNext
     \/ c # tab /\ HasFocus("notes") /\ NotesWindowKey(c, backspace)
     \/ /\ c # tab /\ ~HasFocus("notes")
        /\ todo' = <<Do("iret")>>
        /\ UNCHANGED <<focused_window, notes>>

-----------------------------------------------------------------------------
DesktopTypeOK ==
  /\ grub \in GrubModes \cup {NoMode}
  /\ bochs \in BOOLEAN /\ gui_ready \in BOOLEAN /\ gui_active \in BOOLEAN
  /\ windows \in {<<>>, InOrder}
  /\ focused_window \in 0 .. Len(windows)
  /\ notes \in Seq(Printable)
  /\ Len(notes) < NOTES_BUFFER_SIZE
  /\ info \in GrubModes \cup {NoMode, GuiMode}
=============================================================================
