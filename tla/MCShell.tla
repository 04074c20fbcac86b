------------------------------ MODULE MCShell ------------------------------
(* The instance of Shell that TLC checks.  Commands have names of one or   *)
(* two characters; the Notes window is narrower than a full note.          *)
EXTENDS Shell, TLC

NormalTable == [A |-> "a", Tab |-> "tab", Enter |-> "newline",
                Backspace |-> "erase", Ctrl |-> "nul"]
ShiftTable == [NormalTable EXCEPT !.A = "A"]
MCKeys == DOMAIN NormalTable
MCCapital == "a" :> "A"

MCCommandLine ==
  [empty |-> <<>>, help |-> <<"a">>, clear |-> <<"tab">>, info |-> <<"a", "a">>,
   shutdown |-> <<"a", "A">>, uptime |-> <<"a", "tab">>,
   test |-> <<"tab", "a">>, gui |-> <<"tab", "tab">>]
MCEchoPrefix == <<"A">>

MCGeometry == [notes |-> [x |-> 0, y |-> 0, width |-> 3, height |-> 5],
               welcome |-> [x |-> 4, y |-> 0, width |-> 4, height |-> 5],
               info |-> [x |-> 0, y |-> 5, width |-> 4, height |-> 5]]
Asked == [width |-> 8, height |-> 10]
Offered == {[width |-> 5, height |-> 8], [width |-> 9, height |-> 10]}

(* What lies on the text screen no longer matters once the GUI is up: only *)
(* an exception writes there, and then only the terminal goes on.          *)
Visible ==
  CASE trap = "none" /\ gui_active ->
         <<todo, eif, desktopVars, keyboardVars, trap>>
    [] trap = "none" /\ ~gui_active ->
         <<handlerVars, terminalVars, keyboardVars, ModeFound, trap>>
    [] OTHER -> <<handlerVars, terminalVars, trap, ModeFound>>
=============================================================================
