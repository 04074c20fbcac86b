------------------------------- MODULE Format -------------------------------
(***************************************************************************)
(* write_formatted_locked of io/terminal.c and its twin serial_writef of   *)
(* io/serial.c.  Calls have the fields                                     *)
(*   device  "terminal" or "serial",                                       *)
(*   pieces  what the format is put together from, each [letter, arg]: a   *)
(*           character, with the letter 0, or a directive with its         *)
(*           argument,                                                     *)
(*   a, b    the format and the arguments, from the pieces: an argument    *)
(*           is what it points to, or its value as the only element,       *)
(*   n       0, the number of arguments consumed so far.                   *)
(***************************************************************************)
EXTENDS Strings

Percent == 37
NewLine == 10
Return13 == 13
Letter == [u |-> 117, x |-> 120, s |-> 115, c |-> 99]

(* One sequence made of several *)
Joined(parts) ==
  LET f[k \in 0 .. Len(parts)] == IF k = 0 THEN <<>> ELSE f[k - 1] \o parts[k]
  IN  f[Len(parts)]

(* itoa and itoa_hex, as Converts has them *)
Numeral(base, v) ==
  LET length == IF v = 0 THEN 1
                ELSE CHOOSE l \in 1 .. 10 : v \div base ^ (l - 1) \in 1 .. base - 1
  IN  [k \in 1 .. length |-> Digit((v \div base ^ (length - k)) % base)]

(* serial_write: up to the terminator, and '\n' goes out as "\r\n". *)
SerialWrite(str) ==
  LET s == Text(str)
  IN  Joined([k \in DOMAIN s |->
                IF s[k] = NewLine THEN <<Return13, NewLine>> ELSE <<s[k]>>])

(* Every character goes to the screen as it is, the serial line gets them  *)
(* as a string: nothing of the character 0.                                *)
Sent(s) == IF call.device = "serial" THEN SerialWrite(s \o <<0>>) ELSE s

Send(s) == temp' = temp \o Sent(s)

-----------------------------------------------------------------------------
(* The switch behind a '%': what is shown of the next argument *)
Shown(letter, arg) ==
  CASE letter = Letter["u"] -> Numeral(10, arg[1])
    [] letter = Letter["x"] -> <<DigitZero, LetterX>> \o Numeral(16, arg[1])
    [] letter = Letter["s"] -> Text(arg)
    [] letter = Letter["c"] -> arg

Takes(letter) == letter \in {Letter[f] : f \in DOMAIN Letter}

(* What a piece is in the format, and in the arguments *)
Form(piece) == IF piece.letter = 0 THEN piece.arg ELSE <<Percent, piece.letter>>
Args(piece) == IF Takes(piece.letter) THEN <<piece.arg>> ELSE <<>>

(* A format does not end within a directive, and its arguments are of the  *)
(* types that its directives want.                                         *)
ASSUME FormatCalls ==
  \A c \in Calls :
    c.fn = "writef" =>
      /\ c.n = 0 /\ Len(c.pieces) \in Nat
      /\ c.a = Joined([k \in 1 .. Len(c.pieces) |-> Form(c.pieces[k])]) \o <<0>>
      /\ c.b = Joined([k \in 1 .. Len(c.pieces) |-> Args(c.pieces[k])])
      /\ \A k \in 1 .. Len(c.pieces) :
           LET piece == c.pieces[k]
           IN  /\ piece.letter \in Byte
               /\ piece.letter = 0 =>
                    \E u \in Byte \ {0, Percent} : piece.arg = <<u>>
               /\ piece.letter \in {Letter["u"], Letter["x"]} =>
                    Unsigned(piece.arg[1])
               /\ piece.letter = Letter["s"] => Terminated(piece.arg)
               /\ piece.letter = Letter["c"] => \E u \in Byte : piece.arg = <<u>>

PlainCharacter ==
  /\ A(i) \notin {0, Percent}
  /\ Send(<<A(i)>>)
  /\ i' = i + 1
  /\ UNCHANGED n

Conversion ==
  /\ A(i) = Percent
  /\ Takes(A(i + 1))
  /\ Send(Shown(A(i + 1), B(n)))
  /\ n' = n + 1
  /\ i' = i + 2

OtherLetterSilentBug ==
  /\ A(i) = Percent
  /\ ~Takes(A(i + 1))
  /\ Send(<<A(i + 1)>>)
  /\ i' = i + 2
  /\ UNCHANGED n

(* "%%" shows one sign, any other letter is shown with the sign. *)
OtherLetter ==
  /\ A(i) = Percent
  /\ ~Takes(A(i + 1))
  /\ Send(IF A(i + 1) = Percent THEN <<Percent>> ELSE <<Percent, A(i + 1)>>)
  /\ i' = i + 2
  /\ UNCHANGED n

Writef ==
  /\ In("writef")
  /\ \/ /\ PlainCharacter \/ Conversion \/ OtherLetter
        /\ UNCHANGED <<call, buffer, result, returned>>
     \/ A(i) = 0 /\ Return(0)

-----------------------------------------------------------------------------
(* A piece's own meaning, without regard to the format's other characters *)
Meaning(piece) ==
  LET s == IF Takes(piece.letter) THEN Shown(piece.letter, piece.arg)
           ELSE IF piece.letter = 0 THEN piece.arg
           ELSE IF piece.letter = Percent THEN <<Percent>>
           ELSE <<Percent, piece.letter>>
  IN  Sent(s)

(* The output is that of the pieces in their order, each with its own      *)
(* argument, and the scan never passes the end of the format or of the     *)
(* arguments.                                                              *)
Prints ==
  call.fn = "writef" =>
    /\ i < Len(call.a)
    /\ n <= Len(call.b)
    /\ returned =>
         temp = Joined([k \in 1 .. Len(call.pieces) |-> Meaning(call.pieces[k])])
=============================================================================
