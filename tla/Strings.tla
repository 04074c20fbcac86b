------------------------------ MODULE Strings ------------------------------
(***************************************************************************)
(* utils/string.c, a step for each turn of a loop and for each unit that   *)
(* a string instruction moves.  A char is its byte, 0 .. 255; a C string   *)
(* is a sequence of bytes with a 0 in it.  Calls have the fields           *)
(*   a, b    what the pointers point to,                                   *)
(*   n       the count, or the number to convert,                          *)
(*   value   the int that memset gets.                                     *)
(***************************************************************************)
EXTENDS Frame

Byte == 0 .. 255
WordSize == 4
DigitZero == 48    \* '0'
LetterA == 97      \* 'a'
LetterX == 120     \* 'x'
TempSize == IF call.fn = "itoa" THEN 16 ELSE 8

(* A C string ends at its first 0. *)
Terminated(s) ==
  /\ s \in Seq(Byte)
  /\ \E k \in DOMAIN s : s[k] = 0 /\ \A j \in 1 .. k - 1 : s[j] # 0

(* An unsigned int of 32 bits *)
Unsigned(v) == v \in Nat /\ v \div 65536 < 65536

(* Counts are not negative and what they count is there, numbers have 32   *)
(* bits, and who wants a numeral hands over the 11 bytes that the longest  *)
(* ones take, 4294967295 and 0xffffffff with their terminators: the        *)
(* desktop has 12, everybody else 16.                                      *)
ASSUME StringCalls ==
  \A c \in Calls :
    /\ c.fn \in {"strcmp", "strlen"} => Terminated(c.a)
    /\ c.fn = "strcmp" => Terminated(c.b)
    /\ c.fn \in {"memcmp", "memcpy", "memset"} => c.n \in Nat
    /\ c.fn = "memcmp" => /\ c.a \in Seq(Byte) /\ c.n <= Len(c.a)
                          /\ c.b \in Seq(Byte) /\ c.n <= Len(c.b)
    /\ c.fn \in {"memcpy", "memset"} => c.buffer \in Seq(Byte)
    /\ c.fn \in {"itoa", "itoa_hex"} =>
         /\ Unsigned(c.n)
         /\ c.buffer \in Seq(Byte) /\ Len(c.buffer) >= 11

A(k) == call.a[k + 1]
B(k) == call.b[k + 1]

-----------------------------------------------------------------------------
SameSoFarUnterminatedBug == A(i) = B(i)

Signed(c) == IF c < 128 THEN c ELSE c - 256
DifferenceSignedBug(c, d) == Signed(c) - Signed(d)

(* Both functions subtract unsigned chars. *)
Difference(c, d) == c - d

(* strcmp's condition *)
SameSoFar == A(i) # 0 /\ A(i) = B(i)

Strcmp == /\ In("strcmp")
          /\ \/ SameSoFar /\ Advance(1)
             \/ ~SameSoFar /\ Return(Difference(A(i), B(i)))

Strlen == /\ In("strlen")
          /\ \/ A(i) # 0 /\ Advance(1)
             \/ A(i) = 0 /\ Return(i)

(* repe cmpsb, and memcmp after it *)
Memcmp == /\ In("memcmp")
          /\ \/ i < n /\ (i > 0 => A(i - 1) = B(i - 1)) /\ Advance(1)
             \/ n = 0 /\ Return(0)
             \/ /\ i > 0 /\ (i = n \/ A(i - 1) # B(i - 1))
                /\ Return(Difference(A(i - 1), B(i - 1)))

-----------------------------------------------------------------------------
UnitRoundsUpBug == WordSize

(* rep movsl or stosl, then rep movsb or stosb for the remainder *)
Unit == IF i < n - (n % WordSize) THEN WordSize ELSE 1

Write(bytes) ==
  /\ i < n
  /\ buffer' = [k \in DOMAIN buffer |->
                  IF k - 1 \in i .. i + Unit - 1 THEN bytes[k] ELSE buffer[k]]
  /\ i' = i + Unit
  /\ UNCHANGED <<call, n, temp, result, returned>>

Memcpy == /\ In("memcpy")
          /\ \/ Write(call.a)
             \/ i = n /\ Return(0)

(* The value is cut to an unsigned char. *)
Memset == /\ In("memset")
          /\ \/ Write([k \in DOMAIN buffer |-> call.value % 256])
             \/ i = n /\ Return(0)

-----------------------------------------------------------------------------
Base == IF call.fn = "itoa" THEN 10 ELSE 16
Prefix == IF call.fn = "itoa" THEN <<>> ELSE <<DigitZero, LetterX>>
Digit(d) == IF d < 10 THEN DigitZero + d ELSE LetterA + d - 10

(* buffer[j++] for each of the bytes; j is i. *)
Store(bytes) ==
  /\ buffer' = [k \in DOMAIN buffer |->
                  IF k - i \in DOMAIN bytes THEN bytes[k - i] ELSE buffer[k]]
  /\ i' = i + Len(bytes)

StorePrefix == /\ i < Len(Prefix)
               /\ Store(Prefix)
               /\ UNCHANGED <<call, n, temp, result, returned>>

(* A number is converted once the prefix is there. *)
StoreZero == /\ i = Len(Prefix) /\ call.n = 0
             /\ Store(<<DigitZero, 0>>)
             /\ returned' = TRUE
             /\ UNCHANGED <<call, n, temp, result>>

TakeDigit == /\ i = Len(Prefix) /\ n > 0
             /\ temp' = Append(temp, Digit(n % Base))
             /\ n' = n \div Base
             /\ UNCHANGED <<call, i, buffer, result, returned>>

StoreDigitKeepsOrderBug ==
  /\ n = 0 /\ temp # <<>>
  /\ Store(<<Head(temp)>>)
  /\ temp' = Tail(temp)
  /\ UNCHANGED <<call, n, result, returned>>

StoreDigit == /\ n = 0 /\ temp # <<>>
              /\ Store(<<temp[Len(temp)]>>)
              /\ temp' = SubSeq(temp, 1, Len(temp) - 1)
              /\ UNCHANGED <<call, n, result, returned>>

Terminate == /\ n = 0 /\ temp = <<>> /\ i > Len(Prefix)
             /\ Store(<<0>>)
             /\ returned' = TRUE
             /\ UNCHANGED <<call, n, temp, result>>

(* itoa and itoa_hex *)
Itoa == /\ In("itoa") \/ In("itoa_hex")
        /\ StorePrefix \/ StoreZero \/ TakeDigit \/ StoreDigit \/ Terminate

StringsNext == Strcmp \/ Strlen \/ Memcmp \/ Memcpy \/ Memset \/ Itoa

-----------------------------------------------------------------------------
(* What the functions are for, said of the values. *)
Text(s) == LET end == CHOOSE k \in DOMAIN s :
                        s[k] = 0 /\ \A j \in 1 .. k - 1 : s[j] # 0
           IN  SubSeq(s, 1, end - 1)

Before(s, t) ==
  \E k \in 0 .. Len(s) :
    /\ k < Len(t)
    /\ \A j \in 1 .. k : s[j] = t[j]
    /\ k = Len(s) \/ s[k + 1] < t[k + 1]

IsNumeral(s, base, v) ==
  /\ Len(s) > 1 => s[1] # DigitZero
  /\ LET Worth(k) == v \div base ^ (Len(s) - k)
     IN  /\ Worth(1) < base
         /\ \A k \in DOMAIN s : s[k] = Digit(Worth(k) % base)

(* No function reads past the end of a string or of its n bytes, nor       *)
(* writes past the caller's buffer, of 11 bytes or more, or its own array  *)
(* of digits, whose size is for itoa_hex exactly that of the longest       *)
(* number.                                                                 *)
StringsStayInside ==
  /\ call.fn \in {"strcmp", "strlen"} => \A k \in 0 .. i - 1 : A(k) # 0
  /\ call.fn = "strcmp" => \A k \in 0 .. i - 1 : B(k) # 0
  /\ call.fn \in {"memcmp", "memcpy", "memset"} => i <= n
  /\ call.fn \in {"itoa", "itoa_hex"} =>
       i <= Len(buffer) /\ Len(temp) <= TempSize

(* strcmp and memcmp tell equal from different, and the smaller from the   *)
(* larger by unsigned bytes; strlen counts up to the terminator.           *)
Compares ==
  returned =>
    /\ call.fn = "strcmp" =>
         /\ (result = 0) = (Text(call.a) = Text(call.b))
         /\ (result < 0) = Before(Text(call.a), Text(call.b))
    /\ call.fn = "strlen" => result = Len(Text(call.a))
    /\ call.fn = "memcmp" =>
         LET x == SubSeq(call.a, 1, n)
             y == SubSeq(call.b, 1, n)
         IN  (result = 0) = (x = y) /\ (result < 0) = Before(x, y)

(* memcpy and memset write each of the n bytes once, whatever the split    *)
(* into words and remainder, and leave what lies behind them as it was.    *)
Copies ==
  call.fn \in {"memcpy", "memset"} =>
    /\ \A k \in DOMAIN buffer :
         buffer[k] = CASE k > n \/ k > i -> call.buffer[k]
                       [] k <= n /\ k <= i /\ call.fn = "memcpy" -> call.a[k]
                       [] OTHER -> call.value % 256
    /\ returned => i = n

(* itoa and itoa_hex leave the terminated numeral of their number, without *)
(* leading zeros.                                                          *)
Converts ==
  returned /\ call.fn \in {"itoa", "itoa_hex"} =>
    LET s == Text(buffer) IN
      /\ SubSeq(s, 1, Len(Prefix)) = Prefix
      /\ IsNumeral(SubSeq(s, Len(Prefix) + 1, Len(s)), Base, call.n)
=============================================================================
