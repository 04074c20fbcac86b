--------------------------- MODULE LibraryProofs ---------------------------
(***************************************************************************)
(* Proofs about Library for every call: any strings, any counts and every  *)
(* number of 32 bits.                                                      *)
(***************************************************************************)
EXTENDS Library, TLAPS, SequenceTheorems, WellFoundedInduction

-----------------------------------------------------------------------------
(* A step belongs to the function that was called. *)

LEMMA StepOfCall ==
  ASSUME [Next]_frame
  PROVE  /\ call' = call
         /\ \/ UNCHANGED frame
            \/ In("strcmp") /\ Strcmp
            \/ In("strlen") /\ Strlen
            \/ In("memcmp") /\ Memcmp
            \/ In("memcpy") /\ Memcpy
            \/ In("memset") /\ Memset
            \/ (In("itoa") \/ In("itoa_hex")) /\ Itoa
            \/ call.fn \in {"writef", "multiboot_find_tag", "memory_get_kb", "find_vga"}
<1>1. \/ UNCHANGED frame
      \/ In("strcmp") /\ Strcmp
      \/ In("strlen") /\ Strlen
      \/ In("memcmp") /\ Memcmp
      \/ In("memcpy") /\ Memcpy
      \/ In("memset") /\ Memset
      \/ (In("itoa") \/ In("itoa_hex")) /\ Itoa
      \/ Writef \/ FindTag \/ GetKb \/ FindVga
  BY Zenon DEF Next, StringsNext, DiscoveryNext, Strcmp, Strlen, Memcmp, Memcpy, Memset, Itoa
<1>2. Writef \/ FindTag \/ GetKb \/ FindVga =>
        call.fn \in {"writef", "multiboot_find_tag", "memory_get_kb", "find_vga"}
  BY Zenon DEF Writef, FindTag, GetKb, FindVga, In
<1>3. call' = call
  <2>1. CASE UNCHANGED frame
    BY <2>1, Zenon DEF frame
  <2>2. CASE Strcmp \/ Strlen \/ Memcmp
    BY <2>2, Zenon DEF Strcmp, Strlen, Memcmp, Advance, Return
  <2>3. CASE Memcpy \/ Memset
    BY <2>3, Zenon DEF Memcpy, Memset, Write, Return
  <2>4. CASE Itoa
    BY <2>4, Zenon DEF Itoa, StorePrefix, StoreZero, TakeDigit, StoreDigit, Terminate
  <2>5. CASE Writef
    BY <2>5, Zenon DEF Writef, Return
  <2>6. CASE FindTag \/ GetKb \/ FindVga
    BY <2>6, Zenon DEF FindTag, GetKb, FindVga, SkipSlot, Advance, Return
  <2> QED BY <1>1, <2>1, <2>2, <2>3, <2>4, <2>5, <2>6
<1> QED BY <1>1, <1>2, <1>3, Zenon

-----------------------------------------------------------------------------
(* memcpy and memset.  While words are left, the offset is a multiple of   *)
(* the word's size, so the last word ends within the n bytes.              *)
Words == n - (n % WordSize)

Pattern(k) == IF call.fn = "memcpy" THEN call.a[k] ELSE call.value % 256

CopyInv ==
  call.fn \in {"memcpy", "memset"} =>
    /\ n \in Nat /\ n = call.n /\ i \in 0 .. n
    /\ i < Words => i % WordSize = 0
    /\ Len(call.buffer) \in Nat
    /\ DOMAIN buffer = 1 .. Len(call.buffer)
    /\ \A k \in 1 .. Len(call.buffer) :
         buffer[k] = IF k > i THEN call.buffer[k] ELSE Pattern(k)
    /\ returned => i = n

LEMMA UnitFits ==
  ASSUME NEW m \in Nat, NEW j \in 0 .. m, j < m - (m % 4) => j % 4 = 0
  PROVE  /\ j < m - (m % 4) => j + 4 <= m /\ (j + 4) % 4 = 0
         /\ j >= m - (m % 4) => ~(j + 1 < m - (m % 4))
<1>1. /\ m % 4 \in 0 .. 3 /\ m = 4 * (m \div 4) + (m % 4) /\ m \div 4 \in Nat
      /\ j = 4 * (j \div 4) + (j % 4) /\ j \div 4 \in Nat
  OBVIOUS
<1>2. ASSUME j < m - (m % 4) PROVE j + 4 <= m /\ (j + 4) % 4 = 0
  <2>1. j = 4 * (j \div 4) /\ m - (m % 4) = 4 * (m \div 4)
    BY <1>1, <1>2
  <2>2. j \div 4 < m \div 4
    BY <1>1, <1>2, <2>1
  <2>3. j + 4 <= m
    BY <1>1, <2>1, <2>2
  <2> QED BY <1>2, <2>3
<1>3. ASSUME j >= m - (m % 4) PROVE ~(j + 1 < m - (m % 4))
  BY <1>1, <1>3
<1> QED BY <1>2, <1>3

LEMMA CopyInit == Called => CopyInv
<1> SUFFICES ASSUME Called, call.fn \in {"memcpy", "memset"}
             PROVE  /\ n \in Nat /\ n = call.n /\ i \in 0 .. n
                    /\ i < Words => i % WordSize = 0
                    /\ Len(call.buffer) \in Nat
                    /\ DOMAIN buffer = 1 .. Len(call.buffer)
                    /\ \A k \in 1 .. Len(call.buffer) :
                         buffer[k] = IF k > i THEN call.buffer[k] ELSE Pattern(k)
                    /\ ~returned
  BY Zenon DEF CopyInv
<1>1. call \in Calls /\ i = 0 /\ n = call.n /\ buffer = call.buffer /\ ~returned
  BY DEF Called
<1>2. call.n \in Nat /\ call.buffer \in Seq(Byte)
  BY <1>1, StringCalls
<1>3. Len(call.buffer) \in Nat /\ DOMAIN call.buffer = 1 .. Len(call.buffer)
  BY <1>2
<1>4. i % WordSize = 0
  BY <1>1 DEF WordSize
<1> QED BY <1>1, <1>2, <1>3, <1>4

LEMMA CopyNext == CopyInv /\ [Next]_frame => CopyInv'
<1> SUFFICES ASSUME CopyInv, [Next]_frame, call.fn \in {"memcpy", "memset"}
             PROVE  CopyInv'
  BY StepOfCall, Zenon DEF CopyInv
<1>1. /\ n \in Nat /\ n = call.n /\ i \in 0 .. n
      /\ i < Words => i % WordSize = 0
      /\ Len(call.buffer) \in Nat
      /\ DOMAIN buffer = 1 .. Len(call.buffer)
      /\ \A k \in 1 .. Len(call.buffer) :
           buffer[k] = IF k > i THEN call.buffer[k] ELSE Pattern(k)
      /\ returned => i = n
  BY DEF CopyInv
<1>2. /\ call' = call
      /\ \/ UNCHANGED frame
         \/ In("memcpy") /\ Memcpy
         \/ In("memset") /\ Memset
  BY StepOfCall DEF In
<1>3. \A k : Pattern(k)' = Pattern(k)
  BY <1>2, Zenon DEF Pattern
<1>4. ASSUME UNCHANGED <<call, i, n, buffer>>, returned' => i = n PROVE CopyInv'
  BY <1>1, <1>3, <1>4 DEF CopyInv, Words
<1>5. ASSUME NEW bytes, Write(bytes), \A k \in 1 .. Len(call.buffer) : bytes[k] = Pattern(k),
             ~returned
      PROVE  CopyInv'
  <2>1. /\ i < n /\ i' = i + Unit /\ UNCHANGED <<call, n, returned>>
        /\ buffer' = [k \in DOMAIN buffer |->
                        IF k - 1 \in i .. i + Unit - 1 THEN bytes[k] ELSE buffer[k]]
    BY <1>5, Zenon DEF Write
  <2>2. /\ Unit \in {1, 4} /\ i + Unit <= n
        /\ i + Unit < Words => (i + Unit) % WordSize = 0
    <3>1. CASE i < Words
      BY <1>1, <3>1, UnitFits DEF Unit, Words, WordSize
    <3>2. CASE ~(i < Words)
      BY <1>1, <2>1, <3>2, UnitFits DEF Unit, Words, WordSize
    <3> QED BY <3>1, <3>2
  <2>3. DOMAIN buffer' = 1 .. Len(call.buffer)
    BY <1>1, <2>1
  <2>4. ASSUME NEW k \in 1 .. Len(call.buffer)
        PROVE  buffer'[k] = IF k > i' THEN call.buffer[k] ELSE Pattern(k)
    <3>1. k \in Int /\ i \in Int /\ i' = i + Unit /\ Unit \in Int
      BY <1>1, <2>1, <2>2
    <3>2. buffer'[k] = IF k - 1 \in i .. i + Unit - 1 THEN bytes[k] ELSE buffer[k]
      BY <1>1, <2>1
    <3>3. CASE k > i + Unit
      BY <1>1, <2>2, <3>1, <3>2, <3>3
    <3>4. CASE k <= i
      BY <1>1, <2>2, <3>1, <3>2, <3>4
    <3>5. CASE k > i /\ k <= i + Unit
      BY <1>5, <3>1, <3>2, <3>5
    <3> QED BY <3>1, <3>3, <3>4, <3>5
  <2>5. i' \in 0 .. n /\ (i' < Words => i' % WordSize = 0)
    BY <1>1, <2>1, <2>2
  <2>6. Words' = Words
    BY <2>1 DEF Words
  <2> QED BY <1>1, <1>3, <1>5, <2>1, <2>3, <2>4, <2>5, <2>6 DEF CopyInv
<1>6. CASE UNCHANGED frame
  BY <1>1, <1>4, <1>6 DEF frame
<1>7. CASE In("memcpy") /\ Memcpy
  <2>1. CASE i = n /\ Return(0)
    BY <1>4, <2>1 DEF Return
  <2>2. CASE Write(call.a)
    <3>1. \A k : call.a[k] = Pattern(k)
      BY <1>7 DEF In, Pattern
    <3> QED BY <1>5, <1>7, <2>2, <3>1 DEF In
  <2> QED BY <1>7, <2>1, <2>2 DEF Memcpy
<1>8. CASE In("memset") /\ Memset
  <2>1. CASE i = n /\ Return(0)
    BY <1>4, <2>1 DEF Return
  <2>2. CASE Write([k \in DOMAIN buffer |-> call.value % 256])
    <3>1. \A k \in 1 .. Len(call.buffer) :
            [j \in DOMAIN buffer |-> call.value % 256][k] = Pattern(k)
      BY <1>1, <1>8 DEF In, Pattern
    <3> QED BY <1>5, <1>8, <2>2, <3>1 DEF In
  <2> QED BY <1>8, <2>1, <2>2 DEF Memset
<1> QED BY <1>2, <1>6, <1>7, <1>8

(* For every count, aligned or not: the n bytes are written, each with its *)
(* own value, nothing behind them is, and the call ends with the last one. *)
THEOREM CopiesExactly == Spec => []Copies
<1>1. CopyInv => Copies
  <2> SUFFICES ASSUME CopyInv, call.fn \in {"memcpy", "memset"}
               PROVE  /\ \A k \in DOMAIN buffer :
                           buffer[k] = CASE k > n \/ k > i -> call.buffer[k]
                                         [] k <= n /\ k <= i /\ call.fn = "memcpy" -> call.a[k]
                                         [] OTHER -> call.value % 256
                      /\ returned => i = n
    BY Zenon DEF Copies
  <2>1. /\ n \in Nat /\ i \in 0 .. n
        /\ DOMAIN buffer = 1 .. Len(call.buffer)
        /\ \A k \in 1 .. Len(call.buffer) :
             buffer[k] = IF k > i THEN call.buffer[k] ELSE Pattern(k)
        /\ returned => i = n
    BY DEF CopyInv
  <2>2. ASSUME NEW k \in 1 .. Len(call.buffer)
        PROVE  buffer[k] = CASE k > n \/ k > i -> call.buffer[k]
                             [] k <= n /\ k <= i /\ call.fn = "memcpy" -> call.a[k]
                             [] OTHER -> call.value % 256
    <3>1. k > n => k > i
      BY <2>1
    <3>2. CASE k > i
      BY <2>1, <3>1, <3>2
    <3>3. CASE ~(k > i)
      BY <2>1, <3>1, <3>3 DEF Pattern
    <3> QED BY <3>2, <3>3
  <2> QED BY <2>1, <2>2
<1> QED BY <1>1, CopyInit, CopyNext, PTL DEF Spec
-----------------------------------------------------------------------------
(* itoa and itoa_hex.  A number below Limit(d) has at most d digits: the   *)
(* digits in temp, those stored and those to come are never more than the  *)
(* longest number has, ten and eight.                                      *)
MostDigits == IF call.fn = "itoa" THEN 10 ELSE 8

Limit(base, d) ==
  IF base = 10
  THEN CASE d = 0 -> 1 [] d = 1 -> 10 [] d = 2 -> 100 [] d = 3 -> 1000
         [] d = 4 -> 10000 [] d = 5 -> 100000 [] d = 6 -> 1000000
         [] d = 7 -> 10000000 [] d = 8 -> 100000000 [] d = 9 -> 1000000000
         [] OTHER -> 10000000000
  ELSE CASE d = 0 -> 1 [] d = 1 -> 16 [] d = 2 -> 256 [] d = 3 -> 4096
         [] d = 4 -> 65536 [] d = 5 -> 1048576 [] d = 6 -> 16777216
         [] d = 7 -> 268435456 [] OTHER -> 4294967296

(* The prefix's share of what is stored so far is subtracted. *)
Stored == IF i < Len(Prefix) THEN 0 ELSE i - Len(Prefix)

DigitsInv ==
  call.fn \in {"itoa", "itoa_hex"} =>
    /\ n \in Nat /\ i \in Nat
    /\ temp \in Seq(Byte)
    /\ temp # <<>> => i >= Len(Prefix)
    /\ i < Len(Prefix) => i = 0
    /\ buffer \in Seq(Byte) /\ Len(buffer) >= 11
    /\ ~returned => \E d \in 0 .. MostDigits :
         n < Limit(Base, d) /\ Stored + Len(temp) + d <= MostDigits
    /\ returned => i <= Len(Prefix) + MostDigits + 1 /\ Len(temp) <= MostDigits

LEMMA PrefixLength ==
  ASSUME call.fn \in {"itoa", "itoa_hex"}
  PROVE  /\ Len(Prefix) \in {0, 2} /\ Base \in {10, 16}
         /\ call.fn = "itoa" => Len(Prefix) = 0 /\ Base = 10 /\ MostDigits = 10 /\ TempSize = 16
         /\ call.fn = "itoa_hex" => Len(Prefix) = 2 /\ Base = 16 /\ MostDigits = 8 /\ TempSize = 8
  BY DEF Prefix, Base, MostDigits, TempSize

LEMMA LastTaken ==
  ASSUME NEW s \in Seq(Byte), s # <<>>
  PROVE  /\ SubSeq(s, 1, Len(s) - 1) \in Seq(Byte)
         /\ Len(SubSeq(s, 1, Len(s) - 1)) = Len(s) - 1
<1>1. Len(s) \in Nat /\ Len(s) # 0
  OBVIOUS
<1>2. Len(s) - 1 \in Nat /\ Len(s) - 1 <= Len(s)
  BY <1>1
<1>3. SubSeq(s, 1, Len(s) - 1) \in Seq(Byte)
  BY <1>1, <1>2
<1>4. ASSUME NEW m \in Nat, m <= Len(s) PROVE Len(SubSeq(s, 1, m)) = m
  <2>1. 1 \in Int /\ m \in Int /\ \A k \in 1 .. m : s[k] \in Byte
    BY <1>1, <1>4
  <2>2. Len(SubSeq(s, 1, m)) = IF 1 <= m THEN m - 1 + 1 ELSE 0
    BY <2>1, SubSeqProperties, SMT
  <2> QED BY <2>2
<1> QED BY <1>2, <1>3, <1>4

(* One digit less *)
LEMMA LimitShrinks ==
  ASSUME NEW m \in Nat \ {0}, NEW most, NEW d \in 0 .. most, NEW base,
         (base = 10 /\ most = 10) \/ (base = 16 /\ most = 8), m < Limit(base, d)
  PROVE  d - 1 \in 0 .. most /\ m \div base < Limit(base, d - 1)
<1>1. CASE base = 10 /\ most = 10
  <2>1. d \in 0 .. 10
    BY <1>1
  <2>2. d # 0
    BY <1>1 DEF Limit
  <2>3. CASE d \in {1, 2, 3}
    BY <1>1, <2>3 DEF Limit
  <2>4. CASE d \in {4, 5, 6}
    BY <1>1, <2>4 DEF Limit
  <2>5. CASE d \in {7, 8}
    BY <1>1, <2>5 DEF Limit
  <2>6. CASE d \in {9, 10}
    BY <1>1, <2>6 DEF Limit
  <2> QED BY <2>1, <2>2, <2>3, <2>4, <2>5, <2>6
<1>2. CASE base = 16 /\ most = 8
  <2>1. d \in 0 .. 8
    BY <1>2
  <2>2. d # 0
    BY <1>2 DEF Limit
  <2>3. CASE d \in {1, 2, 3, 4}
    BY <1>2, <2>3 DEF Limit
  <2>4. CASE d \in {5, 6, 7, 8}
    BY <1>2, <2>4 DEF Limit
  <2> QED BY <2>1, <2>2, <2>3, <2>4
<1> QED BY <1>1, <1>2

LEMMA DigitsInit == Called => DigitsInv
<1> SUFFICES ASSUME Called, call.fn \in {"itoa", "itoa_hex"} PROVE DigitsInv
  BY DEF DigitsInv
<1>1. /\ call \in Calls /\ i = 0 /\ n = call.n /\ temp = <<>>
      /\ buffer = call.buffer /\ ~returned
  BY DEF Called
<1>2. n \in Nat /\ n \div 65536 < 65536 /\ buffer \in Seq(Byte) /\ Len(buffer) >= 11
  BY <1>1, StringCalls DEF Unsigned
<1>3. n < 4294967296
  BY <1>2
<1>4. MostDigits \in 0 .. MostDigits /\ n < Limit(Base, MostDigits)
  BY <1>2, <1>3 DEF MostDigits, Base, Limit
<1>5. Stored = 0
  BY <1>1, PrefixLength DEF Stored
<1>6. temp \in Seq(Byte) /\ Len(temp) = 0
  BY <1>1
<1>7. Stored + Len(temp) + MostDigits <= MostDigits
  BY <1>5, <1>6, PrefixLength
<1>8. buffer \in Seq(Byte)
  BY <1>2
<1> QED BY <1>1, <1>2, <1>4, <1>6, <1>7, <1>8 DEF DigitsInv

LEMMA StoreKeepsSize ==
  ASSUME NEW bytes \in Seq(Byte), Store(bytes), i \in Nat, buffer \in Seq(Byte)
  PROVE  /\ buffer' \in Seq(Byte) /\ Len(buffer') = Len(buffer)
         /\ i' = i + Len(bytes)
<1>1. /\ buffer' = [k \in DOMAIN buffer |->
                      IF k - i \in DOMAIN bytes THEN bytes[k - i] ELSE buffer[k]]
      /\ i' = i + Len(bytes)
  BY DEF Store
<1>2. DOMAIN buffer = 1 .. Len(buffer) /\ Len(buffer) \in Nat
  OBVIOUS
<1>3. ASSUME NEW k \in DOMAIN buffer
      PROVE  (IF k - i \in DOMAIN bytes THEN bytes[k - i] ELSE buffer[k]) \in Byte
  BY <1>2
<1>4. buffer' \in [1 .. Len(buffer) -> Byte]
  BY <1>1, <1>2, <1>3
<1> QED BY <1>1, <1>2, <1>4

LEMMA DigitsNext == DigitsInv /\ [Next]_frame => DigitsInv'
<1> SUFFICES ASSUME DigitsInv, [Next]_frame, call.fn \in {"itoa", "itoa_hex"}
             PROVE  DigitsInv'
  BY StepOfCall, Zenon DEF DigitsInv
<1>1. /\ n \in Nat /\ i \in Nat
      /\ temp \in Seq(Byte)
      /\ temp # <<>> => i >= Len(Prefix)
      /\ i < Len(Prefix) => i = 0
      /\ buffer \in Seq(Byte) /\ Len(buffer) >= 11
      /\ ~returned => \E d \in 0 .. MostDigits :
           n < Limit(Base, d) /\ Stored + Len(temp) + d <= MostDigits
      /\ returned => i <= Len(Prefix) + MostDigits + 1 /\ Len(temp) <= MostDigits
  BY DEF DigitsInv
<1>2. /\ call' = call
      /\ \/ UNCHANGED frame
         \/ ~returned /\ Itoa
  BY StepOfCall DEF In
<1>3. Prefix' = Prefix /\ MostDigits' = MostDigits /\ Base' = Base
  BY <1>2 DEF Prefix, MostDigits, Base
<1>4. CASE UNCHANGED frame
  <2>1. UNCHANGED <<i, n, temp, buffer, returned>> /\ Stored' = Stored
    BY <1>3, <1>4 DEF frame, Stored
  <2> QED BY <1>1, <1>3, <2>1 DEF DigitsInv
<1>5. CASE ~returned /\ Itoa
  <2>1. PICK d \in 0 .. MostDigits :
          n < Limit(Base, d) /\ Stored + Len(temp) + d <= MostDigits
    BY <1>1, <1>5
  <2>2. /\ Len(Prefix) \in {0, 2}
        /\ (Base = 10 /\ MostDigits = 10) \/ (Base = 16 /\ MostDigits = 8)
    BY PrefixLength
  <2>3. Prefix \in Seq(Byte)
    <3>1. DigitZero \in Byte /\ LetterX \in Byte
      BY DEF DigitZero, LetterX, Byte
    <3>2. <<>> \in Seq(Byte) /\ <<DigitZero, LetterX>> \in Seq(Byte)
      BY <3>1
    <3> QED BY <3>2 DEF Prefix
  <2>4. \A x \in 0 .. 15 : Digit(x) \in Byte
    BY DEF Digit, DigitZero, LetterA, Byte
  <2>5. /\ Stored \in Nat
        /\ i < Len(Prefix) => Stored = 0
        /\ i >= Len(Prefix) => Stored = i - Len(Prefix)
        /\ i' \in Nat /\ i' >= Len(Prefix) => Stored' = i' - Len(Prefix)
    BY <1>1, <1>3, <2>2 DEF Stored
  <2>11. ASSUME /\ n' \in Nat /\ i' \in Nat /\ temp' \in Seq(Byte)
                /\ i' >= Len(Prefix)
                /\ buffer' \in Seq(Byte) /\ Len(buffer') = Len(buffer)
         PROVE  /\ n' \in Nat /\ i' \in Nat /\ temp' \in Seq(Byte)
                /\ temp' # <<>> => i' >= Len(Prefix)
                /\ i' < Len(Prefix) => i' = 0
                /\ buffer' \in Seq(Byte) /\ Len(buffer') >= 11
    BY <1>1, <2>2, <2>11
  <2>12. ASSUME /\ n' \in Nat /\ i' \in Nat /\ temp' \in Seq(Byte)
                /\ i' >= Len(Prefix)
                /\ buffer' \in Seq(Byte) /\ Len(buffer') = Len(buffer),
                ~returned', NEW e \in 0 .. MostDigits,
                n' < Limit(Base, e), Stored' + Len(temp') + e <= MostDigits
         PROVE  DigitsInv'
    BY <1>3, <2>11, <2>12, Zenon DEF DigitsInv
  <2>13. ASSUME /\ n' \in Nat /\ i' \in Nat /\ temp' \in Seq(Byte)
                /\ i' >= Len(Prefix)
                /\ buffer' \in Seq(Byte) /\ Len(buffer') = Len(buffer),
                returned',
                i' <= Len(Prefix) + MostDigits + 1, Len(temp') <= MostDigits
         PROVE  DigitsInv'
    BY <1>3, <2>11, <2>13, Zenon DEF DigitsInv
  <2>14. /\ MostDigits \in Nat /\ d \in Nat /\ Len(Prefix) \in Nat
         /\ Len(temp) \in Nat /\ i \in Nat /\ Stored \in Nat
    BY <1>1, <2>2, <2>5
  <2>15. Len(temp) <= MostDigits /\ Stored <= MostDigits
    BY <2>1, <2>14
  <2>6. CASE StorePrefix
    <3>1. i < Len(Prefix) /\ Store(Prefix) /\ UNCHANGED <<n, temp, returned>>
      BY <2>6, Zenon DEF StorePrefix
    <3>2. buffer' \in Seq(Byte) /\ Len(buffer') = Len(buffer) /\ i' = i + Len(Prefix)
      BY <1>1, <2>3, <3>1, StoreKeepsSize
    <3>3. Len(temp) = 0 /\ Stored = 0 /\ i = 0
      BY <1>1, <2>2, <2>5, <3>1
    <3>4. i' \in Nat /\ i' = Len(Prefix) /\ Stored' = 0
      BY <2>2, <2>5, <3>2, <3>3
    <3>5. Stored' + Len(temp') + d <= MostDigits
      BY <2>1, <3>1, <3>3, <3>4
    <3>6. ~returned' /\ n' = n /\ temp' = temp
      BY <1>5, <3>1
    <3>7. i' >= Len(Prefix) /\ temp' \in Seq(Byte) /\ n' \in Nat /\ n' < Limit(Base, d)
      BY <1>1, <2>1, <2>2, <3>4, <3>6
    <3> QED BY <2>12, <3>2, <3>4, <3>5, <3>6, <3>7, Zenon
  <2>7. CASE StoreZero
    <3>1. i = Len(Prefix) /\ Store(<<DigitZero, 0>>) /\ returned' /\ UNCHANGED <<n, temp>>
      BY <2>7, Zenon DEF StoreZero
    <3>2. <<DigitZero, 0>> \in Seq(Byte) /\ Len(<<DigitZero, 0>>) = 2
      BY DEF DigitZero, Byte
    <3>3. buffer' \in Seq(Byte) /\ Len(buffer') = Len(buffer) /\ i' = i + 2
      BY <1>1, <3>1, <3>2, StoreKeepsSize
    <3>4. n' \in Nat /\ temp' \in Seq(Byte) /\ Len(temp') <= MostDigits
      BY <1>1, <2>15, <3>1
    <3>5. i' \in Nat /\ i' >= Len(Prefix) /\ i' <= Len(Prefix) + MostDigits + 1
      BY <2>2, <2>14, <3>1, <3>3
    <3> QED BY <2>13, <3>1, <3>3, <3>4, <3>5, Zenon
  <2>8. CASE TakeDigit
    <3>1. /\ i = Len(Prefix) /\ n > 0 /\ temp' = Append(temp, Digit(n % Base))
          /\ n' = n \div Base /\ UNCHANGED <<i, buffer, returned>>
      BY <2>8, Zenon DEF TakeDigit
    <3>2. n % Base \in 0 .. 15 /\ n' \in Nat
      <4>1. CASE Base = 10
        BY <1>1, <3>1, <4>1
      <4>2. CASE Base = 16
        BY <1>1, <3>1, <4>2
      <4> QED BY <2>2, <4>1, <4>2
    <3>3. temp' \in Seq(Byte) /\ Len(temp') = Len(temp) + 1
      <4>1. Digit(n % Base) \in Byte
        BY <2>4, <3>2
      <4> QED BY <1>1, <3>1, <4>1
    <3>4. d - 1 \in 0 .. MostDigits /\ n \div Base < Limit(Base, d - 1)
      BY <1>1, <2>1, <2>2, <3>1, LimitShrinks
    <3>5. Stored = 0 /\ Stored' = 0
      BY <1>1, <2>2, <2>5, <3>1
    <3>6. Stored' + Len(temp') + (d - 1) <= MostDigits
      BY <1>1, <2>1, <2>2, <3>3, <3>5
    <3>7. n' < Limit(Base, d - 1)
      BY <3>1, <3>4
    <3>8. i' \in Nat /\ i' >= Len(Prefix) /\ ~returned' /\ buffer' = buffer
      BY <1>1, <1>5, <2>2, <3>1
    <3>9. buffer' \in Seq(Byte) /\ Len(buffer') = Len(buffer)
      BY <1>1, <3>8
    <3> QED BY <2>12, <3>2, <3>3, <3>4, <3>6, <3>7, <3>8, <3>9, Zenon
  <2>9. CASE StoreDigit
    <3>1. /\ temp # <<>> /\ Store(<<temp[Len(temp)]>>)
          /\ temp' = SubSeq(temp, 1, Len(temp) - 1) /\ UNCHANGED <<n, returned>>
      BY <2>9, Zenon DEF StoreDigit
    <3>2. Len(temp) \in Nat \ {0} /\ temp[Len(temp)] \in Byte
      BY <1>1, <3>1
    <3>3. <<temp[Len(temp)]>> \in Seq(Byte) /\ Len(<<temp[Len(temp)]>>) = 1
      BY <3>2
    <3>4. buffer' \in Seq(Byte) /\ Len(buffer') = Len(buffer) /\ i' = i + 1
      BY <1>1, <3>1, <3>3, StoreKeepsSize
    <3>5. temp' \in Seq(Byte) /\ Len(temp') = Len(temp) - 1
      BY <1>1, <3>1, LastTaken
    <3>6. /\ i \in Nat /\ i' \in Nat /\ i' >= Len(Prefix)
          /\ Stored' = Stored + 1
      <4>1. i \in Nat /\ i >= Len(Prefix) /\ Stored = i - Len(Prefix)
        BY <1>1, <2>2, <2>5, <3>1
      <4>2. i' \in Nat /\ i' >= Len(Prefix)
        BY <2>2, <3>4, <4>1
      <4> QED BY <2>2, <2>5, <3>4, <4>1, <4>2
    <3>7. Stored' + Len(temp') + d <= MostDigits
      BY <2>1, <2>2, <2>5, <3>2, <3>5, <3>6
    <3>8. ~returned' /\ n' \in Nat /\ n' < Limit(Base, d)
      BY <1>1, <1>5, <2>1, <3>1
    <3> QED BY <2>12, <3>4, <3>5, <3>6, <3>7, <3>8, Zenon
  <2>10. CASE Terminate
    <3>1. temp = <<>> /\ i > Len(Prefix) /\ Store(<<0>>) /\ returned' /\ UNCHANGED <<n, temp>>
      BY <2>10, Zenon DEF Terminate
    <3>2. <<0>> \in Seq(Byte) /\ Len(<<0>>) = 1
      BY DEF Byte
    <3>3. buffer' \in Seq(Byte) /\ Len(buffer') = Len(buffer) /\ i' = i + 1
      BY <1>1, <3>1, <3>2, StoreKeepsSize
    <3>4. n' \in Nat /\ temp' \in Seq(Byte) /\ Len(temp') <= MostDigits
      BY <1>1, <2>15, <3>1
    <3>5. i >= Len(Prefix) /\ Stored = i - Len(Prefix)
      BY <2>5, <2>14, <3>1
    <3>6. i' \in Nat /\ i' >= Len(Prefix) /\ i' <= Len(Prefix) + MostDigits + 1
      BY <2>14, <2>15, <3>3, <3>5
    <3> QED BY <2>13, <3>1, <3>3, <3>4, <3>6, Zenon
  <2> QED BY <1>5, <2>6, <2>7, <2>8, <2>9, <2>10 DEF Itoa
<1> QED BY <1>2, <1>4, <1>5

-----------------------------------------------------------------------------
(* The functions that compare: what has been passed over was equal and no  *)
(* terminator, and memcmp never passes n.                                  *)
Scans == {"strcmp", "strlen", "memcmp"}

PassedInv ==
  call.fn \in Scans =>
    /\ i \in Nat
    /\ call.fn \in {"strcmp", "strlen"} => \A k \in 0 .. i - 1 : A(k) # 0
    /\ call.fn = "strcmp" => \A k \in 0 .. i - 1 : B(k) # 0
    /\ call.fn = "memcmp" => n \in Nat /\ i <= n

LEMMA PassedInit == Called => PassedInv
<1> SUFFICES ASSUME Called PROVE PassedInv
  OBVIOUS
<1>1. call \in Calls /\ i = 0 /\ n = call.n
  BY DEF Called
<1>2. call.fn = "memcmp" => n \in Nat
  BY <1>1, StringCalls
<1> QED BY <1>1, <1>2 DEF PassedInv

LEMMA PassedNext == PassedInv /\ [Next]_frame => PassedInv'
<1> SUFFICES ASSUME PassedInv, [Next]_frame, call.fn \in Scans PROVE PassedInv'
  BY StepOfCall, Zenon DEF PassedInv
<1>1. /\ i \in Nat
      /\ call.fn \in {"strcmp", "strlen"} => \A k \in 0 .. i - 1 : A(k) # 0
      /\ call.fn = "strcmp" => \A k \in 0 .. i - 1 : B(k) # 0
      /\ call.fn = "memcmp" => n \in Nat /\ i <= n
  BY DEF PassedInv
<1>2. /\ call' = call
      /\ \/ UNCHANGED frame
         \/ In("strcmp") /\ Strcmp
         \/ In("strlen") /\ Strlen
         \/ In("memcmp") /\ Memcmp
  BY StepOfCall DEF In, Scans
<1>3. \A k : A(k)' = A(k) /\ B(k)' = B(k)
  BY <1>2, Zenon DEF A, B
<1>4. ASSUME UNCHANGED <<call, i, n>> PROVE PassedInv'
  BY <1>1, <1>3, <1>4 DEF PassedInv
<1>5. ASSUME i' = i + 1, UNCHANGED <<call, n>>,
             call.fn \in {"strcmp", "strlen"} => A(i) # 0,
             call.fn = "strcmp" => B(i) # 0,
             call.fn = "memcmp" => i < n
      PROVE  PassedInv'
  <2>1. i' \in Nat /\ \A k \in 0 .. i' - 1 : k \in 0 .. i - 1 \/ k = i
    BY <1>1, <1>5
  <2>2. ASSUME call.fn \in {"strcmp", "strlen"}, NEW k \in 0 .. i' - 1 PROVE A(k)' # 0
    BY <1>1, <1>3, <1>5, <2>1, <2>2, Zenon
  <2>3. ASSUME call.fn = "strcmp", NEW k \in 0 .. i' - 1 PROVE B(k)' # 0
    BY <1>1, <1>3, <1>5, <2>1, <2>3, Zenon
  <2>4. call.fn = "memcmp" => n' \in Nat /\ i' <= n'
    BY <1>1, <1>5
  <2> QED BY <1>5, <2>1, <2>2, <2>3, <2>4, Zenon DEF PassedInv
<1>6. CASE UNCHANGED frame
  BY <1>4, <1>6 DEF frame
<1>7. CASE In("strcmp") /\ Strcmp
  <2>1. CASE SameSoFar /\ Advance(1)
    <3>1. A(i) # 0 /\ B(i) # 0 /\ i' = i + 1 /\ UNCHANGED <<call, n>> /\ call.fn = "strcmp"
      BY <1>7, <2>1 DEF SameSoFar, Advance, In
    <3> QED BY <1>5, <3>1
  <2>2. CASE \E r : Return(r)
    BY <1>4, <2>2 DEF Return
  <2> QED BY <1>7, <2>1, <2>2, Zenon DEF Strcmp
<1>8. CASE In("strlen") /\ Strlen
  <2>1. CASE A(i) # 0 /\ Advance(1)
    <3>1. A(i) # 0 /\ i' = i + 1 /\ UNCHANGED <<call, n>> /\ call.fn = "strlen"
      BY <1>8, <2>1 DEF Advance, In
    <3> QED BY <1>5, <3>1
  <2>2. CASE \E r : Return(r)
    BY <1>4, <2>2 DEF Return
  <2> QED BY <1>8, <2>1, <2>2, Zenon DEF Strlen
<1>9. CASE In("memcmp") /\ Memcmp
  <2>1. CASE i < n /\ Advance(1)
    <3>1. i < n /\ i' = i + 1 /\ UNCHANGED <<call, n>> /\ call.fn = "memcmp"
      BY <1>9, <2>1 DEF Advance, In
    <3> QED BY <1>5, <3>1
  <2>2. CASE \E r : Return(r)
    BY <1>4, <2>2 DEF Return
  <2> QED BY <1>9, <2>1, <2>2, Zenon DEF Memcmp
<1> QED BY <1>2, <1>6, <1>7, <1>8, <1>9

(* For all strings and counts and every number of 32 bits: no comparison   *)
(* reads behind a terminator or n, no copy goes beyond n, and no numeral   *)
(* outgrows the 11 bytes handed over or the array of its digits - eight    *)
(* for itoa_hex, of which the largest numbers need every one.              *)
THEOREM StringsInside == Spec => []StringsStayInside
<1>1. PassedInv /\ CopyInv /\ DigitsInv => StringsStayInside
  <2> SUFFICES ASSUME PassedInv, CopyInv, DigitsInv PROVE StringsStayInside
    OBVIOUS
  <2>1. /\ call.fn \in {"strcmp", "strlen"} => \A k \in 0 .. i - 1 : A(k) # 0
        /\ call.fn = "strcmp" => \A k \in 0 .. i - 1 : B(k) # 0
    BY DEF PassedInv, Scans
  <2>2. call.fn = "memcmp" => i <= n
    BY DEF PassedInv, Scans
  <2>3. call.fn \in {"memcpy", "memset"} => i <= n
    BY DEF CopyInv
  <2>4. ASSUME call.fn \in {"itoa", "itoa_hex"}
        PROVE  i <= Len(buffer) /\ Len(temp) <= TempSize
    <3>1. /\ i \in Nat /\ temp \in Seq(Byte)
          /\ buffer \in Seq(Byte) /\ Len(buffer) >= 11
          /\ ~returned => \E d \in 0 .. MostDigits :
               n < Limit(Base, d) /\ Stored + Len(temp) + d <= MostDigits
          /\ returned => i <= Len(Prefix) + MostDigits + 1 /\ Len(temp) <= MostDigits
      BY <2>4, Zenon DEF DigitsInv
    <3>2. /\ Len(Prefix) \in {0, 2} /\ MostDigits \in {8, 10}
          /\ Len(Prefix) = 2 => MostDigits = 8
          /\ MostDigits <= TempSize /\ TempSize \in {8, 16}
      BY <2>4, PrefixLength
    <3>3. Len(buffer) \in Nat /\ Len(temp) \in Nat
      BY <3>1
    <3>4. Stored \in Nat /\ i <= Stored + Len(Prefix)
      BY <3>1, <3>2 DEF Stored
    <3>5. ASSUME ~returned PROVE Stored <= MostDigits /\ Len(temp) <= MostDigits
      <4>1. PICK d \in 0 .. MostDigits : Stored + Len(temp) + d <= MostDigits
        BY <3>1, <3>5, Zenon
      <4>2. d \in Nat /\ MostDigits \in Nat
        BY <3>2
      <4> QED BY <3>3, <3>4, <4>1, <4>2
    <3>6. i <= Len(Prefix) + MostDigits + 1 /\ Len(temp) <= MostDigits
      <4>1. CASE returned
        BY <3>1, <4>1, Zenon
      <4>2. CASE ~returned
        <5>1. Stored <= MostDigits /\ Len(temp) <= MostDigits
          BY <3>5, <4>2, Zenon
        <5>2. i <= Len(Prefix) + MostDigits + 1
          BY <3>1, <3>2, <3>4, <5>1
        <5> QED BY <5>1, <5>2
      <4> QED BY <4>1, <4>2, Zenon
    <3>7. Len(Prefix) + MostDigits + 1 <= 11 /\ Len(Prefix) + MostDigits \in Nat
      <4>1. CASE Len(Prefix) = 0 /\ MostDigits = 8
        BY <4>1
      <4>2. CASE Len(Prefix) = 0 /\ MostDigits = 10
        BY <4>2
      <4>3. CASE Len(Prefix) = 2 /\ MostDigits = 8
        BY <4>3
      <4> QED BY <3>2, <4>1, <4>2, <4>3
    <3>8. i \in Nat /\ Len(buffer) >= 11
      BY <3>1, Zenon
    <3>9. i <= Len(buffer)
      BY <3>3, <3>6, <3>7, <3>8
    <3>10. MostDigits \in Nat /\ TempSize \in Nat /\ MostDigits <= TempSize
      BY <3>2
    <3>11. Len(temp) <= TempSize
      BY <3>3, <3>6, <3>10
    <3> QED BY <3>9, <3>11
  <2> QED BY <2>1, <2>2, <2>3, <2>4, Zenon DEF StringsStayInside
<1> QED BY <1>1, PassedInit, PassedNext, CopyInit, CopyNext, DigitsInit, DigitsNext, PTL DEF Spec

-----------------------------------------------------------------------------
(* What the comparisons return.                                            *)
LEMMA DifferenceSign ==
  ASSUME NEW u \in Byte, NEW v \in Byte
  PROVE  /\ Difference(u, v) = 0 <=> u = v
         /\ Difference(u, v) < 0 <=> u < v
  BY DEF Difference, Byte

LEMMA ByteOrder ==
  /\ 0 \in Byte
  /\ \A u \in Byte : u # 0 => 0 < u
  /\ \A u, v \in Byte : u < v => v # 0 /\ u # v
  BY DEF Byte

(* x and y agree up to c, where the first has u and the second v; one that *)
(* has ended has 0, and equal bytes are the end of both.                   *)
Diverge(x, y, c, u, v) ==
  /\ x \in Seq(Byte) /\ y \in Seq(Byte)
  /\ c \in Nat /\ c <= Len(x) /\ c <= Len(y)
  /\ \A j \in 1 .. c : x[j] = y[j]
  /\ u \in Byte /\ v \in Byte
  /\ c < Len(x) => u = x[c + 1]
  /\ c < Len(y) => v = y[c + 1]
  /\ c = Len(x) => u = 0 /\ (c < Len(y) => v # 0)
  /\ c = Len(y) => v = 0 /\ (c < Len(x) => u # 0)
  /\ u = v => Len(x) = Len(y) /\ Len(x) <= c + 1

LEMMA Ordered ==
  ASSUME NEW x, NEW y, NEW c, NEW u, NEW v, Diverge(x, y, c, u, v)
  PROVE  /\ u = v <=> x = y
         /\ u < v <=> Before(x, y)
<1> USE DEF Diverge
<1>1. /\ Len(x) \in Nat /\ Len(y) \in Nat
      /\ \A j \in 1 .. Len(x) : x[j] \in Byte
      /\ \A j \in 1 .. Len(y) : y[j] \in Byte
  OBVIOUS
<1>2. ASSUME u = v PROVE x = y
  <2>1. Len(x) = Len(y) /\ Len(x) <= c + 1
    BY <1>2
  <2>2. ASSUME NEW j \in 1 .. Len(x) PROVE x[j] = y[j]
    <3>1. j \in 1 .. c \/ (j = c + 1 /\ c < Len(x) /\ c < Len(y))
      BY <1>1, <2>1
    <3> QED BY <1>2, <3>1
  <2> QED BY <2>1, <2>2, SeqEqual
<1>3. ASSUME x = y PROVE u = v
  <2>1. CASE c < Len(x)
    BY <1>3, <2>1
  <2>2. CASE c = Len(x)
    BY <1>3, <2>2
  <2> QED BY <1>1, <2>1, <2>2
<1>4. ASSUME u < v PROVE Before(x, y)
  <2>1. c < Len(y) /\ v = y[c + 1]
    <3>1. v # 0
      BY <1>4, ByteOrder, Zenon
    <3>2. c # Len(y)
      BY <3>1
    <3>3. c < Len(y)
      BY <1>1, <3>2
    <3> QED BY <3>3
  <2>2. c = Len(x) \/ x[c + 1] < y[c + 1]
    BY <1>1, <1>4, <2>1
  <2>3. c \in 0 .. Len(x)
    BY <1>1
  <2> QED BY <2>1, <2>2, <2>3 DEF Before
<1>5. ASSUME Before(x, y) PROVE u < v
  <2>1. PICK k \in 0 .. Len(x) : /\ k < Len(y)
                                 /\ \A j \in 1 .. k : x[j] = y[j]
                                 /\ k = Len(x) \/ x[k + 1] < y[k + 1]
    BY <1>5 DEF Before
  <2>2. CASE k < c
    <3>1. k + 1 \in 1 .. c /\ k # Len(x) /\ k + 1 \in 1 .. Len(x) /\ k + 1 \in 1 .. Len(y)
      BY <1>1, <2>2
    <3>2. x[k + 1] = y[k + 1] /\ x[k + 1] \in Byte
      BY <1>1, <3>1
    <3>3. x[k + 1] < y[k + 1]
      BY <2>1, <3>1
    <3>4. \A w \in Byte : ~(w < w)
      BY DEF Byte
    <3> QED BY <3>2, <3>3, <3>4, Zenon
  <2>3. CASE k = c
    <3>1. c < Len(y) /\ v = y[c + 1]
      <4>1. c < Len(y)
        BY <2>1, <2>3, Zenon
      <4> QED BY <4>1
    <3>2. CASE c = Len(x)
      <4>1. u = 0 /\ v # 0
        BY <3>1, <3>2, Zenon
      <4> QED BY <4>1, ByteOrder, Zenon
    <3>3. CASE c # Len(x)
      BY <1>1, <2>1, <2>3, <3>1, <3>3
    <3> QED BY <3>2, <3>3
  <2>4. CASE k > c
    <3>1. c + 1 \in 1 .. k /\ c < Len(x) /\ c < Len(y)
      BY <1>1, <2>1, <2>4
    <3>2. u = v
      BY <2>1, <3>1
    <3>3. Len(x) = Len(y) /\ k < Len(x) /\ k >= c + 1
      BY <1>1, <2>1, <2>4, <3>2
    <3> QED BY <1>1, <3>2, <3>3
  <2> QED BY <1>1, <2>2, <2>3, <2>4
<1> QED BY <1>2, <1>3, <1>4, <1>5

LEMMA TextEnds ==
  ASSUME NEW s \in Seq(Byte), NEW m \in DOMAIN s,
         s[m] = 0, \A j \in 1 .. m - 1 : s[j] # 0
  PROVE  /\ m \in 1 .. Len(s)
         /\ Text(s) \in Seq(Byte) /\ Len(Text(s)) = m - 1
         /\ \A j \in 1 .. m - 1 : Text(s)[j] = s[j]
<1> DEFINE end == CHOOSE k \in DOMAIN s : s[k] = 0 /\ \A j \in 1 .. k - 1 : s[j] # 0
<1>1. DOMAIN s = 1 .. Len(s) /\ Len(s) \in Nat
  OBVIOUS
<1>2. end \in DOMAIN s /\ s[end] = 0 /\ \A j \in 1 .. end - 1 : s[j] # 0
  OBVIOUS
<1>3. Text(s) = SubSeq(s, 1, end - 1)
  BY DEF Text
<1> HIDE DEF end
<1>4. end = m
  <2>1. ~(end < m)
    BY <1>1, <1>2
  <2>2. ~(m < end)
    BY <1>1, <1>2
  <2> QED BY <1>1, <1>2, <2>1, <2>2
<1>5. Text(s) = SubSeq(s, 1, m - 1) /\ m - 1 \in Nat /\ m - 1 <= Len(s)
  BY <1>1, <1>3, <1>4
<1>6. \A j \in 1 .. m - 1 : s[j] \in Byte
  BY <1>1
<1>7. /\ Text(s) \in Seq(Byte)
      /\ Len(Text(s)) = IF 1 <= m - 1 THEN m - 1 - 1 + 1 ELSE 0
      /\ \A j \in 1 .. m - 1 - 1 + 1 : Text(s)[j] = s[1 + j - 1]
  BY <1>5, <1>6, SubSeqProperties, SMT
<1> QED BY <1>1, <1>5, <1>7

(* Each function has passed over what was equal or no terminator, and has   *)
(* returned for what it found next.                                         *)
StrcmpInv ==
  call.fn = "strcmp" =>
    /\ Terminated(call.a) /\ Terminated(call.b)
    /\ i \in Nat
    /\ \A k \in 0 .. i - 1 : A(k) # 0 /\ A(k) = B(k)
    /\ returned => ~SameSoFar /\ result = Difference(A(i), B(i))

StrlenInv ==
  call.fn = "strlen" =>
    /\ Terminated(call.a)
    /\ i \in Nat
    /\ \A k \in 0 .. i - 1 : A(k) # 0
    /\ returned => A(i) = 0 /\ result = i

MemcmpInv ==
  call.fn = "memcmp" =>
    /\ n \in Nat
    /\ call.a \in Seq(Byte) /\ n <= Len(call.a)
    /\ call.b \in Seq(Byte) /\ n <= Len(call.b)
    /\ i \in 0 .. n
    /\ \A k \in 0 .. i - 2 : A(k) = B(k)
    /\ returned => \/ n = 0 /\ result = 0
                   \/ /\ i > 0 /\ (i = n \/ A(i - 1) # B(i - 1))
                      /\ result = Difference(A(i - 1), B(i - 1))

LEMMA ComparisonsStart == Called => StrcmpInv /\ StrlenInv /\ MemcmpInv
<1> SUFFICES ASSUME Called PROVE StrcmpInv /\ StrlenInv /\ MemcmpInv
  OBVIOUS
<1>1. call \in Calls /\ i = 0 /\ n = call.n /\ returned = FALSE
  BY DEF Called
<1>2. /\ call.fn = "strcmp" => Terminated(call.a) /\ Terminated(call.b)
      /\ call.fn = "strlen" => Terminated(call.a)
  BY <1>1, StringCalls
<1>3. call.fn = "memcmp" => /\ n \in Nat
                            /\ call.a \in Seq(Byte) /\ n <= Len(call.a)
                            /\ call.b \in Seq(Byte) /\ n <= Len(call.b)
  BY <1>1, StringCalls
<1>4. i \in Nat /\ (n \in Nat => i \in 0 .. n)
      /\ \A k : k \notin 0 .. i - 1 /\ k \notin 0 .. i - 2
  BY <1>1
<1> QED BY <1>1, <1>2, <1>3, <1>4, Zenon DEF StrcmpInv, StrlenInv, MemcmpInv

LEMMA StrcmpNext == StrcmpInv /\ [Next]_frame => StrcmpInv'
<1> SUFFICES ASSUME StrcmpInv, [Next]_frame, call.fn = "strcmp" PROVE StrcmpInv'
  BY StepOfCall, Zenon DEF StrcmpInv
<1>1. /\ Terminated(call.a) /\ Terminated(call.b)
      /\ i \in Nat
      /\ \A k \in 0 .. i - 1 : A(k) # 0 /\ A(k) = B(k)
      /\ returned => ~SameSoFar /\ result = Difference(A(i), B(i))
  BY DEF StrcmpInv
<1>2. call' = call /\ (UNCHANGED frame \/ (~returned /\ Strcmp))
  BY StepOfCall DEF In
<1>3. \A k : A(k)' = A(k) /\ B(k)' = B(k)
  BY <1>2, Zenon DEF A, B
<1>4. Terminated(call.a)' /\ Terminated(call.b)'
  BY <1>1, <1>2, Zenon DEF Terminated
<1>5. CASE UNCHANGED frame
  <2>1. i' = i /\ returned' = returned /\ result' = result
    BY <1>5 DEF frame
  <2>2. SameSoFar' = SameSoFar
    BY <1>2, <2>1, Zenon DEF SameSoFar, A, B
  <2>3. A(i)' = A(i) /\ B(i)' = B(i)
    BY <1>2, <2>1, Zenon DEF A, B
  <2>4. /\ \A k \in 0 .. i' - 1 : A(k)' # 0 /\ A(k)' = B(k)'
        /\ returned' => ~SameSoFar' /\ result' = Difference(A(i)', B(i)')
    BY <1>1, <1>3, <2>1, <2>2, <2>3, Zenon
  <2> QED BY <1>1, <1>4, <2>1, <2>3, <2>4, Zenon DEF StrcmpInv, Difference
<1>6. CASE ~returned /\ SameSoFar /\ Advance(1)
  <2>1. i' = i + 1 /\ ~returned' /\ A(i) # 0 /\ A(i) = B(i)
    BY <1>6 DEF Advance, SameSoFar
  <2>2. i' \in Nat /\ \A k \in 0 .. i' - 1 : k \in 0 .. i - 1 \/ k = i
    BY <1>1, <2>1
  <2>3. ASSUME NEW k \in 0 .. i' - 1 PROVE A(k)' # 0 /\ A(k)' = B(k)'
    BY <1>1, <1>3, <2>1, <2>2, Zenon
  <2> QED BY <1>4, <2>1, <2>2, <2>3, Zenon DEF StrcmpInv
<1>7. CASE ~returned /\ ~SameSoFar /\ Return(Difference(A(i), B(i)))
  <2>1. i' = i /\ result' = Difference(A(i), B(i))
    BY <1>7 DEF Return
  <2>2. SameSoFar' = SameSoFar
    BY <1>2, <2>1, Zenon DEF SameSoFar, A, B
  <2>3. A(i)' = A(i) /\ B(i)' = B(i)
    BY <1>2, <2>1, Zenon DEF A, B
  <2>4. \A k \in 0 .. i' - 1 : A(k)' # 0 /\ A(k)' = B(k)'
    BY <1>1, <1>3, <2>1, Zenon
  <2> QED BY <1>1, <1>4, <1>7, <2>1, <2>2, <2>3, <2>4, Zenon DEF StrcmpInv, Difference
<1> QED BY <1>2, <1>5, <1>6, <1>7, Zenon DEF Strcmp

LEMMA StrlenNext == StrlenInv /\ [Next]_frame => StrlenInv'
<1> SUFFICES ASSUME StrlenInv, [Next]_frame, call.fn = "strlen" PROVE StrlenInv'
  BY StepOfCall, Zenon DEF StrlenInv
<1>1. /\ Terminated(call.a)
      /\ i \in Nat
      /\ \A k \in 0 .. i - 1 : A(k) # 0
      /\ returned => A(i) = 0 /\ result = i
  BY DEF StrlenInv
<1>2. call' = call /\ (UNCHANGED frame \/ (~returned /\ Strlen))
  BY StepOfCall DEF In
<1>3. \A k : A(k)' = A(k)
  BY <1>2, Zenon DEF A
<1>4. Terminated(call.a)'
  BY <1>1, <1>2, Zenon DEF Terminated
<1>5. ASSUME i' = i, returned' => A(i) = 0 /\ result' = i PROVE StrlenInv'
  <2>1. A(i)' = A(i)
    BY <1>2, <1>5, Zenon DEF A
  <2>2. \A k \in 0 .. i' - 1 : A(k)' # 0
    BY <1>1, <1>3, <1>5, Zenon
  <2> QED BY <1>1, <1>4, <1>5, <2>1, <2>2, Zenon DEF StrlenInv
<1>6. CASE UNCHANGED frame
  BY <1>1, <1>5, <1>6, Zenon DEF frame
<1>7. CASE ~returned /\ A(i) # 0 /\ Advance(1)
  <2>1. i' = i + 1 /\ ~returned'
    BY <1>7 DEF Advance
  <2>2. i' \in Nat /\ \A k \in 0 .. i' - 1 : k \in 0 .. i - 1 \/ k = i
    BY <1>1, <2>1
  <2>3. ASSUME NEW k \in 0 .. i' - 1 PROVE A(k)' # 0
    BY <1>1, <1>3, <1>7, <2>2, Zenon
  <2> QED BY <1>4, <2>1, <2>2, <2>3, Zenon DEF StrlenInv
<1>8. CASE A(i) = 0 /\ Return(i)
  BY <1>5, <1>8, Zenon DEF Return
<1> QED BY <1>2, <1>6, <1>7, <1>8, Zenon DEF Strlen

LEMMA MemcmpNext == MemcmpInv /\ [Next]_frame => MemcmpInv'
<1> SUFFICES ASSUME MemcmpInv, [Next]_frame, call.fn = "memcmp" PROVE MemcmpInv'
  BY StepOfCall, Zenon DEF MemcmpInv
<1>1. /\ n \in Nat
      /\ call.a \in Seq(Byte) /\ n <= Len(call.a)
      /\ call.b \in Seq(Byte) /\ n <= Len(call.b)
      /\ i \in 0 .. n
      /\ \A k \in 0 .. i - 2 : A(k) = B(k)
      /\ returned => \/ n = 0 /\ result = 0
                     \/ /\ i > 0 /\ (i = n \/ A(i - 1) # B(i - 1))
                        /\ result = Difference(A(i - 1), B(i - 1))
  BY DEF MemcmpInv
<1>2. call' = call /\ (UNCHANGED frame \/ (~returned /\ Memcmp))
  BY StepOfCall DEF In
<1>3. \A k : A(k)' = A(k) /\ B(k)' = B(k)
  BY <1>2, Zenon DEF A, B
<1>4. ASSUME i' = i, n' = n,
             returned' => \/ n = 0 /\ result' = 0
                          \/ /\ i > 0 /\ (i = n \/ A(i - 1) # B(i - 1))
                             /\ result' = Difference(A(i - 1), B(i - 1))
      PROVE  MemcmpInv'
  <2>1. A(i - 1)' = A(i - 1) /\ B(i - 1)' = B(i - 1)
    BY <1>2, <1>4, Zenon DEF A, B
  <2>2. \A k \in 0 .. i' - 2 : A(k)' = B(k)'
    BY <1>1, <1>3, <1>4, Zenon
  <2> QED BY <1>1, <1>2, <1>4, <2>1, <2>2, Zenon DEF MemcmpInv, Difference
<1>5. CASE UNCHANGED frame
  BY <1>1, <1>4, <1>5, Zenon DEF frame
<1>6. CASE ~returned /\ i < n /\ (i > 0 => A(i - 1) = B(i - 1)) /\ Advance(1)
  <2>1. i' = i + 1 /\ n' = n /\ ~returned'
    BY <1>6 DEF Advance
  <2>2. i' \in 0 .. n /\ \A k \in 0 .. i' - 2 : k \in 0 .. i - 2 \/ (k = i - 1 /\ i > 0)
    BY <1>1, <1>6, <2>1
  <2>3. ASSUME NEW k \in 0 .. i' - 2 PROVE A(k)' = B(k)'
    BY <1>1, <1>3, <1>6, <2>2, Zenon
  <2> QED BY <1>1, <1>2, <2>1, <2>2, <2>3, Zenon DEF MemcmpInv
<1>7. CASE n = 0 /\ Return(0)
  BY <1>4, <1>7, Zenon DEF Return
<1>8. CASE /\ i > 0 /\ (i = n \/ A(i - 1) # B(i - 1))
           /\ Return(Difference(A(i - 1), B(i - 1)))
  BY <1>4, <1>8, Zenon DEF Return
<1> QED BY <1>2, <1>5, <1>6, <1>7, <1>8, Zenon DEF Memcmp

(* Where a string ends that nothing passed over ends *)
LEMMA EndAhead ==
  ASSUME NEW s, Terminated(s), NEW c \in Nat, \A k \in 0 .. c - 1 : s[k + 1] # 0
  PROVE  \E m \in DOMAIN s :
           /\ s[m] = 0 /\ \A j \in 1 .. m - 1 : s[j] # 0
           /\ DOMAIN s = 1 .. Len(s) /\ Len(s) \in Nat
           /\ m > c /\ c + 1 \in DOMAIN s /\ s[c + 1] \in Byte
           /\ s[c + 1] = 0 <=> m = c + 1
<1>1. s \in Seq(Byte) /\ \E k \in DOMAIN s : s[k] = 0 /\ \A j \in 1 .. k - 1 : s[j] # 0
  BY DEF Terminated
<1>2. PICK m \in DOMAIN s : s[m] = 0 /\ \A j \in 1 .. m - 1 : s[j] # 0
  BY <1>1
<1>3. DOMAIN s = 1 .. Len(s) /\ Len(s) \in Nat /\ \A j \in 1 .. Len(s) : s[j] \in Byte
  BY <1>1
<1>4. m > c
  <2>1. ASSUME m <= c PROVE FALSE
    <3>1. m - 1 \in 0 .. c - 1 /\ m - 1 + 1 = m
      BY <1>2, <1>3, <2>1
    <3> QED BY <1>2, <3>1
  <2> QED BY <1>2, <1>3, <2>1
<1>5. c + 1 \in DOMAIN s /\ (c + 1 = m \/ c + 1 \in 1 .. m - 1)
  BY <1>2, <1>3, <1>4
<1> QED BY <1>2, <1>3, <1>4, <1>5

LEMMA StrcmpRight ==
  ASSUME StrcmpInv, returned, call.fn = "strcmp"
  PROVE  /\ result = 0 <=> Text(call.a) = Text(call.b)
         /\ result < 0 <=> Before(Text(call.a), Text(call.b))
<1> DEFINE x == Text(call.a)
           y == Text(call.b)
           u == call.a[i + 1]
           v == call.b[i + 1]
<1>1. /\ Terminated(call.a) /\ Terminated(call.b) /\ i \in Nat
      /\ \A k \in 0 .. i - 1 : call.a[k + 1] # 0 /\ call.a[k + 1] = call.b[k + 1]
      /\ ~(u # 0 /\ u = v) /\ result = Difference(u, v)
  BY DEF StrcmpInv, SameSoFar, A, B
<1>2. /\ call.a \in Seq(Byte) /\ call.b \in Seq(Byte)
      /\ \A k \in 0 .. i - 1 : call.b[k + 1] # 0
  BY <1>1 DEF Terminated
<1>3. PICK m \in DOMAIN call.a :
        /\ call.a[m] = 0 /\ \A j \in 1 .. m - 1 : call.a[j] # 0
        /\ DOMAIN call.a = 1 .. Len(call.a) /\ Len(call.a) \in Nat
        /\ m > i /\ i + 1 \in DOMAIN call.a /\ u \in Byte
        /\ u = 0 <=> m = i + 1
  BY <1>1, EndAhead, Zenon
<1>4. PICK w \in DOMAIN call.b :
        /\ call.b[w] = 0 /\ \A j \in 1 .. w - 1 : call.b[j] # 0
        /\ DOMAIN call.b = 1 .. Len(call.b) /\ Len(call.b) \in Nat
        /\ w > i /\ i + 1 \in DOMAIN call.b /\ v \in Byte
        /\ v = 0 <=> w = i + 1
  BY <1>1, <1>2, EndAhead, Zenon
<1>5. x \in Seq(Byte) /\ Len(x) = m - 1 /\ \A j \in 1 .. m - 1 : x[j] = call.a[j]
  BY <1>2, <1>3, TextEnds, Zenon
<1>6. y \in Seq(Byte) /\ Len(y) = w - 1 /\ \A j \in 1 .. w - 1 : y[j] = call.b[j]
  BY <1>2, <1>4, TextEnds, Zenon
<1>7. m \in Nat /\ w \in Nat
  BY <1>3, <1>4
<1> HIDE DEF x, y, u, v
<1>8. i <= Len(x) /\ i <= Len(y)
  BY <1>1, <1>3, <1>4, <1>5, <1>6, <1>7
<1>9. ASSUME NEW j \in 1 .. i PROVE x[j] = y[j]
  <2>1. j \in 1 .. m - 1 /\ j \in 1 .. w - 1 /\ j - 1 \in 0 .. i - 1 /\ j - 1 + 1 = j
    BY <1>1, <1>3, <1>4, <1>7
  <2>2. call.a[j] = call.b[j]
    BY <1>1, <2>1
  <2> QED BY <1>5, <1>6, <2>1, <2>2, Zenon
<1>10. i < Len(x) => u = x[i + 1]
  <2>1. i < Len(x) => i + 1 \in 1 .. m - 1
    BY <1>1, <1>5, <1>7
  <2> QED BY <1>5, <2>1, Zenon DEF u
<1>11. i < Len(y) => v = y[i + 1]
  <2>1. i < Len(y) => i + 1 \in 1 .. w - 1
    BY <1>1, <1>6, <1>7
  <2> QED BY <1>6, <2>1, Zenon DEF v
<1>12. /\ i = Len(x) <=> m = i + 1
       /\ i = Len(y) <=> w = i + 1
       /\ i < Len(x) => m # i + 1
       /\ i < Len(y) => w # i + 1
  BY <1>1, <1>5, <1>6, <1>7
<1>13. /\ i = Len(x) => u = 0 /\ (i < Len(y) => v # 0)
       /\ i = Len(y) => v = 0 /\ (i < Len(x) => u # 0)
  BY <1>3, <1>4, <1>12, Zenon
<1>14. u = v => Len(x) = Len(y) /\ Len(x) <= i + 1
  <2>1. u = v => u = 0 /\ v = 0
    BY <1>1, Zenon
  <2>2. u = v => i = Len(x) /\ i = Len(y)
    BY <1>3, <1>4, <1>12, <2>1, Zenon
  <2> QED BY <1>1, <2>2
<1>15. /\ u = v <=> x = y
       /\ u < v <=> Before(x, y)
  <2>1. Diverge(x, y, i, u, v)
    BY <1>1, <1>3, <1>4, <1>5, <1>6, <1>8, <1>9, <1>10, <1>11, <1>13, <1>14, Zenon DEF Diverge
  <2> QED BY <2>1, Ordered, Zenon
<1> QED BY <1>1, <1>3, <1>4, <1>15, DifferenceSign, Zenon DEF x, y

LEMMA StrlenRight ==
  ASSUME StrlenInv, returned, call.fn = "strlen"
  PROVE  result = Len(Text(call.a))
<1>1. /\ Terminated(call.a) /\ i \in Nat
      /\ \A k \in 0 .. i - 1 : call.a[k + 1] # 0
      /\ call.a[i + 1] = 0 /\ result = i
  BY DEF StrlenInv, A
<1>2. PICK m \in DOMAIN call.a :
        /\ call.a[m] = 0 /\ \A j \in 1 .. m - 1 : call.a[j] # 0
        /\ call.a[i + 1] = 0 <=> m = i + 1
  BY <1>1, EndAhead, Zenon
<1>3. Len(Text(call.a)) = m - 1
  BY <1>1, <1>2, TextEnds, Zenon DEF Terminated
<1> QED BY <1>1, <1>2, <1>3

LEMMA Prefixes ==
  ASSUME NEW s \in Seq(Byte), NEW m \in Nat, m <= Len(s)
  PROVE  /\ SubSeq(s, 1, m) \in Seq(Byte) /\ Len(SubSeq(s, 1, m)) = m
         /\ \A j \in 1 .. m : SubSeq(s, 1, m)[j] = s[j] /\ s[j] \in Byte
<1>1. \A j \in 1 .. m : s[j] \in Byte
  OBVIOUS
<1>2. /\ SubSeq(s, 1, m) \in Seq(Byte)
      /\ Len(SubSeq(s, 1, m)) = IF 1 <= m THEN m - 1 + 1 ELSE 0
      /\ \A j \in 1 .. m - 1 + 1 : SubSeq(s, 1, m)[j] = s[1 + j - 1]
  BY <1>1, SubSeqProperties, SMT
<1> QED BY <1>1, <1>2

LEMMA MemcmpRight ==
  ASSUME MemcmpInv, returned, call.fn = "memcmp"
  PROVE  /\ result = 0 <=> SubSeq(call.a, 1, n) = SubSeq(call.b, 1, n)
         /\ result < 0 <=> Before(SubSeq(call.a, 1, n), SubSeq(call.b, 1, n))
<1> DEFINE x == SubSeq(call.a, 1, n)
           y == SubSeq(call.b, 1, n)
<1>1. /\ n \in Nat
      /\ call.a \in Seq(Byte) /\ n <= Len(call.a)
      /\ call.b \in Seq(Byte) /\ n <= Len(call.b)
      /\ i \in 0 .. n
      /\ \A k \in 0 .. i - 2 : call.a[k + 1] = call.b[k + 1]
      /\ \/ n = 0 /\ result = 0
         \/ /\ i > 0 /\ (i = n \/ call.a[i - 1 + 1] # call.b[i - 1 + 1])
            /\ result = Difference(call.a[i - 1 + 1], call.b[i - 1 + 1])
  BY DEF MemcmpInv, A, B
<1>2. /\ x \in Seq(Byte) /\ Len(x) = n /\ \A j \in 1 .. n : x[j] = call.a[j] /\ x[j] \in Byte
      /\ y \in Seq(Byte) /\ Len(y) = n /\ \A j \in 1 .. n : y[j] = call.b[j] /\ y[j] \in Byte
  <2>1. x \in Seq(Byte) /\ Len(x) = n /\ \A j \in 1 .. n : x[j] = call.a[j] /\ call.a[j] \in Byte
    BY <1>1, Prefixes, Zenon
  <2>2. y \in Seq(Byte) /\ Len(y) = n /\ \A j \in 1 .. n : y[j] = call.b[j] /\ call.b[j] \in Byte
    BY <1>1, Prefixes, Zenon
  <2> QED BY <2>1, <2>2, Zenon
<1> HIDE DEF x, y
<1>3. CASE n = 0 /\ result = 0
  <2>1. x = y
    BY <1>2, <1>3, SeqEqual
  <2>2. ~Before(x, y)
    BY <1>2, <1>3 DEF Before
  <2> QED BY <1>3, <2>1, <2>2 DEF x, y
<1>4. CASE /\ i > 0 /\ (i = n \/ call.a[i - 1 + 1] # call.b[i - 1 + 1])
           /\ result = Difference(call.a[i - 1 + 1], call.b[i - 1 + 1])
  <2>1. i - 1 \in Nat /\ i - 1 + 1 = i /\ i \in 1 .. n
    BY <1>1, <1>4
  <2>2. x[i] \in Byte /\ y[i] \in Byte /\ x[i] = call.a[i] /\ y[i] = call.b[i]
    BY <1>2, <2>1, Zenon
  <2>3. result = Difference(x[i], y[i]) /\ (x[i] = y[i] => i = n)
    BY <1>4, <2>1, <2>2, Zenon
  <2>4. ASSUME NEW j \in 1 .. i - 1 PROVE x[j] = y[j]
    <3>1. j - 1 \in 0 .. i - 2 /\ j - 1 + 1 = j /\ j \in 1 .. n
      BY <1>1, <2>1
    <3>2. call.a[j] = call.b[j]
      BY <1>1, <3>1
    <3> QED BY <1>2, <3>1, <3>2, Zenon
  <2>5. /\ i - 1 < n /\ i - 1 <= n /\ i - 1 # n
        /\ x[i - 1 + 1] = x[i] /\ y[i - 1 + 1] = y[i]
        /\ x[i] = y[i] => n <= i - 1 + 1
    BY <1>1, <2>1, <2>3
  <2>6. /\ x[i] = y[i] <=> x = y
        /\ x[i] < y[i] <=> Before(x, y)
    <3>1. Diverge(x, y, i - 1, x[i], y[i])
      <4> DEFINE c == i - 1
      <4>1. /\ x \in Seq(Byte) /\ y \in Seq(Byte) /\ c \in Nat
            /\ \A j \in 1 .. c : x[j] = y[j]
            /\ x[i] \in Byte /\ y[i] \in Byte
        BY <1>2, <2>1, <2>2, <2>4, Zenon
      <4>2. /\ c < Len(x) /\ c <= Len(x) /\ c # Len(x) /\ x[i] = x[c + 1]
            /\ c < Len(y) /\ c <= Len(y) /\ c # Len(y) /\ y[i] = y[c + 1]
            /\ Len(x) = Len(y) /\ (x[i] = y[i] => Len(x) <= c + 1)
        BY <1>2, <2>5, Zenon
      <4> HIDE DEF c
      <4>3. Diverge(x, y, c, x[i], y[i])
        BY <4>1, <4>2 DEF Diverge
      <4> QED BY <4>3, Zenon DEF c
    <3> DEFINE u == x[i]
               v == y[i]
               c == i - 1
    <3>2. Diverge(x, y, c, u, v)
      BY <3>1, Zenon
    <3> HIDE DEF u, v, c
    <3>3. (u = v <=> x = y) /\ (u < v <=> Before(x, y))
      BY <3>2, Ordered, Zenon
    <3> QED BY <3>3, Zenon DEF u, v
  <2> QED BY <2>2, <2>3, <2>6, DifferenceSign, Zenon DEF x, y
<1> QED BY <1>1, <1>3, <1>4

(* For all strings and counts: strcmp and memcmp return 0 just for equal    *)
(* texts and bytes and less than 0 just when the first comes before the     *)
(* second, byte by byte and a prefix before what it begins; strlen returns  *)
(* the length of the text.                                                  *)
THEOREM ComparesRightly == Spec => []Compares
<1>1. StrcmpInv /\ StrlenInv /\ MemcmpInv => Compares
  <2> SUFFICES ASSUME StrcmpInv, StrlenInv, MemcmpInv, returned
               PROVE  /\ call.fn = "strcmp" =>
                           /\ (result = 0) = (Text(call.a) = Text(call.b))
                           /\ (result < 0) = Before(Text(call.a), Text(call.b))
                      /\ call.fn = "strlen" => result = Len(Text(call.a))
                      /\ call.fn = "memcmp" =>
                           LET x == SubSeq(call.a, 1, n)
                               y == SubSeq(call.b, 1, n)
                           IN  (result = 0) = (x = y) /\ (result < 0) = Before(x, y)
    BY Zenon DEF Compares
  <2>1. \A s, t : Before(s, t) \in BOOLEAN
    BY DEF Before
  <2>2. ASSUME call.fn = "strcmp"
        PROVE  /\ (result = 0) = (Text(call.a) = Text(call.b))
               /\ (result < 0) = Before(Text(call.a), Text(call.b))
    BY <2>1, <2>2, StrcmpRight
  <2>3. ASSUME call.fn = "memcmp"
        PROVE  /\ (result = 0) = (SubSeq(call.a, 1, n) = SubSeq(call.b, 1, n))
               /\ (result < 0) = Before(SubSeq(call.a, 1, n), SubSeq(call.b, 1, n))
    <3> DEFINE x == SubSeq(call.a, 1, n)
               y == SubSeq(call.b, 1, n)
    <3>1. (result = 0 <=> x = y) /\ (result < 0 <=> Before(x, y))
      BY <2>3, MemcmpRight, Zenon
    <3> HIDE DEF x, y
    <3>2. (result = 0) = (x = y) /\ (result < 0) = Before(x, y)
      BY <2>1, <3>1
    <3> QED BY <3>2, Zenon DEF x, y
  <2> QED BY <2>2, <2>3, StrlenRight, Zenon
<1>2. Spec => [](StrcmpInv /\ StrlenInv /\ MemcmpInv)
  BY ComparisonsStart, StrcmpNext, StrlenNext, MemcmpNext, PTL DEF Spec
<1> QED BY <1>1, <1>2, PTL

-----------------------------------------------------------------------------
(* Recursion.  A set of numbers that is not empty has a lowest member, so    *)
(* one with 0 and with every successor holds them all.                       *)
LEMMA Lowest ==
  ASSUME NEW S \in SUBSET Nat, S # {}
  PROVE  \E low \in S : \A k \in S : low <= k
<1>1. PICK low \in S : \A k \in S : ~ (<<k, low>> \in OpToRel(<, Nat))
  BY NatLessThanWellFounded, WFMin
<1>2. ASSUME NEW k \in S PROVE low <= k
  <2>1. k < low => <<k, low>> \in OpToRel(<, Nat)
    BY DEF OpToRel
  <2>2. ~ (k < low)
    BY <1>1, <2>1
  <2> QED BY <2>2
<1> QED BY <1>2

LEMMA Induction ==
  ASSUME NEW S \in SUBSET Nat, 0 \in S, \A k \in S : k + 1 \in S
  PROVE  S = Nat
<1> DEFINE T == Nat \ S
<1>1. ASSUME T # {} PROVE FALSE
  <2>1. T \in SUBSET Nat
    OBVIOUS
  <2>2. \E low \in T : \A k \in T : low <= k
    BY <1>1, <2>1, Lowest, Zenon
  <2>3. PICK low \in T : \A k \in T : low <= k
    BY <2>2
  <2>4. low - 1 \in Nat /\ low - 1 + 1 = low
    BY <2>3
  <2>5. low - 1 \in S
    BY <2>3, <2>4
  <2> QED BY <2>3, <2>4, <2>5
<1> QED BY <1>1

(* Values can be computed one from the other, next giving each from the     *)
(* one before and its index.                                                *)
Follows(g, first, l, next) ==
  g[0] = first /\ \A k \in 1 .. l : g[k] = next[<<g[k - 1], k>>]
Closed(V, l, next) == \A v \in V : \A k \in 1 .. l : next[<<v, k>>] \in V

LEMMA Recursion ==
  ASSUME NEW V, NEW first, first \in V, NEW l, l \in Nat, NEW next, Closed(V, l, next)
  PROVE  \E g \in [0 .. l -> V] : Follows(g, first, l, next)
<1> USE DEF Follows, Closed
<1> DEFINE Computes(g, m) == g[0] = first /\ \A k \in 1 .. m : g[k] = next[<<g[k - 1], k>>]
           S == {m \in Nat : m <= l => \E g \in [0 .. m -> V] : Computes(g, m)}
<1>1. 0 \in S
  <2> DEFINE g == [k \in 0 .. 0 |-> first]
  <2>1. g \in [0 .. 0 -> V] /\ Computes(g, 0)
    OBVIOUS
  <2> QED BY <2>1
<1>2. ASSUME NEW m \in S PROVE m + 1 \in S
  <2>1. m \in Nat
    OBVIOUS
  <2>2. ASSUME m + 1 <= l PROVE \E g \in [0 .. m + 1 -> V] : Computes(g, m + 1)
    <3>1. PICK g \in [0 .. m -> V] : Computes(g, m)
      BY <2>1, <2>2
    <3> DEFINE h == [k \in 0 .. m + 1 |-> IF k = m + 1 THEN next[<<g[m], m + 1>>] ELSE g[k]]
    <3>2. next[<<g[m], m + 1>>] \in V
      BY <2>1, <2>2, <3>1
    <3>3. h \in [0 .. m + 1 -> V]
      BY <2>1, <3>1, <3>2
    <3>4. h[0] = first /\ h[m + 1] = next[<<g[m], m + 1>>] /\ \A k \in 0 .. m : h[k] = g[k]
      BY <2>1, <3>1
    <3> HIDE DEF h
    <3>5. ASSUME NEW k \in 1 .. m + 1 PROVE h[k] = next[<<h[k - 1], k>>]
      <4>1. CASE k = m + 1
        <5>1. k - 1 = m /\ m \in 0 .. m
          BY <2>1, <4>1
        <5> QED BY <3>4, <4>1, <5>1, Zenon
      <4>2. CASE k \in 1 .. m
        <5>1. k \in 0 .. m /\ k - 1 \in 0 .. m
          BY <2>1, <4>2
        <5> QED BY <3>1, <3>4, <4>2, <5>1, Zenon
      <4> QED BY <2>1, <4>1, <4>2
    <3>6. Computes(h, m + 1)
      BY <3>4, <3>5, Zenon
    <3> QED BY <3>3, <3>6
  <2> QED BY <2>1, <2>2
<1> HIDE DEF S
<1>3. S \in SUBSET Nat
  BY DEF S
<1>4. S = Nat
  BY <1>1, <1>2, <1>3, Induction, Zenon
<1>5. l \in S /\ l <= l
  BY <1>4
<1> QED BY <1>5 DEF S

(* Where the tags begin *)
LEMMA Alignment ==
  ASSUME NEW v \in Nat, v % 8 = 0, NEW s \in Nat \ {0}
  PROVE  /\ v + Padded(s) \in Nat /\ (v + Padded(s)) % 8 = 0 /\ v + Padded(s) > v
         /\ (CHOOSE p \in v + s .. v + s + 7 : p % 8 = 0) = v + Padded(s)
<1> DEFINE e == v + Padded(s)
<1>1. e \in Nat /\ e % 8 = 0 /\ e > v /\ e \in v + s .. v + s + 7
  BY DEF Padded
<1>2. \A p \in v + s .. v + s + 7 : p % 8 = 0 => p = e
  BY DEF Padded
<1> HIDE DEF e
<1>3. (CHOOSE p \in v + s .. v + s + 7 : p % 8 = 0) = e
  BY <1>1, <1>2
<1> QED BY <1>1, <1>3 DEF e

LEMMA TagStarts ==
  ASSUME NEW tags \in Seq([type : STRING, size : Nat \ {0}])
  PROVE  /\ TagStart(tags, 1) = 0
         /\ \A k \in 1 .. Len(tags) + 1 :
              TagStart(tags, k) \in Nat /\ TagStart(tags, k) % 8 = 0
         /\ \A k \in 1 .. Len(tags) :
              TagStart(tags, k + 1) = TagStart(tags, k) + Padded(tags[k].size)
<1> DEFINE l == Len(tags)
           next == [q \in Nat \X (1 .. l) |-> q[1] + Padded(tags[q[2]].size)]
<1>1. l \in Nat /\ \A k \in 1 .. l : tags[k].size \in Nat \ {0}
  <2> DEFINE Tags == [type : STRING, size : Nat \ {0}]
  <2>1. \A t \in Tags : t.size \in Nat \ {0}
    OBVIOUS
  <2>2. tags \in Seq(Tags)
    OBVIOUS
  <2> HIDE DEF Tags
  <2>3. l \in Nat /\ \A k \in 1 .. l : tags[k] \in Tags
    BY <2>2
  <2> QED BY <2>1, <2>3, Zenon
<1> HIDE DEF l
<1>2. ASSUME NEW v \in Nat, NEW k \in 1 .. l
      PROVE  next[<<v, k>>] = v + Padded(tags[k].size) /\ next[<<v, k>>] \in Nat
  <2>1. next[<<v, k>>] = v + Padded(tags[k].size)
    OBVIOUS
  <2>2. Padded(tags[k].size) \in Nat
    <3> DEFINE s == tags[k].size
    <3>1. s \in Nat
      BY <1>1
    <3> HIDE DEF s
    <3>2. Padded(s) \in Nat
      BY <3>1 DEF Padded
    <3> QED BY <3>2 DEF s
  <2> HIDE DEF next
  <2> QED BY <2>1, <2>2
<1> HIDE DEF next
<1>3. PICK g \in [0 .. l -> Nat] :
        g[0] = 0 /\ \A k \in 1 .. l : g[k] = next[<<g[k - 1], k>>]
  <2>1. Closed(Nat, l, next)
    BY <1>2, Zenon DEF Closed
  <2>2. 0 \in Nat
    OBVIOUS
  <2>3. \E g \in [0 .. l -> Nat] : Follows(g, 0, l, next)
    BY <1>1, <2>1, <2>2, Recursion, Zenon
  <2> QED BY <2>3, Zenon DEF Follows
<1>4. \A k \in 1 .. l : g[k] = g[k - 1] + Padded(tags[k].size)
  <2> SUFFICES ASSUME NEW k \in 1 .. l PROVE g[k] = g[k - 1] + Padded(tags[k].size)
    OBVIOUS
  <2>1. k - 1 \in 0 .. l
    BY <1>1
  <2>2. g[k - 1] \in Nat
    BY <2>1
  <2> QED BY <1>2, <1>3, <2>2, Zenon
<1>5. \A k \in 0 .. l : g[k] \in Nat /\ g[k] % 8 = 0
  <2> DEFINE S == {k \in Nat : k <= l => g[k] % 8 = 0}
  <2>1. 0 \in S
    BY <1>3
  <2>2. ASSUME NEW k \in S PROVE k + 1 \in S
    <3>1. k \in Nat
      OBVIOUS
    <3>2. ASSUME k + 1 <= l PROVE g[k + 1] % 8 = 0
      <4>1. k \in 0 .. l /\ k + 1 \in 1 .. l /\ k + 1 - 1 = k
        BY <1>1, <3>1, <3>2
      <4>2. g[k] \in Nat /\ g[k] % 8 = 0
        BY <3>1, <3>2, <4>1
      <4>3. g[k + 1] = g[k] + Padded(tags[k + 1].size) /\ tags[k + 1].size \in Nat \ {0}
        BY <1>1, <1>4, <4>1
      <4>4. (g[k] + Padded(tags[k + 1].size)) % 8 = 0
        BY <4>2, <4>3, Alignment, Zenon
      <4> QED BY <4>3, <4>4, Zenon
    <3> QED BY <3>1, <3>2
  <2> HIDE DEF S
  <2>3. S \in SUBSET Nat
    BY DEF S
  <2>4. S = Nat
    BY <2>1, <2>2, <2>3, Induction, Zenon
  <2>5. ASSUME NEW k \in 0 .. l PROVE g[k] % 8 = 0
    <3>1. k \in S /\ k <= l
      BY <1>1, <2>4
    <3> QED BY <3>1 DEF S
  <2> QED BY <2>5
<1>6. ASSUME NEW m \in 1 .. l + 1 PROVE TagStart(tags, m) = g[m - 1]
  <2> DEFINE Walk(f, j) ==
               IF j = 1 THEN 0
               ELSE CHOOSE p \in f[j - 1] + tags[j - 1].size ..
                                 f[j - 1] + tags[j - 1].size + 7 : p % 8 = 0
             Walked(f) == f = [j \in 1 .. m |-> Walk(f, j)]
             f0 == [j \in 1 .. m |-> g[j - 1]]
             chosen == CHOOSE f : Walked(f)
  <2>1. m \in Nat /\ m >= 1
    BY <1>1
  <2>2. ASSUME NEW f, NEW j \in 1 .. m, j # 1, f[j - 1] = g[j - 2]
        PROVE  Walk(f, j) = g[j - 1]
    <3> DEFINE a == j - 1
               b == j - 2
    <3>1. a \in 1 .. l /\ b \in 0 .. l /\ a - 1 = b
      BY <1>1, <2>1, <2>2
    <3>2. /\ f[a] = g[b]
          /\ Walk(f, j) = CHOOSE p \in f[a] + tags[a].size .. f[a] + tags[a].size + 7 : p % 8 = 0
      BY <2>2, Zenon
    <3>3. g[j - 1] = g[a]
      OBVIOUS
    <3> HIDE DEF a, b, Walk
    <3>4. g[b] \in Nat /\ g[b] % 8 = 0 /\ tags[a].size \in Nat \ {0}
      BY <1>1, <1>5, <3>1, Zenon
    <3>5. g[a] = g[b] + Padded(tags[a].size)
      BY <1>4, <3>1, Zenon
    <3>6. (CHOOSE p \in g[b] + tags[a].size .. g[b] + tags[a].size + 7 : p % 8 = 0) = g[a]
      BY <3>4, <3>5, Alignment, Zenon
    <3> QED BY <3>6, <3>2, <3>3, Zenon
  <2>3. Walked(f0)
    <3>1. ASSUME NEW j \in 1 .. m PROVE f0[j] = Walk(f0, j)
      <4>1. CASE j = 1
        BY <1>3, <2>1, <4>1
      <4>2. CASE j # 1
        <5>1. j - 1 \in 1 .. m /\ j - 1 - 1 = j - 2
          BY <2>1, <4>2
        <5>2. f0[j - 1] = g[j - 2] /\ f0[j] = g[j - 1]
          BY <5>1
        <5> HIDE DEF f0, Walk
        <5>3. Walk(f0, j) = g[j - 1]
          BY <2>2, <4>2, <5>2, Zenon
        <5> QED BY <5>2, <5>3, Zenon
      <4> QED BY <4>1, <4>2
    <3> HIDE DEF Walk
    <3> QED BY <3>1
  <2> HIDE DEF f0
  <2>4. Walked(chosen)
    <3> HIDE DEF Walked
    <3>1. \E f : Walked(f)
      BY <2>3, Zenon
    <3> QED BY <3>1, Zenon
  <2>5. TagStart(tags, m) = chosen[m]
    BY Zenon DEF TagStart
  <2> HIDE DEF chosen
  <2>6. ASSUME NEW j \in 1 .. m PROVE chosen[j] = Walk(chosen, j)
    <3> HIDE DEF Walk
    <3> QED BY <2>4
  <2>7. chosen[m] = g[m - 1]
    <3> DEFINE S == {j \in Nat : j + 1 <= m => chosen[j + 1] = g[j]}
    <3>1. 0 \in S
      <4>1. 1 \in 1 .. m
        BY <2>1
      <4>2. chosen[1] = 0
        BY <2>6, <4>1
      <4> QED BY <1>3, <4>2
    <3>2. ASSUME NEW j \in S PROVE j + 1 \in S
      <4>1. j \in Nat
        OBVIOUS
      <4>2. ASSUME j + 1 + 1 <= m PROVE chosen[j + 1 + 1] = g[j + 1]
        <5>1. chosen[j + 1] = g[j]
          BY <2>1, <4>1, <4>2
        <5> DEFINE t == j + 1 + 1
        <5>2. t \in 1 .. m /\ t # 1 /\ t - 1 = j + 1 /\ t - 2 = j
          BY <2>1, <4>1, <4>2
        <5> HIDE DEF t, Walk
        <5>3. chosen[t - 1] = g[t - 2]
          BY <5>1, <5>2, Zenon
        <5>4. Walk(chosen, t) = g[t - 1]
          BY <2>2, <5>2, <5>3, Zenon
        <5>5. chosen[t] = Walk(chosen, t)
          BY <2>6, <5>2, Zenon
        <5>6. chosen[t] = g[j + 1]
          BY <5>2, <5>4, <5>5, Zenon
        <5> QED BY <5>6 DEF t
      <4> QED BY <4>1, <4>2
    <3> HIDE DEF S
    <3>3. S \in SUBSET Nat
      BY DEF S
    <3>4. S = Nat
      BY <3>1, <3>2, <3>3, Induction, Zenon
    <3>5. m - 1 \in S /\ m - 1 + 1 <= m /\ m - 1 + 1 = m
      BY <2>1, <3>4
    <3> QED BY <3>5 DEF S
  <2> QED BY <2>5, <2>7, Zenon
<1>7. TagStart(tags, 1) = 0
  <2>1. 1 \in 1 .. l + 1 /\ 1 - 1 = 0
    BY <1>1
  <2> QED BY <1>3, <1>6, <2>1
<1>8. ASSUME NEW k \in 1 .. l + 1
      PROVE  TagStart(tags, k) \in Nat /\ TagStart(tags, k) % 8 = 0
  <2>1. k - 1 \in 0 .. l
    BY <1>1
  <2> QED BY <1>5, <1>6, <2>1
<1>9. ASSUME NEW k \in 1 .. l
      PROVE  TagStart(tags, k + 1) = TagStart(tags, k) + Padded(tags[k].size)
  <2> DEFINE next_k == k + 1
  <2>1. k \in 1 .. l + 1 /\ next_k \in 1 .. l + 1 /\ next_k - 1 = k
    BY <1>1
  <2> HIDE DEF next_k
  <2>2. TagStart(tags, k) = g[k - 1] /\ TagStart(tags, next_k) = g[k]
    BY <1>6, <2>1, Zenon
  <2>3. TagStart(tags, next_k) = TagStart(tags, k) + Padded(tags[k].size)
    BY <1>4, <2>2, Zenon
  <2> QED BY <2>3 DEF next_k
<1> QED BY <1>7, <1>8, <1>9 DEF l

LEMMA TagsInOrder ==
  ASSUME NEW tags \in Seq([type : STRING, size : Nat \ {0}])
  PROVE  \A j, k \in 1 .. Len(tags) + 1 : j < k => TagStart(tags, j) < TagStart(tags, k)
<1> DEFINE l == Len(tags)
           s(k) == TagStart(tags, k)
<1>1. l \in Nat
  OBVIOUS
<1>2. \A k \in 1 .. l + 1 : s(k) \in Nat /\ s(k) % 8 = 0
  BY TagStarts, Zenon
<1>3. ASSUME NEW k \in 1 .. l PROVE s(k) < s(k + 1)
  <2>1. k \in 1 .. l + 1
    BY <1>1
  <2>2. s(k + 1) = s(k) + Padded(tags[k].size) /\ s(k) \in Nat /\ s(k) % 8 = 0
    BY <1>2, <2>1, TagStarts, Zenon
  <2>3. tags[k].size \in Nat \ {0}
    <3> DEFINE Tags == [type : STRING, size : Nat \ {0}]
    <3>1. \A t \in Tags : t.size \in Nat \ {0}
      OBVIOUS
    <3>2. tags \in Seq(Tags)
      OBVIOUS
    <3> HIDE DEF Tags
    <3>3. tags[k] \in Tags
      BY <3>2
    <3> QED BY <3>1, <3>3, Zenon
  <2> HIDE DEF s
  <2>4. s(k) + Padded(tags[k].size) > s(k)
    BY <2>2, <2>3, Alignment, Zenon
  <2>5. s(k + 1) > s(k)
    BY <2>2, <2>4, Zenon
  <2>6. s(k + 1) \in Nat
    <3>1. k + 1 \in 1 .. l + 1
      BY <1>1
    <3> QED BY <1>2, <3>1, Zenon
  <2> QED BY <2>2, <2>5, <2>6
<1> HIDE DEF l, s
<1> DEFINE S == {k \in Nat : k + 1 <= l + 1 => \A j \in 1 .. k : s(j) < s(k + 1)}
<1>4. 0 \in S
  OBVIOUS
<1>5. ASSUME NEW k \in S PROVE k + 1 \in S
  <2>1. k \in Nat
    OBVIOUS
  <2>2. ASSUME k + 1 + 1 <= l + 1, NEW j \in 1 .. k + 1 PROVE s(j) < s(k + 1 + 1)
    <3>1. k + 1 \in 1 .. l /\ k + 1 \in 1 .. l + 1 /\ k + 1 + 1 \in 1 .. l + 1 /\ j \in 1 .. l + 1
      BY <1>1, <2>1, <2>2
    <3>2. s(k + 1) < s(k + 1 + 1) /\ s(j) \in Nat /\ s(k + 1) \in Nat /\ s(k + 1 + 1) \in Nat
      BY <1>2, <1>3, <3>1
    <3>3. j = k + 1 \/ s(j) < s(k + 1)
      BY <1>1, <2>1, <2>2
    <3> QED BY <3>2, <3>3
  <2> QED BY <2>1, <2>2
<1> HIDE DEF S
<1>6. S \in SUBSET Nat
  BY DEF S
<1>7. S = Nat
  BY <1>4, <1>5, <1>6, Induction, Zenon
<1>8. ASSUME NEW j \in 1 .. l + 1, NEW k \in 1 .. l + 1, j < k PROVE s(j) < s(k)
  <2>1. k - 1 \in S /\ j \in 1 .. k - 1 /\ k - 1 + 1 = k /\ k - 1 + 1 <= l + 1
    BY <1>1, <1>7, <1>8
  <2> QED BY <2>1 DEF S
<1> QED BY <1>8 DEF l, s

(* The k-th tag is the first that counts. *)
IsFirst(k, type) ==
  /\ k \in DOMAIN call.tags /\ call.tags[k].type = type
  /\ \A m \in 1 .. k - 1 : call.tags[m].type \notin {type, TagEnd}

LEMMA FirstIsOne ==
  ASSUME call.tags \in Seq([type : STRING, size : Nat \ {0}]), NEW type
  PROVE  /\ \A k : IsFirst(k, type) => FirstTag(type) = k /\ FirstTag(type) # 0
         /\ (\A k \in DOMAIN call.tags : ~IsFirst(k, type)) => FirstTag(type) = 0
<1> DEFINE Hits == {k \in DOMAIN call.tags :
                      /\ call.tags[k].type = type
                      /\ \A m \in 1 .. k - 1 : call.tags[m].type \notin {type, TagEnd}}
<1>1. DOMAIN call.tags = 1 .. Len(call.tags) /\ Len(call.tags) \in Nat
  OBVIOUS
<1>2. \A k : k \in Hits <=> IsFirst(k, type)
  BY Zenon DEF IsFirst
<1>3. FirstTag(type) = IF Hits = {} THEN 0 ELSE CHOOSE k \in Hits : TRUE
  BY Zenon DEF FirstTag
<1> HIDE DEF Hits
<1>4. ASSUME NEW j \in Hits, NEW k \in Hits PROVE j = k
  <2>0. IsFirst(j, type) /\ IsFirst(k, type)
    BY <1>2, Zenon
  <2>1. j \in Nat /\ k \in Nat /\ j >= 1 /\ k >= 1
    BY <1>1, <2>0 DEF IsFirst
  <2>2. ~(j < k)
    <3>1. j < k => j \in 1 .. k - 1
      BY <2>1
    <3> QED BY <2>0, <3>1 DEF IsFirst
  <2>3. ~(k < j)
    <3>1. k < j => k \in 1 .. j - 1
      BY <2>1
    <3> QED BY <2>0, <3>1 DEF IsFirst
  <2> QED BY <2>1, <2>2, <2>3
<1>5. ASSUME NEW k, IsFirst(k, type) PROVE FirstTag(type) = k /\ FirstTag(type) # 0
  <2>1. k \in Hits /\ k # 0
    BY <1>1, <1>2, <1>5 DEF IsFirst
  <2>2. (CHOOSE j \in Hits : TRUE) \in Hits
    BY <2>1, Zenon
  <2>3. (CHOOSE j \in Hits : TRUE) = k
    BY <1>4, <2>1, <2>2, Zenon
  <2> QED BY <1>3, <2>1, <2>3, Zenon
<1>6. ASSUME \A k \in DOMAIN call.tags : ~IsFirst(k, type) PROVE FirstTag(type) = 0
  <2>1. Hits = {}
    BY <1>2, <1>6, Zenon DEF IsFirst
  <2> QED BY <1>3, <2>1, Zenon
<1> QED BY <1>5, <1>6, Zenon

-----------------------------------------------------------------------------
(* The searches *)
LEMMA StepOfSearch ==
  ASSUME [Next]_frame
  PROVE  /\ call.fn = "multiboot_find_tag" => UNCHANGED frame \/ FindTag
         /\ call.fn = "memory_get_kb" => UNCHANGED frame \/ GetKb
         /\ call.fn = "find_vga" => UNCHANGED frame \/ FindVga
         /\ call.fn = "writef" => UNCHANGED frame \/ Writef
<1>1. StringsNext => call.fn \in {"strcmp", "strlen", "memcmp", "memcpy", "memset", "itoa", "itoa_hex"}
  BY Zenon DEF StringsNext, Strcmp, Strlen, Memcmp, Memcpy, Memset, Itoa, In
<1>2. /\ FindTag => call.fn = "multiboot_find_tag"
      /\ GetKb => call.fn = "memory_get_kb"
      /\ FindVga => call.fn = "find_vga"
      /\ Writef => call.fn = "writef"
  BY Zenon DEF FindTag, GetKb, FindVga, Writef, In
<1>3. UNCHANGED frame \/ StringsNext \/ Writef \/ FindTag \/ GetKb \/ FindVga
  BY Zenon DEF Next, DiscoveryNext
<1> QED BY <1>1, <1>2, <1>3

(* multiboot_find_tag stands on the beginning of a tag or on the end, and   *)
(* has passed no tag that counts.                                           *)
Answer == IF FirstTag(call.type) = 0 THEN Null ELSE TagStart(call.tags, FirstTag(call.type))

FindTagInv ==
  call.fn = "multiboot_find_tag" =>
    /\ call.tags \in Seq([type : STRING, size : Nat \ {0}])
    /\ call.type # TagEnd
    /\ n = TagStart(call.tags, Len(call.tags) + 1)
    /\ \E k \in 1 .. Len(call.tags) + 1 :
         /\ i = TagStart(call.tags, k)
         /\ \A m \in 1 .. k - 1 : call.tags[m].type \notin {call.type, TagEnd}
    /\ returned => result = Answer

LEMMA FindTagInit == Called => FindTagInv
<1> SUFFICES ASSUME Called, call.fn = "multiboot_find_tag" PROVE FindTagInv
  BY Zenon DEF FindTagInv
<1>1. call \in Calls /\ i = 0 /\ n = call.n /\ returned = FALSE
  BY DEF Called
<1>2. /\ call.tags \in Seq([type : STRING, size : Nat \ {0}]) /\ call.type # TagEnd
      /\ n = TagStart(call.tags, Len(call.tags) + 1)
  BY <1>1, SearchCalls, Zenon
<1>3. i = TagStart(call.tags, 1)
  BY <1>1, <1>2, TagStarts, Zenon
<1>4. 1 \in 1 .. Len(call.tags) + 1 /\ \A m : m \notin 1 .. 1 - 1
  BY <1>2
<1> QED BY <1>1, <1>2, <1>3, <1>4, Zenon DEF FindTagInv

LEMMA FindTagNext == FindTagInv /\ [Next]_frame => FindTagInv'
<1> SUFFICES ASSUME FindTagInv, [Next]_frame, call.fn = "multiboot_find_tag"
             PROVE  FindTagInv'
  BY StepOfCall, Zenon DEF FindTagInv
<1> DEFINE T == call.tags
           l == Len(call.tags)
<1>1. /\ T \in Seq([type : STRING, size : Nat \ {0}])
      /\ call.type # TagEnd
      /\ n = TagStart(T, l + 1)
      /\ \E k \in 1 .. l + 1 :
           /\ i = TagStart(T, k)
           /\ \A m \in 1 .. k - 1 : T[m].type \notin {call.type, TagEnd}
      /\ returned => result = Answer
  BY Zenon DEF FindTagInv
<1>2. call' = call /\ (UNCHANGED frame \/ FindTag)
  BY StepOfCall, StepOfSearch, Zenon
<1>3. Answer' = Answer
  <2>1. FirstTag(call.type)' = FirstTag(call.type)
    BY <1>2 DEF FirstTag
  <2> QED BY <1>2, <2>1, Zenon DEF Answer
<1>4. ASSUME i' = i, n' = n, returned' => result' = Answer PROVE FindTagInv'
  <2>1. returned' => result' = Answer'
    BY <1>3, <1>4, Zenon
  <2>2. /\ (call.tags \in Seq([type : STRING, size : Nat \ {0}]))'
        /\ (call.type # TagEnd)'
        /\ (n = TagStart(call.tags, Len(call.tags) + 1))'
        /\ (\E k \in 1 .. Len(call.tags) + 1 :
              /\ i = TagStart(call.tags, k)
              /\ \A m \in 1 .. k - 1 : call.tags[m].type \notin {call.type, TagEnd})'
    BY <1>1, <1>2, <1>4, Zenon
  <2> QED BY <2>1, <2>2, Zenon DEF FindTagInv
<1>5. CASE UNCHANGED frame
  BY <1>1, <1>4, <1>5, Zenon DEF frame
<1>6. CASE FindTag
  <2>1. PICK k \in 1 .. l + 1 :
          /\ i = TagStart(T, k)
          /\ \A m \in 1 .. k - 1 : T[m].type \notin {call.type, TagEnd}
    BY <1>1, Zenon
  <2>2. l \in Nat /\ DOMAIN T = 1 .. l /\ k \in Nat /\ k >= 1
    BY <1>1, <2>1
  <2> HIDE DEF T, l
  <2>3. CASE i >= n /\ Return(Null)
    <3>1. k = l + 1
      <4>1. l + 1 \in 1 .. l + 1
        BY <2>2
      <4>2. k < l + 1 => i < n
        BY <1>1, <2>1, <4>1, TagsInOrder, Zenon DEF T, l
      <4>3. i \in Nat /\ n \in Nat
        BY <1>1, <2>1, <4>1, TagStarts, Zenon DEF T, l
      <4> QED BY <2>1, <2>2, <2>3, <4>2, <4>3
    <3>2. \A m \in DOMAIN T : T[m].type \notin {call.type, TagEnd}
      <4>1. k - 1 = l
        BY <2>2, <3>1
      <4> QED BY <2>1, <2>2, <4>1
    <3>3. \A m \in DOMAIN call.tags : ~IsFirst(m, call.type)
      BY <3>2, Zenon DEF IsFirst, T
    <3>4. FirstTag(call.type) = 0
      BY <1>1, <3>3, FirstIsOne, Zenon DEF T
    <3>5. result' = Answer /\ i' = i /\ n' = n
      BY <2>3, <3>4, Zenon DEF Answer, Return
    <3> QED BY <1>4, <3>5, Zenon
  <2>4. CASE i < n
    <3>1. k \in 1 .. l
      <4>1. l + 1 \in 1 .. l + 1
        BY <2>2
      <4>2. n \in Nat
        BY <1>1, <4>1, TagStarts, Zenon DEF T, l
      <4>3. k # l + 1
        <5>1. ~(n < n)
          BY <4>2
        <5> QED BY <1>1, <2>1, <2>4, <5>1, Zenon
      <4> QED BY <2>1, <2>2, <4>3
    <3>2. ASSUME NEW j \in DOMAIN T, TagStart(T, j) = i PROVE j = k
      <4>1. j \in 1 .. l + 1 /\ j \in Nat
        BY <2>2
      <4>2. i \in Nat
        BY <1>1, <2>1, TagStarts, Zenon DEF T, l
      <4>3. /\ j < k => TagStart(T, j) < i
            /\ k < j => i < TagStart(T, j)
        BY <1>1, <2>1, <4>1, TagsInOrder, Zenon DEF T, l
      <4>4. ~(i < i)
        BY <4>2
      <4>5. ~(j < k) /\ ~(k < j)
        BY <3>2, <4>3, <4>4, Zenon
      <4> QED BY <2>2, <4>1, <4>5
    <3>3. TagAt(i) = T[k]
      <4> DEFINE here == CHOOSE j \in DOMAIN T : TagStart(T, j) = i
      <4>1. k \in DOMAIN T /\ TagStart(T, k) = i
        BY <2>1, <2>2, <3>1, Zenon
      <4>2. here \in DOMAIN T /\ TagStart(T, here) = i
        BY <4>1, Zenon
      <4> HIDE DEF here
      <4>3. here = k
        BY <3>2, <4>2, Zenon
      <4>4. TagAt(i) = T[here]
        BY Zenon DEF TagAt, here, T
      <4> QED BY <4>3, <4>4, Zenon
    <3>4. \/ T[k].type = TagEnd /\ Return(Null)
          \/ T[k].type # TagEnd /\ T[k].type = call.type /\ Return(i)
          \/ T[k].type \notin {TagEnd, call.type} /\ Advance(Padded(T[k].size))
      <4>1. ~(i >= n)
        <5>1. l + 1 \in 1 .. l + 1
          BY <2>2
        <5>2. i \in Nat /\ n \in Nat
          BY <1>1, <2>1, <5>1, TagStarts, Zenon DEF T, l
        <5> QED BY <2>4, <5>2
      <4>2. LET tag == T[k]
            IN  \/ tag.type = TagEnd /\ Return(Null)
                \/ tag.type # TagEnd /\ tag.type = call.type /\ Return(i)
                \/ /\ tag.type \notin {TagEnd, call.type}
                   /\ Advance(Padded(tag.size))
        BY <1>6, <3>3, <4>1, Zenon DEF FindTag
      <4> QED BY <4>2, Zenon
    <3>5. CASE T[k].type = TagEnd /\ Return(Null)
      <4>1. ASSUME NEW m \in DOMAIN call.tags PROVE ~IsFirst(m, call.type)
        <5>1. CASE m \in 1 .. k - 1
          BY <2>1, <5>1, Zenon DEF IsFirst, T
        <5>2. CASE m = k
          BY <1>1, <3>5, <5>2, Zenon DEF IsFirst, T
        <5>3. CASE k \in 1 .. m - 1
          BY <3>5, <5>3, Zenon DEF IsFirst, T
        <5> QED BY <2>2, <5>1, <5>2, <5>3 DEF T
      <4>2. FirstTag(call.type) = 0
        BY <1>1, <4>1, FirstIsOne, Zenon DEF T
      <4>3. result' = Answer /\ i' = i /\ n' = n
        BY <3>5, <4>2, Zenon DEF Answer, Return
      <4> QED BY <1>4, <4>3, Zenon
    <3>6. CASE T[k].type = call.type /\ Return(i)
      <4>1. IsFirst(k, call.type)
        BY <2>1, <2>2, <3>1, <3>6, Zenon DEF IsFirst, T
      <4>2. FirstTag(call.type) = k /\ FirstTag(call.type) # 0
        BY <1>1, <4>1, FirstIsOne, Zenon DEF T
      <4>3. result' = Answer /\ i' = i /\ n' = n
        BY <2>1, <3>6, <4>2, Zenon DEF Answer, Return, T
      <4> QED BY <1>4, <4>3, Zenon
    <3>7. CASE T[k].type \notin {TagEnd, call.type} /\ Advance(Padded(T[k].size))
      <4>1. i' = i + Padded(T[k].size) /\ n' = n /\ returned' = returned /\ result' = result
        BY <3>7, Zenon DEF Advance
      <4>2. i' = TagStart(T, k + 1)
        BY <1>1, <2>1, <3>1, <4>1, TagStarts, Zenon DEF T, l
      <4>3. k + 1 \in 1 .. l + 1 /\ \A m \in 1 .. k + 1 - 1 : m \in 1 .. k - 1 \/ m = k
        BY <2>2, <3>1
      <4>4. \A m \in 1 .. k + 1 - 1 : T[m].type \notin {call.type, TagEnd}
        BY <2>1, <3>7, <4>3, Zenon
      <4>5. \E j \in 1 .. l + 1 :
              /\ i' = TagStart(T, j)
              /\ \A m \in 1 .. j - 1 : T[m].type \notin {call.type, TagEnd}
        <5> DEFINE j == k + 1
        <5>1. /\ j \in 1 .. l + 1 /\ i' = TagStart(T, j)
              /\ \A m \in 1 .. j - 1 : T[m].type \notin {call.type, TagEnd}
          BY <4>2, <4>3, <4>4
        <5> HIDE DEF j
        <5> QED BY <5>1, Zenon
      <4>6. T' = T /\ l' = l
        BY <1>2, Zenon DEF T, l
      <4>7. returned' => result' = Answer'
        BY <1>1, <1>3, <4>1, Zenon
      <4>8. /\ (call.tags \in Seq([type : STRING, size : Nat \ {0}]))'
            /\ (call.type # TagEnd)'
            /\ (n = TagStart(call.tags, Len(call.tags) + 1))'
            /\ (\E k_1 \in 1 .. Len(call.tags) + 1 :
                  /\ i = TagStart(call.tags, k_1)
                  /\ \A m \in 1 .. k_1 - 1 : call.tags[m].type \notin {call.type, TagEnd})'
        BY <1>1, <1>2, <4>1, <4>5, Zenon DEF T, l
      <4> QED BY <4>7, <4>8, Zenon DEF FindTagInv
    <3> QED BY <3>4, <3>5, <3>6, <3>7, Zenon
  <2>5. (i >= n /\ Return(Null)) \/ i < n
    BY <1>6, Zenon DEF FindTag
  <2> QED BY <2>3, <2>4, <2>5, Zenon
<1> QED BY <1>2, <1>5, <1>6, Zenon

(* The sums that memory_get_kb goes through *)
Running(s) == CHOOSE f : f = [k \in 0 .. Len(s) |-> IF k = 0 THEN 0 ELSE f[k - 1] + s[k]]

LEMMA RunningSums ==
  ASSUME NEW s \in Seq(Nat)
  PROVE  /\ SumOf(s) = Running(s)[Len(s)]
         /\ Running(s)[0] = 0
         /\ \A k \in 0 .. Len(s) : Running(s)[k] \in Nat
         /\ \A k \in 1 .. Len(s) : Running(s)[k] = Running(s)[k - 1] + s[k]
<1> DEFINE l == Len(s)
           next == [q \in Nat \X (1 .. l) |-> q[1] + s[q[2]]]
           Sums(f) == f = [k \in 0 .. l |-> IF k = 0 THEN 0 ELSE f[k - 1] + s[k]]
<1>1. l \in Nat /\ \A k \in 1 .. l : s[k] \in Nat
  OBVIOUS
<1>2. SumOf(s) = Running(s)[l]
  BY Zenon DEF SumOf, Running
<1> HIDE DEF l
<1>3. ASSUME NEW v \in Nat, NEW k \in 1 .. l
      PROVE  next[<<v, k>>] = v + s[k] /\ next[<<v, k>>] \in Nat
  <2>1. next[<<v, k>>] = v + s[k]
    OBVIOUS
  <2> HIDE DEF next
  <2> QED BY <1>1, <2>1
<1> HIDE DEF next
<1>4. PICK g \in [0 .. l -> Nat] : g[0] = 0 /\ \A k \in 1 .. l : g[k] = next[<<g[k - 1], k>>]
  <2>1. Closed(Nat, l, next)
    BY <1>3, Zenon DEF Closed
  <2>2. 0 \in Nat
    OBVIOUS
  <2>3. \E g \in [0 .. l -> Nat] : Follows(g, 0, l, next)
    BY <1>1, <2>1, <2>2, Recursion, Zenon
  <2> QED BY <2>3, Zenon DEF Follows
<1>5. ASSUME NEW k \in 1 .. l PROVE g[k] = g[k - 1] + s[k]
  <2>1. k - 1 \in 0 .. l
    BY <1>1
  <2>2. g[k - 1] \in Nat
    BY <2>1
  <2> QED BY <1>3, <1>4, <2>2, Zenon
<1>6. Sums(g)
  <2>1. ASSUME NEW k \in 0 .. l PROVE g[k] = IF k = 0 THEN 0 ELSE g[k - 1] + s[k]
    <3>1. k = 0 \/ k \in 1 .. l
      BY <1>1
    <3>2. k \in 1 .. l => k # 0
      BY <1>1
    <3> QED BY <1>4, <1>5, <3>1, <3>2, Zenon
  <2> QED BY <2>1
<1>7. Running(s) = CHOOSE f : Sums(f)
  BY Zenon DEF Running, l
<1> DEFINE r == Running(s)
<1> HIDE DEF Sums, r
<1>8. Sums(r)
  BY <1>6, <1>7, Zenon DEF r
<1>9. /\ \A k \in 0 .. l : r[k] = IF k = 0 THEN 0 ELSE r[k - 1] + s[k]
  BY <1>8 DEF Sums
<1>10. r[0] = 0 /\ \A k \in 1 .. l : r[k] = r[k - 1] + s[k]
  <2>1. 0 \in 0 .. l /\ \A k \in 1 .. l : k \in 0 .. l /\ k # 0
    BY <1>1
  <2> QED BY <1>9, <2>1, Zenon
<1>11. ASSUME NEW k \in 1 .. l, r[k - 1] \in Nat PROVE r[k] \in Nat
  <2>1. r[k] = r[k - 1] + s[k] /\ s[k] \in Nat
    BY <1>1, <1>10, Zenon
  <2> QED BY <1>11, <2>1
<1>12. \A k \in 0 .. l : r[k] \in Nat
  <2> DEFINE S == {k \in Nat : k <= l => r[k] \in Nat}
  <2>1. 0 \in S
    BY <1>10
  <2>2. ASSUME NEW k \in S PROVE k + 1 \in S
    <3>1. ASSUME k + 1 <= l PROVE r[k + 1] \in Nat
      <4> DEFINE j == k + 1
      <4>1. j \in 1 .. l /\ j - 1 = k /\ r[k] \in Nat
        BY <1>1, <3>1
      <4> HIDE DEF j
      <4>2. r[j] \in Nat
        BY <1>11, <4>1, Zenon
      <4> QED BY <4>2 DEF j
    <3> QED BY <3>1
  <2> HIDE DEF S
  <2>3. S \in SUBSET Nat
    BY DEF S
  <2>4. S = Nat
    BY <2>1, <2>2, <2>3, Induction, Zenon
  <2>5. ASSUME NEW k \in 0 .. l PROVE r[k] \in Nat
    <3>1. k \in S /\ k <= l
      BY <1>1, <2>4
    <3> QED BY <3>1 DEF S
  <2> QED BY <2>5
<1> QED BY <1>2, <1>10, <1>12, Zenon DEF r, l

Lens == [k \in DOMAIN call.entries |->
           IF call.entries[k].available THEN call.entries[k].len ELSE 0]
InKiB(m) == m \div 1024
Basic == IF FirstTag(BasicMemory) = 0 THEN 0 ELSE call.mem_upper + 1024

GetKbInv ==
  call.fn = "memory_get_kb" =>
    /\ call.entries \in Seq([available : BOOLEAN, len : Nat])
    /\ i \in 0 .. Len(call.entries)
    /\ n = Running(Lens)[i]
    /\ returned => \/ /\ FirstTag(Mmap) # 0
                      /\ i = Len(call.entries) /\ result = InKiB(n)
                   \/ FirstTag(Mmap) = 0 /\ result = Basic

LEMMA LensAreNumbers ==
  ASSUME call.entries \in Seq([available : BOOLEAN, len : Nat])
  PROVE  /\ Lens \in Seq(Nat) /\ Len(Lens) = Len(call.entries)
         /\ \A k \in 1 .. Len(call.entries) : Lens[k] = Usable(call.entries[k])
<1> DEFINE Entries == [available : BOOLEAN, len : Nat]
<1>1. \A e \in Entries : Usable(e) \in Nat
  BY DEF Usable
<1>2. call.entries \in Seq(Entries)
  OBVIOUS
<1> HIDE DEF Entries
<1>3. /\ DOMAIN call.entries = 1 .. Len(call.entries) /\ Len(call.entries) \in Nat
      /\ \A k \in 1 .. Len(call.entries) : call.entries[k] \in Entries
  BY <1>2
<1>4. Lens \in [1 .. Len(call.entries) -> Nat]
  BY <1>1, <1>3 DEF Lens, Usable
<1>5. \A k \in 1 .. Len(call.entries) : Lens[k] = Usable(call.entries[k])
  BY <1>3 DEF Lens, Usable
<1> QED BY <1>3, <1>4, <1>5

LEMMA KbSteps ==
  GetKb => \/ /\ i < Len(call.entries)
              /\ n' = n + Usable(call.entries[i + 1])
              /\ i' = i + 1 /\ returned' = returned
           \/ FirstTag(Mmap) # 0 /\ i = Len(call.entries) /\ Return(InKiB(n))
           \/ FirstTag(Mmap) = 0 /\ Return(Basic)
<1>1. Basic = IF FirstTag(BasicMemory) # 0 THEN call.mem_upper + 1024 ELSE 0
  BY SMT DEF Basic
<1> QED BY <1>1, Zenon DEF GetKb, InKiB

LEMMA GetKbInit == Called => GetKbInv
<1> SUFFICES ASSUME Called, call.fn = "memory_get_kb" PROVE GetKbInv
  BY Zenon DEF GetKbInv
<1>1. call \in Calls /\ i = 0 /\ n = call.n /\ returned = FALSE
  BY DEF Called
<1>2. call.entries \in Seq([available : BOOLEAN, len : Nat]) /\ n = 0
  BY <1>1, SearchCalls, Zenon
<1>3. i \in 0 .. Len(call.entries)
  BY <1>1, <1>2
<1>4. n = Running(Lens)[i]
  BY <1>1, <1>2, LensAreNumbers, RunningSums, Zenon
<1> QED BY <1>1, <1>2, <1>3, <1>4, Zenon DEF GetKbInv

LEMMA GetKbNext == GetKbInv /\ [Next]_frame => GetKbInv'
<1> SUFFICES ASSUME GetKbInv, [Next]_frame, call.fn = "memory_get_kb" PROVE GetKbInv'
  BY StepOfCall, Zenon DEF GetKbInv
<1> DEFINE Rest(r, k, m) == \/ FirstTag(Mmap) # 0 /\ k = Len(call.entries) /\ r = InKiB(m)
                            \/ FirstTag(Mmap) = 0 /\ r = Basic
<1>1. /\ call.entries \in Seq([available : BOOLEAN, len : Nat])
      /\ i \in 0 .. Len(call.entries)
      /\ n = Running(Lens)[i]
      /\ returned => Rest(result, i, n)
  BY Zenon DEF GetKbInv
<1>2. call' = call /\ (UNCHANGED frame \/ GetKb)
  BY StepOfCall, StepOfSearch, Zenon
<1>3. Lens' = Lens /\ FirstTag(Mmap)' = FirstTag(Mmap) /\ Basic' = Basic
  BY <1>2 DEF Lens, FirstTag, Basic
<1>4. ASSUME i' \in 0 .. Len(call.entries), n' = Running(Lens)[i'],
             returned' => Rest(result', i', n')
      PROVE  GetKbInv'
  <2>1. /\ (call.entries \in Seq([available : BOOLEAN, len : Nat]))'
        /\ (i \in 0 .. Len(call.entries))'
    BY <1>1, <1>2, <1>4, Zenon
  <2>2. (n = Running(Lens)[i])'
    BY <1>3, <1>4, Zenon
  <2>3. (returned => \/ /\ FirstTag(Mmap) # 0
                        /\ i = Len(call.entries) /\ result = InKiB(n)
                     \/ FirstTag(Mmap) = 0 /\ result = Basic)'
    BY <1>2, <1>3, <1>4, Zenon
  <2> QED BY <2>1, <2>2, <2>3, Zenon DEF GetKbInv
<1>5. CASE UNCHANGED frame
  <2>1. i' = i /\ n' = n /\ returned' = returned /\ result' = result
    BY <1>5 DEF frame
  <2> HIDE DEF Rest
  <2> QED BY <1>1, <1>4, <2>1, Zenon
<1>6. CASE GetKb
  <2>1. CASE /\ i < Len(call.entries)
             /\ n' = n + Usable(call.entries[i + 1])
             /\ i' = i + 1 /\ returned' = returned
    <3>1. ~returned
      BY <1>6 DEF GetKb, In
    <3>2. Len(call.entries) \in Nat
      BY <1>1
    <3>3. i' \in 0 .. Len(call.entries) /\ i' \in 1 .. Len(call.entries) /\ i' - 1 = i
      BY <1>1, <2>1, <3>2
    <3>4. Running(Lens)[i'] = Running(Lens)[i' - 1] + Lens[i']
      <4>1. Lens \in Seq(Nat) /\ Len(Lens) = Len(call.entries)
        BY <1>1, LensAreNumbers, Zenon
      <4>2. i' \in 1 .. Len(Lens)
        BY <3>3, <4>1, Zenon
      <4>3. \A k \in 1 .. Len(Lens) : Running(Lens)[k] = Running(Lens)[k - 1] + Lens[k]
        BY <4>1, RunningSums, Zenon
      <4> QED BY <4>2, <4>3, Zenon
    <3>5. Lens[i'] = Usable(call.entries[i'])
      BY <1>1, <3>3, LensAreNumbers, Zenon
    <3>6. n' = Running(Lens)[i']
      BY <1>1, <2>1, <3>3, <3>4, <3>5, Zenon
    <3> QED BY <1>4, <2>1, <3>1, <3>3, <3>6, Zenon
  <2>2. CASE FirstTag(Mmap) # 0 /\ i = Len(call.entries) /\ Return(InKiB(n))
    <3>1. i' = i /\ n' = n /\ result' = InKiB(n)
      BY <2>2, Zenon DEF Return
    <3>2. Rest(result', i', n')
      BY <2>2, <3>1, Zenon
    <3> HIDE DEF Rest
    <3> QED BY <1>1, <1>4, <3>1, <3>2, Zenon
  <2>3. CASE FirstTag(Mmap) = 0 /\ Return(Basic)
    <3>1. i' = i /\ n' = n /\ result' = Basic
      BY <2>3, Zenon DEF Return
    <3>2. Rest(result', i', n')
      BY <2>3, <3>1, Zenon
    <3> HIDE DEF Rest
    <3> QED BY <1>1, <1>4, <3>1, <3>2, Zenon
  <2> QED BY <1>6, <2>1, <2>2, <2>3, KbSteps, Zenon
<1> QED BY <1>2, <1>5, <1>6, Zenon

FindVgaInv ==
  call.fn = "find_vga" =>
    /\ call.slots \in Seq(STRING) /\ n = Len(call.slots)
    /\ i \in 0 .. n
    /\ \A k \in 1 .. i : call.slots[k] # "vga"
    /\ returned => \/ i < n /\ call.slots[i + 1] = "vga" /\ result = i
                   \/ i = n /\ result = Null

LEMMA FindVgaInit == Called => FindVgaInv
<1> SUFFICES ASSUME Called, call.fn = "find_vga" PROVE FindVgaInv
  BY Zenon DEF FindVgaInv
<1>1. call \in Calls /\ i = 0 /\ n = call.n /\ returned = FALSE
  BY DEF Called
<1>2. call.slots \in Seq(STRING) /\ n = Len(call.slots)
  BY <1>1, SearchCalls, Zenon
<1>3. i \in 0 .. n /\ \A k : k \notin 1 .. i
  BY <1>1, <1>2
<1> QED BY <1>1, <1>2, <1>3, Zenon DEF FindVgaInv

LEMMA FindVgaNext == FindVgaInv /\ [Next]_frame => FindVgaInv'
<1> SUFFICES ASSUME FindVgaInv, [Next]_frame, call.fn = "find_vga" PROVE FindVgaInv'
  BY StepOfCall, Zenon DEF FindVgaInv
<1>1. /\ call.slots \in Seq(STRING) /\ n = Len(call.slots)
      /\ i \in 0 .. n
      /\ \A k \in 1 .. i : call.slots[k] # "vga"
      /\ returned => \/ i < n /\ call.slots[i + 1] = "vga" /\ result = i
                     \/ i = n /\ result = Null
  BY Zenon DEF FindVgaInv
<1>2. call' = call /\ (UNCHANGED frame \/ FindVga)
  BY StepOfCall, StepOfSearch, Zenon
<1>3. ASSUME i' = i, n' = n,
             returned' => \/ i < n /\ call.slots[i + 1] = "vga" /\ result' = i
                          \/ i = n /\ result' = Null
      PROVE  FindVgaInv'
  BY <1>1, <1>2, <1>3, Zenon DEF FindVgaInv
<1>4. CASE UNCHANGED frame
  BY <1>1, <1>3, <1>4, Zenon DEF frame
<1>5. CASE ~returned /\ i < n /\ call.slots[i + 1] # "vga" /\ SkipSlot
  <2>1. i' = i + 1 /\ n' = n /\ returned' = returned
    BY <1>5, Zenon DEF SkipSlot, Advance
  <2>2. n \in Nat
    BY <1>1
  <2>3. i' \in 0 .. n /\ \A k \in 1 .. i' : k \in 1 .. i \/ k = i + 1
    BY <1>1, <1>5, <2>1, <2>2
  <2>4. \A k \in 1 .. i' : call.slots[k] # "vga"
    BY <1>1, <1>5, <2>3, Zenon
  <2> QED BY <1>1, <1>2, <1>5, <2>1, <2>3, <2>4, Zenon DEF FindVgaInv
<1>6. CASE i < n /\ call.slots[i + 1] = "vga" /\ Return(i)
  BY <1>3, <1>6, Zenon DEF Return
<1>7. CASE i = n /\ Return(Null)
  BY <1>3, <1>7, Zenon DEF Return
<1> QED BY <1>2, <1>4, <1>5, <1>6, <1>7, Zenon DEF FindVga, In

LEMMA Rounded ==
  ASSUME NEW m \in Nat, NEW q, q = m \div 1024
  PROVE  q * 1024 \in m - 1023 .. m
<1>1. q \in Nat /\ q * 1024 <= m /\ m < q * 1024 + 1024
  OBVIOUS
<1> QED BY <1>1

(* For every list of tags, of any sizes, every memory map and every         *)
(* arrangement of devices: the walk over the tags never leaves their        *)
(* beginnings, the first tag that counts is found, memory is summed up      *)
(* whole and then rounded, and the first display is the one found.          *)
THEOREM FindsRightly == Spec => []Finds
<1>1. ASSUME FindTagInv, call.fn = "multiboot_find_tag"
      PROVE  /\ i < n => IsTag(i)
             /\ returned => result = IF FirstTag(call.type) = 0 THEN Null
                                     ELSE TagStart(call.tags, FirstTag(call.type))
  <2>1. PICK k \in 1 .. Len(call.tags) + 1 : i = TagStart(call.tags, k)
    BY <1>1, Zenon DEF FindTagInv
  <2>2. call.tags \in Seq([type : STRING, size : Nat \ {0}])
        /\ n = TagStart(call.tags, Len(call.tags) + 1)
    BY <1>1, Zenon DEF FindTagInv
  <2>3. Len(call.tags) \in Nat /\ DOMAIN call.tags = 1 .. Len(call.tags)
    BY <2>2
  <2>4. ASSUME i < n PROVE IsTag(i)
    <3>1. Len(call.tags) + 1 \in 1 .. Len(call.tags) + 1
      BY <2>3
    <3>2. n \in Nat
      BY <2>2, <3>1, TagStarts, Zenon
    <3>3. k # Len(call.tags) + 1
      <4>1. ~(n < n)
        BY <3>2
      <4> QED BY <2>1, <2>2, <2>4, <4>1, Zenon
    <3>4. k \in DOMAIN call.tags
      BY <2>3, <3>3
    <3> QED BY <2>1, <3>4, Zenon DEF IsTag
  <2>5. returned => result = Answer
    BY <1>1, Zenon DEF FindTagInv
  <2> QED BY <2>4, <2>5, Zenon DEF Answer
<1>2. ASSUME GetKbInv, call.fn = "memory_get_kb", returned
      PROVE  IF FirstTag(Mmap) # 0
             THEN result * 1024 \in SumOf(Lens) - 1023 .. SumOf(Lens)
             ELSE result = Basic
  <2>1. /\ call.entries \in Seq([available : BOOLEAN, len : Nat])
        /\ n = Running(Lens)[i]
        /\ \/ /\ FirstTag(Mmap) # 0
              /\ i = Len(call.entries) /\ result = InKiB(n)
           \/ FirstTag(Mmap) = 0 /\ result = Basic
    BY <1>2, Zenon DEF GetKbInv
  <2>2. CASE FirstTag(Mmap) # 0
    <3>1. i = Len(call.entries) /\ result = InKiB(n)
      BY <2>1, <2>2, Zenon
    <3>2. Lens \in Seq(Nat) /\ Len(Lens) = Len(call.entries)
      BY <2>1, LensAreNumbers, Zenon
    <3>3. i = Len(Lens) /\ Lens \in Seq(Nat) /\ result = InKiB(n)
      BY <3>1, <3>2, Zenon
    <3>4. n = SumOf(Lens)
      BY <2>1, <3>3, RunningSums, Zenon
    <3>5. Len(Lens) \in 0 .. Len(Lens)
      BY <3>3
    <3>6. SumOf(Lens) \in Nat
      BY <3>3, <3>5, RunningSums, Zenon
    <3>7. result * 1024 \in SumOf(Lens) - 1023 .. SumOf(Lens)
      <4> DEFINE sum == SumOf(Lens)
      <4>1. sum \in Nat /\ result = InKiB(sum)
        BY <3>3, <3>4, <3>6, Zenon
      <4> HIDE DEF sum
      <4>2. result * 1024 \in sum - 1023 .. sum
        BY <4>1, Rounded, SMT DEF InKiB
      <4> QED BY <4>2, Zenon DEF sum
    <3> QED BY <2>2, <3>7, Zenon
  <2>3. CASE FirstTag(Mmap) = 0
    BY <2>1, <2>3, Zenon
  <2> QED BY <2>2, <2>3, Zenon
<1>3. ASSUME FindVgaInv, call.fn = "find_vga", returned
      PROVE  IF result = Null THEN \A k \in DOMAIN call.slots : call.slots[k] # "vga"
             ELSE /\ call.slots[result + 1] = "vga"
                  /\ \A k \in 1 .. result : call.slots[k] # "vga"
  <2>1. /\ call.slots \in Seq(STRING) /\ n = Len(call.slots)
        /\ i \in 0 .. n
        /\ \A k \in 1 .. i : call.slots[k] # "vga"
        /\ \/ i < n /\ call.slots[i + 1] = "vga" /\ result = i
           \/ i = n /\ result = Null
    BY <1>3, Zenon DEF FindVgaInv
  <2>2. n \in Nat /\ DOMAIN call.slots = 1 .. n
    BY <2>1
  <2>3. i # Null
    BY <2>1, <2>2 DEF Null
  <2> QED BY <2>1, <2>2, <2>3, Zenon
<1>4. FindTagInv /\ GetKbInv /\ FindVgaInv => Finds
  <2> SUFFICES ASSUME FindTagInv, GetKbInv, FindVgaInv PROVE Finds
    OBVIOUS
  <2>1. call.fn = "multiboot_find_tag" =>
          /\ i < n => IsTag(i)
          /\ returned => result = IF FirstTag(call.type) = 0 THEN Null
                                 ELSE TagStart(call.tags, FirstTag(call.type))
    BY <1>1, Zenon
  <2>2. call.fn = "memory_get_kb" /\ returned =>
          IF FirstTag(Mmap) # 0
          THEN result * 1024 \in SumOf(Lens) - 1023 .. SumOf(Lens)
          ELSE result = Basic
    BY <1>2, Zenon
  <2>3. call.fn = "find_vga" /\ returned =>
          IF result = Null THEN \A k \in DOMAIN call.slots : call.slots[k] # "vga"
          ELSE /\ call.slots[result + 1] = "vga"
               /\ \A k \in 1 .. result : call.slots[k] # "vga"
    BY <1>3, Zenon
  <2> QED BY <2>1, <2>2, <2>3, Zenon DEF Finds, Lens, Basic
<1>5. Spec => [](FindTagInv /\ GetKbInv /\ FindVgaInv)
  BY FindTagInit, FindTagNext, GetKbInit, GetKbNext, FindVgaInit, FindVgaNext, PTL DEF Spec
<1> QED BY <1>4, <1>5, PTL

-----------------------------------------------------------------------------
(* What itoa and itoa_hex leave.  Worth(d) is the number without its last d  *)
(* digits.                                                                   *)
Worth(d) == call.n \div Limit(Base, d)

LEMMA Powers ==
  ASSUME NEW v \in Nat, NEW base, NEW most, NEW d \in 0 .. most - 1,
         (base = 10 /\ most = 10) \/ (base = 16 /\ most = 8)
  PROVE  /\ base ^ d = Limit(base, d)
         /\ v \div Limit(base, d) \in Nat
         /\ v \div Limit(base, d + 1) = (v \div Limit(base, d)) \div base
<1>1. CASE base = 10 /\ most = 10
  <2>1. d \in 0 .. 9
    BY <1>1
  <2>2. CASE d = 0
    BY <1>1, <2>2, SMT DEF Limit
  <2>3. CASE d = 1
    BY <1>1, <2>3, SMT DEF Limit
  <2>4. CASE d = 2
    BY <1>1, <2>4, SMT DEF Limit
  <2>5. CASE d = 3
    BY <1>1, <2>5, SMT DEF Limit
  <2>6. CASE d = 4
    BY <1>1, <2>6, SMT DEF Limit
  <2>7. CASE d = 5
    BY <1>1, <2>7, SMT DEF Limit
  <2>8. CASE d = 6
    BY <1>1, <2>8, SMT DEF Limit
  <2>9. CASE d = 7
    BY <1>1, <2>9, SMT DEF Limit
  <2>10. CASE d = 8
    BY <1>1, <2>10, SMT DEF Limit
  <2>11. CASE d = 9
    BY <1>1, <2>11, SMT DEF Limit
  <2> QED BY <2>1, <2>2, <2>3, <2>4, <2>5, <2>6, <2>7, <2>8, <2>9, <2>10,
             <2>11, SMT
<1>2. CASE base = 16 /\ most = 8
  <2>1. d \in 0 .. 7
    BY <1>2
  <2>2. CASE d = 0
    BY <1>2, <2>2, SMT DEF Limit
  <2>3. CASE d = 1
    BY <1>2, <2>3, SMT DEF Limit
  <2>4. CASE d = 2
    BY <1>2, <2>4, SMT DEF Limit
  <2>5. CASE d = 3
    BY <1>2, <2>5, SMT DEF Limit
  <2>6. CASE d = 4
    BY <1>2, <2>6, SMT DEF Limit
  <2>7. CASE d = 5
    BY <1>2, <2>7, SMT DEF Limit
  <2>8. CASE d = 6
    BY <1>2, <2>8, SMT DEF Limit
  <2>9. CASE d = 7
    BY <1>2, <2>9, SMT DEF Limit
  <2> QED BY <2>1, <2>2, <2>3, <2>4, <2>5, <2>6, <2>7, <2>8, <2>9, SMT
<1> QED BY <1>1, <1>2, Zenon

LEMMA WorthShrinks ==
  ASSUME call.fn \in {"itoa", "itoa_hex"}, call.n \in Nat, call.n < Limit(Base, MostDigits)
  PROVE  /\ Worth(0) = call.n /\ Worth(MostDigits) = 0
         /\ \A d \in 0 .. MostDigits - 1 :
              /\ Worth(d) \in Nat
              /\ call.n \div Base ^ d = Worth(d)
              /\ Worth(d + 1) = Worth(d) \div Base
<1>1. (Base = 10 /\ MostDigits = 10) \/ (Base = 16 /\ MostDigits = 8)
  BY PrefixLength, Zenon
<1>2. Worth(0) = call.n
  <2>1. Limit(Base, 0) = 1
    BY <1>1, SMT DEF Limit
  <2> QED BY <2>1, SMT DEF Worth
<1>3. Worth(MostDigits) = 0
  <2> DEFINE limit == Limit(Base, MostDigits)
  <2>1. limit \in Nat
    BY <1>1, SMT DEF Limit
  <2> HIDE DEF limit
  <2>2. ASSUME NEW v \in Nat, v < limit PROVE v \div limit = 0
    BY <2>1, <2>2, SMT
  <2>3. call.n < limit
    BY Zenon DEF limit
  <2> QED BY <2>2, <2>3, Zenon DEF Worth, limit
<1>4. ASSUME NEW d \in 0 .. MostDigits - 1
      PROVE  /\ Worth(d) \in Nat
             /\ call.n \div Base ^ d = Worth(d)
             /\ Worth(d + 1) = Worth(d) \div Base
  <2>1. /\ Base ^ d = Limit(Base, d)
        /\ call.n \div Limit(Base, d) \in Nat
        /\ call.n \div Limit(Base, d + 1) = (call.n \div Limit(Base, d)) \div Base
    BY <1>1, Powers, Zenon
  <2> QED BY <2>1, Zenon DEF Worth
<1> QED BY <1>2, <1>3, <1>4, Zenon

LEMMA Digits ==
  ASSUME NEW v \in Nat, NEW base \in {10, 16}
  PROVE  /\ v % base \in Nat
         /\ Digit(v % base) \in Byte /\ Digit(v % base) # 0
         /\ v \div base = 0 /\ v # 0 => v < base /\ Digit(v % base) # DigitZero
<1>1. v % base \in 0 .. 15 /\ (v \div base = 0 => v < base /\ v % base = v)
  <2>1. CASE base = 10
    BY <2>1
  <2>2. CASE base = 16
    BY <2>2
  <2> QED BY <2>1, <2>2
<1> DEFINE d == v % base
<1> HIDE DEF d
<1>2. d \in 0 .. 15 => Digit(d) \in Byte /\ Digit(d) # 0 /\ (d # 0 => Digit(d) # DigitZero)
  BY DEF Digit, Byte, DigitZero, LetterA
<1> QED BY <1>1, <1>2 DEF d

LEMMA StoreWrites ==
  ASSUME NEW bytes \in Seq(Byte), Store(bytes), i \in Nat, buffer \in Seq(Byte)
  PROVE  \A k \in 1 .. Len(buffer) :
           /\ k \in i + 1 .. i + Len(bytes) => buffer'[k] = bytes[k - i]
           /\ k \notin i + 1 .. i + Len(bytes) => buffer'[k] = buffer[k]
<1>1. buffer' = [k \in DOMAIN buffer |->
                   IF k - i \in DOMAIN bytes THEN bytes[k - i] ELSE buffer[k]]
  BY DEF Store
<1>2. DOMAIN buffer = 1 .. Len(buffer) /\ DOMAIN bytes = 1 .. Len(bytes)
  OBVIOUS
<1>3. Len(buffer) \in Nat /\ Len(bytes) \in Nat
  OBVIOUS
<1>4. ASSUME NEW k \in 1 .. Len(buffer)
      PROVE  k - i \in DOMAIN bytes <=> k \in i + 1 .. i + Len(bytes)
  BY <1>2, <1>3
<1> QED BY <1>1, <1>2, <1>4, Zenon

(* The digits taken are in temp, the last one first, and then in buffer, the *)
(* first one first; the one taken last is not zero.                          *)
Taken == Len(temp) + Stored
HasPrefix == \A k \in 1 .. Len(Prefix) : buffer[k] = Prefix[k]
HasDigits(length, from) ==
  \A q \in 1 .. length : buffer[Len(Prefix) + q] = Digit(Worth(from - q) % Base)
NoLeadingZero(length) == length > 1 => Worth(length - 1) # 0

Converting ==
  /\ Taken \in 0 .. MostDigits /\ n = Worth(Taken)
  /\ Taken > 0 => Worth(Taken - 1) # 0
  /\ Stored > 0 => n = 0
  /\ \A j \in 1 .. Len(temp) : temp[j] = Digit(Worth(j - 1) % Base)
  /\ i >= Len(Prefix) => HasPrefix
  /\ HasDigits(Stored, Taken)

Converted ==
  /\ Len(buffer) >= 11
  /\ HasPrefix
  /\ \E length \in 1 .. MostDigits :
       /\ HasDigits(length, length)
       /\ buffer[Len(Prefix) + length + 1] = 0
       /\ Worth(length) = 0
       /\ NoLeadingZero(length)

ConversionInv ==
  call.fn \in {"itoa", "itoa_hex"} =>
    /\ call.n \in Nat /\ call.n < Limit(Base, MostDigits)
    /\ ~returned => Converting
    /\ returned => Converted

LEMMA ConversionInit == Called => ConversionInv
<1> SUFFICES ASSUME Called, call.fn \in {"itoa", "itoa_hex"} PROVE ConversionInv
  BY DEF ConversionInv
<1>1. /\ call \in Calls /\ i = 0 /\ n = call.n /\ temp = <<>> /\ returned = FALSE
  BY DEF Called
<1>2. call.n \in Nat /\ call.n < 4294967296
  <2>1. call.n \in Nat /\ call.n \div 65536 < 65536
    BY <1>1, StringCalls, SMT DEF Unsigned
  <2> QED BY <2>1, SMT
<1>3. (Base = 10 /\ MostDigits = 10) \/ (Base = 16 /\ MostDigits = 8)
  BY PrefixLength, Zenon
<1>4. call.n < Limit(Base, MostDigits)
  BY <1>2, <1>3, SMT DEF Limit
<1>5. Stored = 0 /\ Len(temp) = 0 /\ Taken = 0
  BY <1>1, PrefixLength DEF Stored, Taken
<1>6. n = Worth(Taken)
  <2>1. call.n \in Nat
    BY <1>2, SMT
  <2> QED BY <1>1, <2>1, <1>4, <1>5, WorthShrinks, Zenon
<1>7. i >= Len(Prefix) => HasPrefix
  BY <1>1, PrefixLength DEF HasPrefix
<1>8. Converting
  <2>1. Taken \in 0 .. MostDigits /\ ~(Taken > 0) /\ ~(Stored > 0)
    BY <1>3, <1>5
  <2>2. \A j : j \notin 1 .. Len(temp) /\ j \notin 1 .. Stored
    BY <1>5
  <2> QED BY <1>6, <1>7, <2>1, <2>2, Zenon DEF Converting, HasDigits
<1>9. call.n \in Nat
  BY <1>2, SMT
<1> QED BY <1>1, <1>4, <1>8, <1>9, Zenon DEF ConversionInv

LEMMA ConversionNext == DigitsInv /\ ConversionInv /\ [Next]_frame => ConversionInv'
<1> SUFFICES ASSUME DigitsInv, ConversionInv, [Next]_frame, call.fn \in {"itoa", "itoa_hex"}
             PROVE  ConversionInv'
  BY StepOfCall, Zenon DEF ConversionInv
<1> DEFINE p == Len(Prefix)
           most == MostDigits
           stored == Stored
           figure(d) == Digit(Worth(d) % Base)
<1>1. /\ call.n \in Nat /\ call.n < Limit(Base, most)
      /\ ~returned => Converting
      /\ returned => Converted
  BY Zenon DEF ConversionInv
<1>2. /\ call' = call
      /\ UNCHANGED frame \/ (~returned /\ Itoa)
  BY StepOfCall, Zenon DEF In
<1>3. Prefix' = Prefix /\ MostDigits' = MostDigits /\ Base' = Base
  BY <1>2 DEF Prefix, MostDigits, Base
<1>4. ASSUME ~returned', Converting' PROVE ConversionInv'
  BY <1>1, <1>2, <1>3, <1>4, Zenon DEF ConversionInv
<1>5. ASSUME returned', Converted' PROVE ConversionInv'
  BY <1>1, <1>2, <1>3, <1>5, Zenon DEF ConversionInv
<1>6. ASSUME NEW t \in 0 .. most, NEW s, Taken' = t, Stored' = s, n' = Worth(t),
             t > 0 => Worth(t - 1) # 0, s > 0 => n' = 0,
             \A j \in 1 .. Len(temp') : temp'[j] = figure(j - 1),
             i' >= p => \A k \in 1 .. p : buffer'[k] = Prefix[k],
             \A q \in 1 .. s : buffer'[p + q] = figure(t - q),
             ~returned'
      PROVE  ConversionInv'
  <2>1. Converting'
    BY <1>2, <1>3, <1>6, Zenon DEF Converting, HasPrefix, HasDigits, Worth
  <2> QED BY <1>4, <1>6, <2>1, Zenon
<1>7. ASSUME NEW length \in 1 .. most, Len(buffer') >= 11,
             \A k \in 1 .. p : buffer'[k] = Prefix[k],
             \A q \in 1 .. length : buffer'[p + q] = figure(length - q),
             buffer'[p + length + 1] = 0, Worth(length) = 0,
             length > 1 => Worth(length - 1) # 0,
             returned'
      PROVE  ConversionInv'
  <2>1. Converted'
    BY <1>2, <1>3, <1>7, Zenon DEF Converted, HasPrefix, HasDigits, NoLeadingZero, Worth
  <2> QED BY <1>5, <1>7, <2>1, Zenon
<1>8. CASE UNCHANGED frame
  <2>1. /\ Stored' = Stored /\ Taken' = Taken /\ n' = n /\ temp' = temp
        /\ buffer' = buffer /\ returned' = returned
    BY <1>3, <1>8 DEF frame, Stored, Taken
  <2>2. ASSUME ~returned PROVE ConversionInv'
    <3>1. Converting
      BY <1>1, <2>2, Zenon
    <3>2. Converting'
      BY <1>2, <1>3, <1>8, <2>1, <3>1, Zenon
         DEF frame, Converting, HasPrefix, HasDigits, Worth
    <3> QED BY <1>4, <2>1, <2>2, <3>2, Zenon
  <2>3. ASSUME returned PROVE ConversionInv'
    <3>1. Converted
      BY <1>1, <2>3, Zenon
    <3>2. Converted'
      BY <1>2, <1>3, <2>1, <3>1, Zenon
         DEF Converted, HasPrefix, HasDigits, NoLeadingZero, Worth
    <3> QED BY <1>5, <2>1, <2>3, <3>2, Zenon
  <2> QED BY <2>2, <2>3, Zenon
<1>9. CASE ~returned /\ Itoa
  <2>1. /\ Taken \in 0 .. most /\ n = Worth(Taken)
        /\ Taken > 0 => Worth(Taken - 1) # 0
        /\ stored > 0 => n = 0
        /\ \A j \in 1 .. Len(temp) : temp[j] = figure(j - 1)
        /\ i >= p => \A k \in 1 .. p : buffer[k] = Prefix[k]
        /\ \A q \in 1 .. stored : buffer[p + q] = figure(Taken - q)
    BY <1>1, <1>9, Zenon DEF Converting, HasPrefix, HasDigits
  <2>2. /\ n \in Nat /\ i \in Nat /\ temp \in Seq(Byte)
        /\ temp # <<>> => i >= p
        /\ i < p => i = 0
        /\ buffer \in Seq(Byte) /\ Len(buffer) >= 11
    BY Zenon DEF DigitsInv
  <2>3. /\ p \in {0, 2} /\ ((Base = 10 /\ most = 10) \/ (Base = 16 /\ most = 8))
        /\ p + most <= 10
    <3>1. (p = 0 /\ Base = 10 /\ most = 10) \/ (p = 2 /\ Base = 16 /\ most = 8)
      BY PrefixLength, Zenon
    <3> HIDE DEF p, most
    <3> QED BY <3>1
  <2>4. /\ Worth(0) = call.n /\ Worth(most) = 0
        /\ \A d \in 0 .. most - 1 : Worth(d) \in Nat /\ Worth(d + 1) = Worth(d) \div Base
    BY <1>1, WorthShrinks, Zenon
  <2>5. Prefix \in Seq(Byte)
    <3>1. DigitZero \in Byte /\ LetterX \in Byte
      BY DEF DigitZero, LetterX, Byte
    <3>2. <<>> \in Seq(Byte) /\ <<DigitZero, LetterX>> \in Seq(Byte)
      BY <3>1
    <3> QED BY <3>2 DEF Prefix
  <2>6. /\ Len(temp) \in Nat /\ Len(buffer) \in Nat /\ Taken = Len(temp) + stored
        /\ i < p => stored = 0
        /\ i >= p => stored = i - p
        /\ stored \in Nat
    BY <2>2, <2>3 DEF Stored, Taken
  <2>7. /\ Taken' = Len(temp') + Stored'
        /\ i' \in Nat /\ i' >= p => Stored' = i' - p
    BY <1>3, <2>3 DEF Stored, Taken
  <2> HIDE DEF p, most, stored, figure
  <2>8. CASE StorePrefix
    <3>1. i < p /\ Store(Prefix) /\ UNCHANGED <<n, temp, returned>>
      BY <2>8, Zenon DEF StorePrefix, p
    <3>2. i = 0 /\ Len(temp) = 0 /\ Taken = 0
      BY <2>2, <2>3, <2>6, <3>1
    <3>3. \A k \in 1 .. p : buffer'[k] = Prefix[k]
      <4>1. \A k \in 1 .. Len(buffer) :
              k \in i + 1 .. i + Len(Prefix) => buffer'[k] = Prefix[k - i]
        BY <2>2, <2>5, <3>1, StoreWrites, Zenon
      <4> QED BY <2>2, <2>3, <2>6, <3>2, <4>1 DEF p
    <3>4. i' = p
      BY <2>3, <3>1, <3>2 DEF Store, p
    <3>5. Stored' = 0 /\ Taken' = 0
      BY <2>3, <2>7, <3>1, <3>2, <3>4
    <3>6. 0 \in 0 .. most /\ ~(0 > 0) /\ \A j : j \notin 1 .. 0
      BY <2>3
    <3>7. n' = Worth(0) /\ Len(temp') = 0 /\ ~returned'
      BY <1>9, <2>1, <3>1, <3>2, Zenon
    <3> QED BY <1>6, <3>3, <3>5, <3>6, <3>7, Zenon
  <2>9. CASE StoreZero
    <3>1. i = p /\ call.n = 0 /\ Store(<<DigitZero, 0>>) /\ returned'
      BY <2>9, Zenon DEF StoreZero, p
    <3>2. /\ <<DigitZero, 0>> \in Seq(Byte) /\ Len(<<DigitZero, 0>>) = 2
          /\ <<DigitZero, 0>>[1] = DigitZero /\ <<DigitZero, 0>>[2] = 0
      BY DEF DigitZero, Byte
    <3>3. \A k \in 1 .. Len(buffer) :
            /\ k \in i + 1 .. i + 2 => buffer'[k] = <<DigitZero, 0>>[k - i]
            /\ k \notin i + 1 .. i + 2 => buffer'[k] = buffer[k]
      BY <2>2, <3>1, <3>2, StoreWrites, Zenon
    <3>4. Len(buffer') = Len(buffer)
      BY <2>2, <3>1, <3>2, StoreKeepsSize, Zenon
    <3>5. \A k \in 1 .. p : buffer'[k] = Prefix[k]
      BY <2>1, <2>2, <2>3, <2>6, <3>1, <3>3
    <3>6. buffer'[p + 1] = DigitZero /\ buffer'[p + 1 + 1] = 0
      <4> DEFINE one == p + 1
                 two == p + 1 + 1
      <4>1. /\ one \in 1 .. Len(buffer) /\ one \in i + 1 .. i + 2 /\ one - i = 1
            /\ two \in 1 .. Len(buffer) /\ two \in i + 1 .. i + 2 /\ two - i = 2
        BY <2>2, <2>3, <2>6, <3>1
      <4> HIDE DEF one, two
      <4>2. buffer'[one] = DigitZero /\ buffer'[two] = 0
        BY <3>2, <3>3, <4>1, Zenon
      <4> QED BY <4>2 DEF one, two
    <3>7. Worth(0) = 0 /\ Worth(1) = 0 /\ figure(0) = DigitZero
      <4>1. 0 \in 0 .. most - 1 /\ 0 + 1 = 1
        BY <2>3
      <4>2. Worth(0) = 0 /\ Worth(1) = 0 \div Base
        BY <2>4, <3>1, <4>1
      <4>3. 0 \div Base = 0 /\ 0 % Base = 0
        BY <2>3
      <4>4. Digit(0) = DigitZero
        BY DEF Digit, DigitZero
      <4> QED BY <4>2, <4>3, <4>4, Zenon DEF figure
    <3>8. 1 \in 1 .. most /\ ~(1 > 1) /\ \A q \in 1 .. 1 : q = 1 /\ 1 - q = 0
      BY <2>3
    <3>9. \A q \in 1 .. 1 : buffer'[p + q] = figure(1 - q)
      BY <3>6, <3>7, <3>8, Zenon
    <3> QED BY <1>7, <2>2, <3>1, <3>4, <3>5, <3>6, <3>7, <3>8, <3>9, Zenon DEF p, most, figure
  <2>10. CASE TakeDigit
    <3>1. /\ i = p /\ n > 0 /\ temp' = Append(temp, Digit(n % Base))
          /\ n' = n \div Base /\ UNCHANGED <<i, buffer, returned>>
      BY <2>10, Zenon DEF TakeDigit, p
    <3> DEFINE t == Taken + 1
    <3>2. Taken # most
      BY <2>1, <2>4, <3>1
    <3>3. Taken \in 0 .. most - 1 /\ t \in 0 .. most /\ t - 1 = Taken
      BY <2>1, <2>3, <3>2
    <3>4. n' = Worth(t) /\ Worth(t - 1) # 0
      BY <2>1, <2>4, <3>1, <3>3
    <3>5. stored = 0 /\ Stored' = 0 /\ i \in Nat /\ Taken = Len(temp)
      BY <2>2, <2>3, <2>6, <2>7, <3>1
    <3>6. Digit(n % Base) \in Byte
      BY <2>2, <2>3, Digits
    <3>7. /\ Len(temp') = Len(temp) + 1 /\ temp'[Len(temp) + 1] = Digit(n % Base)
          /\ \A j \in 1 .. Len(temp) : temp'[j] = temp[j]
      BY <2>2, <3>1, <3>6
    <3>8. Taken' = t
      BY <2>6, <2>7, <3>5, <3>7
    <3>9. \A j \in 1 .. Len(temp') : temp'[j] = figure(j - 1)
      <4>1. temp'[t] = figure(t - 1)
        <5>1. temp'[t] = Digit(Worth(t - 1) % Base)
          BY <2>1, <3>3, <3>5, <3>7
        <5> QED BY <5>1, Zenon DEF figure
      <4>2. \A j \in 1 .. Len(temp') : j \in 1 .. Len(temp) \/ j = t
        BY <2>6, <3>5, <3>7
      <4> QED BY <2>1, <3>7, <4>1, <4>2, Zenon
    <3>10. ~(0 > 0) /\ \A q : q \notin 1 .. 0
      OBVIOUS
    <3>11. i' >= p => \A k \in 1 .. p : buffer'[k] = Prefix[k]
      BY <2>1, <3>1, Zenon
    <3>12. ~returned'
      BY <1>9, <3>1, Zenon
    <3> HIDE DEF t
    <3> QED BY <1>6, <3>3, <3>4, <3>5, <3>8, <3>9, <3>10, <3>11, <3>12, Zenon DEF p, most, figure
  <2>11. CASE StoreDigit
    <3> DEFINE m == Len(temp)
    <3>1. /\ n = 0 /\ temp # <<>> /\ Store(<<temp[m]>>)
          /\ temp' = SubSeq(temp, 1, m - 1) /\ UNCHANGED <<n, returned>>
      BY <2>11, Zenon DEF StoreDigit
    <3>2. m \in Nat \ {0} /\ temp[m] \in Byte /\ i >= p
      BY <2>2, <3>1
    <3>3. <<temp[m]>> \in Seq(Byte) /\ Len(<<temp[m]>>) = 1 /\ <<temp[m]>>[1] = temp[m]
      BY <3>2
    <3>4. \A k \in 1 .. Len(buffer) :
            /\ k \in i + 1 .. i + 1 => buffer'[k] = <<temp[m]>>[k - i]
            /\ k \notin i + 1 .. i + 1 => buffer'[k] = buffer[k]
      BY <2>2, <3>1, <3>3, StoreWrites, Zenon
    <3>5. i' = i + 1
      BY <2>2, <3>1, <3>3, StoreKeepsSize, Zenon
    <3>6. Len(temp') = m - 1 /\ \A j \in 1 .. m - 1 : temp'[j] = temp[j]
      BY <2>2, <3>1, <3>2, LastTaken
    <3>7. stored = i - p /\ Stored' = stored + 1 /\ Taken' = Taken /\ m = Taken - stored
      BY <2>2, <2>3, <2>6, <2>7, <3>2, <3>5, <3>6
    <3>8. i + 1 \in 1 .. Len(buffer) /\ i = p + stored
      BY <2>1, <2>2, <2>3, <2>6, <3>2, <3>7
    <3>9. \A j \in 1 .. Len(temp') : temp'[j] = figure(j - 1)
      <4>1. \A j \in 1 .. Len(temp') : j \in 1 .. m - 1 /\ j \in 1 .. m
        BY <3>2, <3>6
      <4> QED BY <2>1, <3>6, <4>1, Zenon
    <3>10. i' >= p => \A k \in 1 .. p : buffer'[k] = Prefix[k]
      BY <2>1, <2>2, <2>3, <2>6, <3>2, <3>4
    <3>11. \A q \in 1 .. stored + 1 : buffer'[p + q] = figure(Taken - q)
      <4>1. ASSUME NEW q \in 1 .. stored PROVE buffer'[p + q] = figure(Taken - q)
        <5>1. p + q \in 1 .. Len(buffer) /\ p + q \notin i + 1 .. i + 1
          BY <2>3, <2>6, <3>8
        <5> QED BY <2>1, <3>4, <5>1, Zenon
      <4>2. buffer'[p + (stored + 1)] = figure(Taken - (stored + 1))
        <5>1. /\ i + 1 \in i + 1 .. i + 1 /\ i + 1 - i = 1 /\ p + (stored + 1) = i + 1
              /\ m - 1 = Taken - (stored + 1) /\ m \in 1 .. m
          <6>1. m \in Nat \ {0} /\ Taken \in Int /\ stored \in Nat /\ p \in Nat /\ i \in Nat
            BY <2>1, <2>2, <2>3, <2>6, <3>2
          <6> HIDE DEF m
          <6> QED BY <3>7, <3>8, <6>1
        <5>2. buffer'[i + 1] = temp[m]
          <6> DEFINE at == i + 1
          <6>1. at \in 1 .. Len(buffer) /\ at \in i + 1 .. i + 1 /\ at - i = 1
            BY <3>8, <5>1
          <6> HIDE DEF at
          <6>2. buffer'[at] = temp[m]
            BY <3>3, <3>4, <6>1, Zenon
          <6> QED BY <6>2 DEF at
        <5>3. temp[m] = figure(m - 1)
          BY <2>1, <5>1, Zenon
        <5> QED BY <5>1, <5>2, <5>3, Zenon
      <4>3. \A q \in 1 .. stored + 1 : q \in 1 .. stored \/ q = stored + 1
        BY <2>6
      <4> QED BY <4>1, <4>2, <4>3, Zenon
    <3>12. ~returned' /\ n' = Worth(Taken) /\ n' = 0
      BY <1>9, <2>1, <3>1, Zenon
    <3> QED BY <1>6, <2>1, <3>7, <3>9, <3>10, <3>11, <3>12, Zenon DEF p, most, figure
  <2>12. CASE Terminate
    <3>1. temp = <<>> /\ n = 0 /\ i > p /\ Store(<<0>>) /\ returned'
      BY <2>12, Zenon DEF Terminate, p
    <3>2. <<0>> \in Seq(Byte) /\ Len(<<0>>) = 1 /\ <<0>>[1] = 0
      BY DEF Byte
    <3>3. \A k \in 1 .. Len(buffer) :
            /\ k \in i + 1 .. i + 1 => buffer'[k] = <<0>>[k - i]
            /\ k \notin i + 1 .. i + 1 => buffer'[k] = buffer[k]
      BY <2>2, <3>1, <3>2, StoreWrites, Zenon
    <3>4. Len(buffer') = Len(buffer)
      BY <2>2, <3>1, <3>2, StoreKeepsSize, Zenon
    <3>5. i >= p /\ stored = i - p /\ Taken = stored /\ Taken \in 1 .. most
      BY <2>1, <2>2, <2>3, <2>6, <3>1
    <3>6. i + 1 \in 1 .. Len(buffer) /\ i = p + Taken /\ i + 1 = p + Taken + 1
      BY <2>1, <2>2, <2>3, <2>6, <3>5
    <3>7. \A k \in 1 .. p : buffer'[k] = Prefix[k]
      BY <2>1, <2>2, <2>3, <2>6, <3>3, <3>5
    <3>8. ASSUME NEW q \in 1 .. Taken PROVE buffer'[p + q] = figure(Taken - q)
      <4>1. p + q \in 1 .. Len(buffer) /\ p + q \notin i + 1 .. i + 1
        <5>1. p \in Nat /\ Len(buffer) \in Nat /\ Taken \in Nat /\ q <= Taken /\ q \in Nat
          BY <2>3, <2>6, <3>5
        <5> QED BY <3>6, <5>1
      <4> QED BY <2>1, <3>3, <3>5, <4>1, Zenon
    <3>9. buffer'[p + Taken + 1] = 0
      BY <2>2, <3>2, <3>3, <3>6
    <3>10. Worth(Taken) = 0 /\ (Taken > 1 => Worth(Taken - 1) # 0)
      BY <2>1, <3>1, <3>5
    <3> QED BY <1>7, <2>2, <3>1, <3>4, <3>5, <3>7, <3>8, <3>9, <3>10, Zenon DEF p, most, figure
  <2> QED BY <1>9, <2>8, <2>9, <2>10, <2>11, <2>12, Zenon DEF Itoa
<1> QED BY <1>2, <1>8, <1>9, Zenon

(* For every number of 32 bits: itoa and itoa_hex leave its numeral, whole   *)
(* and without leading zeros, behind the prefix and before the terminator.   *)
THEOREM ConvertsRightly == Spec => []Converts
<1>1. DigitsInv /\ ConversionInv => Converts
  <2> SUFFICES ASSUME DigitsInv, ConversionInv, returned, call.fn \in {"itoa", "itoa_hex"}
               PROVE  /\ SubSeq(Text(buffer), 1, Len(Prefix)) = Prefix
                      /\ IsNumeral(SubSeq(Text(buffer), Len(Prefix) + 1, Len(Text(buffer))),
                                   Base, call.n)
    BY Zenon DEF Converts
  <2> DEFINE p == Len(Prefix)
             s == Text(buffer)
             t == SubSeq(s, p + 1, Len(s))
  <2>1. call.n \in Nat /\ call.n < Limit(Base, MostDigits) /\ Converted
    BY Zenon DEF ConversionInv
  <2>2. PICK length \in 1 .. MostDigits :
          /\ HasDigits(length, length)
          /\ buffer[p + length + 1] = 0
          /\ Worth(length) = 0
          /\ NoLeadingZero(length)
    BY <2>1, Zenon DEF Converted
  <2>3. /\ p \in {0, 2} /\ ((Base = 10 /\ MostDigits = 10) \/ (Base = 16 /\ MostDigits = 8))
        /\ p + MostDigits <= 10
    <3>1. (p = 0 /\ Base = 10 /\ MostDigits = 10) \/ (p = 2 /\ Base = 16 /\ MostDigits = 8)
      BY PrefixLength, Zenon
    <3> HIDE DEF p
    <3> QED BY <3>1
  <2>4. /\ \A k \in 1 .. p : buffer[k] = Prefix[k]
        /\ \A q \in 1 .. length : buffer[p + q] = Digit(Worth(length - q) % Base)
        /\ length > 1 => Worth(length - 1) # 0
    BY <2>1, <2>2, Zenon DEF Converted, HasPrefix, HasDigits, NoLeadingZero
  <2>5. /\ Worth(0) = call.n
        /\ \A d \in 0 .. MostDigits - 1 :
             /\ Worth(d) \in Nat
             /\ call.n \div Base ^ d = Worth(d)
             /\ Worth(d + 1) = Worth(d) \div Base
    BY <2>1, WorthShrinks, Zenon
  <2>6. buffer \in Seq(Byte) /\ Len(buffer) >= 11
    BY Zenon DEF DigitsInv
  <2>7. Prefix \in Seq(Byte) /\ \A k \in 1 .. p : Prefix[k] # 0
    <3>1. DigitZero \in Byte /\ LetterX \in Byte /\ DigitZero # 0 /\ LetterX # 0
      BY DEF DigitZero, LetterX, Byte
    <3>2. CASE Prefix = <<>>
      BY <3>2
    <3>3. CASE Prefix = <<DigitZero, LetterX>>
      BY <3>1, <3>3
    <3> QED BY <3>2, <3>3, Zenon DEF Prefix
  <2> HIDE DEF p
  <2>8. ASSUME NEW q \in 1 .. length
        PROVE  /\ length - q \in 0 .. MostDigits - 1
               /\ Worth(length - q) \in Nat
               /\ buffer[p + q] \in Byte /\ buffer[p + q] # 0
    <3>1. length - q \in 0 .. MostDigits - 1
      BY <2>3
    <3>2. Worth(length - q) \in Nat
      BY <2>5, <3>1, Zenon
    <3>3. Base \in {10, 16}
      BY <2>3
    <3>4. Digit(Worth(length - q) % Base) \in Byte /\ Digit(Worth(length - q) % Base) # 0
      BY <3>2, <3>3, Digits, Zenon
    <3> QED BY <2>4, <3>1, <3>2, <3>4, Zenon
  <2>9. s \in Seq(Byte) /\ Len(s) = p + length /\ \A j \in 1 .. p + length : s[j] = buffer[j]
    <3> DEFINE m == p + length + 1
    <3>1. m \in 1 .. Len(buffer) /\ m - 1 = p + length
      BY <2>2, <2>3, <2>6
    <3>2. ASSUME NEW j \in 1 .. p + length PROVE buffer[j] # 0
      <4>1. CASE j \in 1 .. p
        BY <2>4, <2>7, <4>1, Zenon
      <4>2. CASE j \notin 1 .. p
        <5> DEFINE q == j - p
        <5>1. q \in 1 .. length /\ p + q = j
          BY <2>2, <2>3, <4>2
        <5> HIDE DEF q
        <5> QED BY <2>8, <5>1, Zenon
      <4> QED BY <4>1, <4>2, Zenon
    <3>3. buffer[m] = 0 /\ m \in DOMAIN buffer
      BY <2>2, <2>6, <3>1
    <3> HIDE DEF m
    <3>4. /\ Text(buffer) \in Seq(Byte) /\ Len(Text(buffer)) = m - 1
          /\ \A j \in 1 .. m - 1 : Text(buffer)[j] = buffer[j]
      BY <2>6, <3>1, <3>2, <3>3, TextEnds, Zenon
    <3> QED BY <3>1, <3>4, Zenon
  <2> HIDE DEF s
  <2>10. SubSeq(s, 1, p) = Prefix
    <3>1. \A k \in 1 .. p : s[k] = Prefix[k] /\ s[k] \in Byte
      BY <2>2, <2>3, <2>4, <2>9
    <3>2. /\ SubSeq(s, 1, p) \in Seq(Byte) /\ Len(SubSeq(s, 1, p)) = p
          /\ \A k \in 1 .. p : SubSeq(s, 1, p)[k] = s[k]
      BY <2>2, <2>3, <2>9
    <3> QED BY <2>7, <3>1, <3>2, SeqEqual DEF p
  <2>11. Len(t) = length /\ DOMAIN t = 1 .. length /\ \A k \in 1 .. length : t[k] = s[p + k]
    BY <2>2, <2>3, <2>9
  <2> HIDE DEF t
  <2>12. ASSUME NEW k \in 1 .. length
         PROVE  /\ t[k] = Digit(Worth(length - k) % Base)
                /\ call.n \div Base ^ (length - k) = Worth(length - k)
    <3>1. t[k] = buffer[p + k]
      <4>1. p + k \in 1 .. p + length
        BY <2>3
      <4> QED BY <2>9, <2>11, <4>1, Zenon
    <3> QED BY <2>4, <2>5, <2>8, <3>1, Zenon
  <2>13. IsNumeral(t, Base, call.n)
    <3> DEFINE first == Worth(length - 1)
    <3>1. 1 \in 1 .. length /\ length - 1 \in 0 .. MostDigits - 1 /\ length - 1 + 1 = length
      BY <2>2, <2>3
    <3>2. first \in Nat /\ first \div Base = 0 /\ Base \in {10, 16}
      BY <2>2, <2>3, <2>5, <3>1
    <3>3. /\ t[1] = Digit(first % Base) /\ call.n \div Base ^ (length - 1) = first
          /\ length > 1 => first # 0
      BY <2>4, <2>12, <3>1, Zenon
    <3> HIDE DEF first
    <3>4. first < Base /\ (length > 1 => t[1] # DigitZero)
      <4>1. CASE first = 0
        BY <2>3, <3>3, <4>1
      <4>2. CASE first # 0
        BY <3>2, <3>3, <4>2, Digits, Zenon
      <4> QED BY <4>1, <4>2, Zenon
    <3>5. \A k \in DOMAIN t : t[k] = Digit((call.n \div Base ^ (length - k)) % Base)
      BY <2>11, <2>12, Zenon
    <3> QED BY <2>11, <3>3, <3>4, <3>5, Zenon DEF IsNumeral
  <2> QED BY <2>10, <2>13, Zenon DEF s, t, p
<1>2. Spec => [](DigitsInv /\ ConversionInv)
  BY DigitsInit, DigitsNext, ConversionInit, ConversionNext, PTL DEF Spec
<1> QED BY <1>1, <1>2, PTL

-----------------------------------------------------------------------------
(* Sequences that are joined from several                                  *)
Joins(parts) == CHOOSE f : f = [k \in 0 .. Len(parts) |->
                                  IF k = 0 THEN <<>> ELSE f[k - 1] \o parts[k]]

LEMMA JoinedParts ==
  ASSUME NEW V, NEW parts \in Seq(Seq(V))
  PROVE  /\ Joined(parts) = Joins(parts)[Len(parts)]
         /\ Joins(parts)[0] = <<>>
         /\ \A k \in 0 .. Len(parts) : Joins(parts)[k] \in Seq(V)
         /\ \A k \in 1 .. Len(parts) : Joins(parts)[k] = Joins(parts)[k - 1] \o parts[k]
<1> DEFINE l == Len(parts)
           W == Seq(V)
           next == [q \in W \X (1 .. l) |-> q[1] \o parts[q[2]]]
           Made(f) == f = [k \in 0 .. l |-> IF k = 0 THEN <<>> ELSE f[k - 1] \o parts[k]]
<1>1. l \in Nat /\ <<>> \in W /\ \A k \in 1 .. l : parts[k] \in W
  OBVIOUS
<1>2. Joined(parts) = Joins(parts)[l]
  BY Zenon DEF Joined, Joins
<1>3. \A s, t \in W : s \o t \in W
  OBVIOUS
<1> HIDE DEF l, W
<1>4. ASSUME NEW v \in W, NEW k \in 1 .. l
      PROVE  next[<<v, k>>] = v \o parts[k] /\ next[<<v, k>>] \in W
  <2>1. next[<<v, k>>] = v \o parts[k]
    OBVIOUS
  <2> HIDE DEF next
  <2> QED BY <1>1, <1>3, <2>1, Zenon
<1> HIDE DEF next
<1>5. PICK g \in [0 .. l -> W] : g[0] = <<>> /\ \A k \in 1 .. l : g[k] = next[<<g[k - 1], k>>]
  <2>1. Closed(W, l, next)
    BY <1>4, Zenon DEF Closed
  <2>2. \E g \in [0 .. l -> W] : Follows(g, <<>>, l, next)
    BY <1>1, <2>1, Recursion, Zenon
  <2> QED BY <2>2, Zenon DEF Follows
<1>6. ASSUME NEW k \in 1 .. l PROVE g[k] = g[k - 1] \o parts[k]
  <2>1. k - 1 \in 0 .. l
    BY <1>1
  <2>2. g[k - 1] \in W
    BY <2>1
  <2> QED BY <1>4, <1>5, <2>2, Zenon
<1>7. Made(g)
  <2>1. ASSUME NEW k \in 0 .. l
        PROVE  g[k] = IF k = 0 THEN <<>> ELSE g[k - 1] \o parts[k]
    <3>1. k = 0 \/ k \in 1 .. l
      BY <1>1
    <3>2. k \in 1 .. l => k # 0
      BY <1>1
    <3> QED BY <1>5, <1>6, <3>1, <3>2, Zenon
  <2> QED BY <2>1
<1>8. Joins(parts) = CHOOSE f : Made(f)
  BY Zenon DEF Joins, l
<1> DEFINE r == Joins(parts)
<1> HIDE DEF Made, r
<1>9. Made(r)
  BY <1>7, <1>8, Zenon DEF r
<1>10. \A k \in 0 .. l : r[k] = IF k = 0 THEN <<>> ELSE r[k - 1] \o parts[k]
  BY <1>9 DEF Made
<1>11. r[0] = <<>> /\ \A k \in 1 .. l : r[k] = r[k - 1] \o parts[k]
  <2>1. 0 \in 0 .. l /\ \A k \in 1 .. l : k \in 0 .. l /\ k # 0
    BY <1>1
  <2> QED BY <1>10, <2>1, Zenon
<1>12. \A k \in 0 .. l : r[k] \in W
  <2> DEFINE S == {k \in Nat : k <= l => r[k] \in W}
  <2>1. 0 \in S
    BY <1>1, <1>11
  <2>2. ASSUME NEW k \in S PROVE k + 1 \in S
    <3>1. ASSUME k + 1 <= l PROVE r[k + 1] \in W
      <4> DEFINE j == k + 1
      <4>1. j \in 1 .. l /\ j - 1 = k /\ r[k] \in W
        BY <1>1, <3>1
      <4> HIDE DEF j
      <4>2. r[j] \in W
        BY <1>1, <1>3, <1>11, <4>1, Zenon
      <4> QED BY <4>2 DEF j
    <3> QED BY <3>1
  <2> HIDE DEF S
  <2>3. S \in SUBSET Nat
    BY DEF S
  <2>4. S = Nat
    BY <2>1, <2>2, <2>3, Induction, Zenon
  <2>5. ASSUME NEW k \in 0 .. l PROVE r[k] \in W
    <3>1. k \in S /\ k <= l
      BY <1>1, <2>4
    <3> QED BY <3>1 DEF S
  <2> QED BY <2>5
<1> QED BY <1>2, <1>11, <1>12, Zenon DEF r, l, W

(* What is joined of the first parts is the beginning of the whole. *)
LEMMA JoinedBegins ==
  ASSUME NEW V, NEW parts \in Seq(Seq(V)), NEW m \in 0 .. Len(parts)
  PROVE  /\ Joined(parts) \in Seq(V)
         /\ Len(Joins(parts)[m]) <= Len(Joined(parts))
         /\ \A j \in 1 .. Len(Joins(parts)[m]) : Joined(parts)[j] = Joins(parts)[m][j]
<1> DEFINE l == Len(parts)
           r == Joins(parts)
           Begins(s, t) == Len(s) <= Len(t) /\ \A j \in 1 .. Len(s) : t[j] = s[j]
           S == {d \in Nat : m + d <= l => Begins(r[m], r[m + d])}
<1>1. l \in Nat /\ \A k \in 1 .. l : parts[k] \in Seq(V)
  OBVIOUS
<1>2. /\ Joined(parts) = r[l]
      /\ \A k \in 0 .. l : r[k] \in Seq(V)
      /\ \A k \in 1 .. l : r[k] = r[k - 1] \o parts[k]
  BY JoinedParts, Zenon
<1> HIDE DEF l, r
<1>3. m \in Nat /\ m <= l
  BY <1>1 DEF l
<1>4. ASSUME NEW s \in Seq(V), NEW t \in Seq(V) PROVE Begins(s, s \o t)
  OBVIOUS
<1>5. ASSUME NEW s \in Seq(V), NEW t \in Seq(V), NEW u \in Seq(V), Begins(s, t), Begins(t, u)
      PROVE  Begins(s, u)
  <2>1. Len(s) \in Nat /\ Len(t) \in Nat /\ Len(u) \in Nat
    OBVIOUS
  <2>2. \A j \in 1 .. Len(s) : j \in 1 .. Len(t)
    BY <1>5, <2>1
  <2>3. \A j \in 1 .. Len(s) : u[j] = s[j]
    BY <1>5, <2>2, Zenon
  <2> QED BY <1>5, <2>1, <2>3
<1>6. 0 \in S
  <2>1. m + 0 = m /\ r[m] \in Seq(V)
    BY <1>2, <1>3
  <2>2. Len(r[m]) \in Nat
    BY <2>1
  <2>3. Begins(r[m], r[m + 0])
    BY <2>1, <2>2
  <2> QED BY <2>3
<1>7. ASSUME NEW d \in S PROVE d + 1 \in S
  <2>1. d \in Nat /\ (m + d <= l => Begins(r[m], r[m + d]))
    OBVIOUS
  <2> HIDE DEF Begins
  <2>2. ASSUME m + (d + 1) <= l PROVE Begins(r[m], r[m + (d + 1)])
    <3> DEFINE j == m + (d + 1)
               k == m + d
    <3>1. /\ j \in 1 .. l /\ j - 1 = k /\ k \in 0 .. l /\ k <= l /\ j \in 0 .. l
          /\ m \in 0 .. l
      BY <1>1, <1>3, <2>1, <2>2
    <3>2. Begins(r[m], r[k])
      BY <2>1, <3>1
    <3> HIDE DEF j, k
    <3>3. r[j] = r[k] \o parts[j] /\ parts[j] \in Seq(V) /\ r[k] \in Seq(V)
      BY <1>1, <1>2, <3>1, Zenon
    <3>4. Begins(r[k], r[j])
      BY <1>4, <3>3, Zenon
    <3>5. Begins(r[m], r[j])
      BY <1>2, <1>5, <3>1, <3>2, <3>4, Zenon
    <3> QED BY <3>5 DEF j
  <2> QED BY <2>1, <2>2
<1> HIDE DEF S
<1>8. S = Nat
  <2>1. S \in SUBSET Nat
    BY DEF S
  <2> QED BY <1>6, <1>7, <2>1, Induction, Zenon
<1>9. Begins(r[m], r[l])
  <2>1. l - m \in S /\ m + (l - m) = l /\ l <= l
    BY <1>1, <1>3, <1>8
  <2> HIDE DEF Begins
  <2> QED BY <2>1 DEF S
<1>10. Joined(parts) \in Seq(V)
  <2>1. l \in 0 .. l
    BY <1>1
  <2> QED BY <1>2, <2>1, Zenon
<1> QED BY <1>2, <1>9, <1>10, Zenon DEF r

-----------------------------------------------------------------------------
(* The formatted output.  Every piece's output is a sequence of bytes.     *)
LEMMA PositivePowers ==
  ASSUME NEW base \in {10, 16}, NEW v \in Nat, NEW e \in 0 .. 9
  PROVE  v \div base ^ e \in Nat
<1>1. CASE base = 10
  <2>1. e \in 0 .. 9
    OBVIOUS
  <2>2. CASE e = 0
    BY <1>1, <2>2, SMT
  <2>3. CASE e = 1
    BY <1>1, <2>3, SMT
  <2>4. CASE e = 2
    BY <1>1, <2>4, SMT
  <2>5. CASE e = 3
    BY <1>1, <2>5, SMT
  <2>6. CASE e = 4
    BY <1>1, <2>6, SMT
  <2>7. CASE e = 5
    BY <1>1, <2>7, SMT
  <2>8. CASE e = 6
    BY <1>1, <2>8, SMT
  <2>9. CASE e = 7
    BY <1>1, <2>9, SMT
  <2>10. CASE e = 8
    BY <1>1, <2>10, SMT
  <2>11. CASE e = 9
    BY <1>1, <2>11, SMT
  <2> QED BY <2>1, <2>2, <2>3, <2>4, <2>5, <2>6, <2>7, <2>8, <2>9, <2>10,
             <2>11, SMT
<1>2. CASE base = 16
  <2>1. e \in 0 .. 9
    OBVIOUS
  <2>2. CASE e = 0
    BY <1>2, <2>2, SMT
  <2>3. CASE e = 1
    BY <1>2, <2>3, SMT
  <2>4. CASE e = 2
    BY <1>2, <2>4, SMT
  <2>5. CASE e = 3
    BY <1>2, <2>5, SMT
  <2>6. CASE e = 4
    BY <1>2, <2>6, SMT
  <2>7. CASE e = 5
    BY <1>2, <2>7, SMT
  <2>8. CASE e = 6
    BY <1>2, <2>8, SMT
  <2>9. CASE e = 7
    BY <1>2, <2>9, SMT
  <2>10. CASE e = 8
    BY <1>2, <2>10, SMT
  <2>11. CASE e = 9
    BY <1>2, <2>11, SMT
  <2> QED BY <2>1, <2>2, <2>3, <2>4, <2>5, <2>6, <2>7, <2>8, <2>9, <2>10,
             <2>11, SMT
<1> QED BY <1>1, <1>2

LEMMA NumeralIsText ==
  ASSUME NEW base, NEW most, (base = 10 /\ most = 10) \/ (base = 16 /\ most = 8),
         NEW v \in Nat, v < Limit(base, most)
  PROVE  Numeral(base, v) \in Seq(Byte)
<1> DEFINE W(d) == v \div Limit(base, d)
           Fits(l) == v \div base ^ (l - 1) \in 1 .. base - 1
           length == IF v = 0 THEN 1 ELSE CHOOSE l \in 1 .. 10 : Fits(l)
           figure(k) == Digit((v \div base ^ (length - k)) % base)
<1>1. (base = 10 /\ most = 10) \/ (base = 16 /\ most = 8)
  OBVIOUS
<1>2. W(0) = v /\ W(most) = 0
  <2> DEFINE limit == Limit(base, most)
  <2>1. limit \in Nat /\ Limit(base, 0) = 1
    BY <1>1, SMT DEF Limit
  <2>2. v < limit
    OBVIOUS
  <2> HIDE DEF limit
  <2>3. v \div limit = 0 /\ v \div 1 = v
    BY <2>1, <2>2, SMT
  <2> QED BY <2>1, <2>3, SMT DEF limit
<1>3. ASSUME NEW d \in 0 .. most - 1
      PROVE  v \div base ^ d = W(d) /\ W(d) \in Nat /\ W(d + 1) = W(d) \div base
  <2>1. /\ base ^ d = Limit(base, d)
        /\ v \div Limit(base, d) \in Nat
        /\ v \div Limit(base, d + 1) = (v \div Limit(base, d)) \div base
    BY <1>1, Powers, Zenon
  <2> QED BY <2>1, Zenon
<1> HIDE DEF W
<1>4. length \in 1 .. 10
  <2>1. CASE v = 0
    BY <2>1, SMT
  <2>2. CASE v # 0
    <3> DEFINE S == {d \in Nat : d <= most /\ W(d) = 0}
    <3>1. most \in S /\ 0 \notin S /\ S \in SUBSET Nat
      BY <1>1, <1>2, <2>2, SMT
    <3>2. PICK low \in S : \A k \in S : low <= k
      <4> HIDE DEF S
      <4>1. S # {}
        BY <3>1, SMT
      <4> QED BY <3>1, <4>1, Lowest, SMT
    <3>3. low \in 1 .. most /\ W(low) = 0
      BY <1>1, <3>1, <3>2, SMT
    <3> DEFINE d == low - 1
    <3>4. d \in 0 .. most - 1 /\ d + 1 = low /\ d \notin S
      BY <1>1, <3>2, <3>3, SMT
    <3>5. W(d) \in Nat /\ W(d) # 0 /\ W(d) \div base = 0 /\ v \div base ^ d = W(d)
      BY <1>1, <1>3, <3>3, <3>4, SMT
    <3>6. low \in 1 .. 10 /\ Fits(low)
      <4> HIDE DEF d
      <4> DEFINE w == W(d)
      <4>1. w \in Nat /\ w # 0 /\ w \div base = 0
        BY <3>5, SMT
      <4> HIDE DEF w
      <4>2. w \in 1 .. base - 1
        <5>1. CASE base = 10
          BY <4>1, <5>1, SMT
        <5>2. CASE base = 16
          BY <4>1, <5>2, SMT
        <5> QED BY <5>1, <5>2, SMT
      <4>3. low \in 1 .. 10
        BY <1>1, <3>3, SMT
      <4>4. v \div base ^ d \in 1 .. base - 1
        BY <3>5, <4>2, SMT DEF w
      <4> QED BY <4>3, <4>4, SMT DEF d
    <3> HIDE DEF Fits
    <3>7. (CHOOSE l \in 1 .. 10 : Fits(l)) \in 1 .. 10
      BY <3>6, SMT
    <3> QED BY <2>2, <3>7, SMT
  <2> QED BY <2>1, <2>2, SMT
<1>5. Numeral(base, v) = [k \in 1 .. length |-> figure(k)]
  BY SMT DEF Numeral
<1> HIDE DEF length
<1>6. ASSUME NEW k \in 1 .. length PROVE figure(k) \in Byte
  <2> DEFINE w == v \div base ^ (length - k)
  <2>1. length - k \in 0 .. 9
    BY <1>4, SMT
  <2>2. base \in {10, 16}
    BY <1>1
  <2>3. w \in Nat
    BY <2>1, <2>2, PositivePowers, Zenon
  <2> HIDE DEF w
  <2>4. Digit(w % base) \in Byte
    BY <2>2, <2>3, Digits, Zenon
  <2> QED BY <2>4, Zenon DEF w
<1> HIDE DEF figure
<1>7. [k \in 1 .. length |-> figure(k)] \in [1 .. length -> Byte]
  BY <1>6, SMT
<1> QED BY <1>4, <1>5, <1>7, SMT

(* A 0 behind a sequence makes a string of it, which may end before it.      *)
LEMMA StringOf ==
  ASSUME NEW s \in Seq(Byte)
  PROVE  Text(s \o <<0>>) \in Seq(Byte)
<1> DEFINE str == s \o <<0>>
           Zeros == {k \in Nat : k \in 1 .. Len(str) /\ str[k] = 0}
<1>1. str \in Seq(Byte)
  <2>1. <<0>> \in Seq(Byte)
    BY DEF Byte
  <2>2. \A t \in Seq(Byte) : s \o t \in Seq(Byte)
    OBVIOUS
  <2> QED BY <2>1, <2>2, Zenon
<1>2. Len(s) \in Nat /\ Len(str) = Len(s) + 1 /\ str[Len(s) + 1] = 0
  OBVIOUS
<1> HIDE DEF str
<1>3. Len(s) + 1 \in Zeros /\ Zeros \in SUBSET Nat
  BY <1>2
<1>4. PICK m \in Zeros : \A k \in Zeros : m <= k
  <2> HIDE DEF Zeros
  <2> QED BY <1>3, Lowest, Zenon
<1>5. m \in 1 .. Len(str) /\ str[m] = 0
  BY <1>4
<1>6. ASSUME NEW j \in 1 .. m - 1 PROVE str[j] # 0
  BY <1>2, <1>4, <1>5
<1>7. m \in DOMAIN str
  BY <1>1, <1>5
<1>8. Text(str) \in Seq(Byte)
  BY <1>1, <1>5, <1>6, <1>7, TextEnds, Zenon
<1> QED BY <1>8 DEF str

LEMMA SentIsText ==
  ASSUME NEW shown \in Seq(Byte)
  PROVE  Sent(shown) \in Seq(Byte)
<1> DEFINE str == shown \o <<0>>
           s == Text(str)
           part(k) == IF s[k] = NewLine THEN <<Return13, NewLine>> ELSE <<s[k]>>
           parts == [k \in DOMAIN s |-> part(k)]
<1>0. s \in Seq(Byte)
  BY StringOf, Zenon
<1>6. SerialWrite(str) = Joined(parts)
  BY Zenon DEF SerialWrite
<1> HIDE DEF s
<1>1. DOMAIN s = 1 .. Len(s) /\ Len(s) \in Nat
  BY <1>0
<1>2. ASSUME NEW k \in DOMAIN s PROVE part(k) \in Seq(Byte)
  <2> DEFINE u == s[k]
  <2>1. u \in Byte /\ Return13 \in Byte /\ NewLine \in Byte
    <3>1. Return13 \in Byte /\ NewLine \in Byte
      BY DEF Return13, NewLine, Byte
    <3>2. u \in Byte
      BY <1>0, <1>1
    <3> QED BY <3>1, <3>2
  <2> HIDE DEF u
  <2>2. <<Return13, NewLine>> \in Seq(Byte) /\ <<u>> \in Seq(Byte)
    BY <2>1
  <2> QED BY <2>2 DEF u
<1> HIDE DEF part
<1>3. parts \in Seq(Seq(Byte))
  <2>1. parts \in [1 .. Len(s) -> Seq(Byte)]
    BY <1>1, <1>2
  <2> QED BY <1>1, <2>1
<1>4. 0 \in 0 .. Len(parts)
  <2> HIDE DEF parts
  <2> QED BY <1>3
<1>5. Joined(parts) \in Seq(Byte)
  <2> HIDE DEF parts
  <2> QED BY <1>3, <1>4, JoinedBegins, Zenon
<1> QED BY <1>5, <1>6, Zenon DEF Sent

LEMMA Letters ==
  /\ Letter["u"] = 117 /\ Letter["x"] = 120 /\ Letter["s"] = 115 /\ Letter["c"] = 99
  /\ \A letter : Takes(letter) <=> letter \in {117, 120, 115, 99}
<1>1. /\ Letter["u"] = 117 /\ Letter["x"] = 120 /\ Letter["s"] = 115 /\ Letter["c"] = 99
      /\ DOMAIN Letter = {"u", "x", "s", "c"}
  BY SMT DEF Letter
<1> QED BY <1>1, SMT DEF Takes

LEMMA NumeralsAreText ==
  ASSUME NEW v, Unsigned(v)
  PROVE  Numeral(10, v) \in Seq(Byte) /\ Numeral(16, v) \in Seq(Byte)
<1>1. v \in Nat /\ v < Limit(10, 10) /\ v < Limit(16, 8)
  <2>1. v \in Nat /\ v < 4294967296
    BY SMT DEF Unsigned
  <2> QED BY <2>1, SMT DEF Limit
<1>2. ASSUME NEW w \in Nat, w < Limit(10, 10), w < Limit(16, 8)
      PROVE  Numeral(10, w) \in Seq(Byte) /\ Numeral(16, w) \in Seq(Byte)
  BY <1>2, NumeralIsText, SMT
<1> QED BY <1>1, <1>2, SMT

Forms == [k \in 1 .. Len(call.pieces) |-> Form(call.pieces[k])]
ArgLists == [k \in 1 .. Len(call.pieces) |-> Args(call.pieces[k])]
Meanings == [k \in 1 .. Len(call.pieces) |-> Meaning(call.pieces[k])]
Values == {call.pieces[k].arg : k \in 1 .. Len(call.pieces)}

LEMMA Pieces ==
  ASSUME call \in Calls, call.fn = "writef"
  PROVE  /\ call.n = 0 /\ Len(call.pieces) \in Nat
         /\ call.a = Joined(Forms) \o <<0>> /\ call.b = Joined(ArgLists)
         /\ \A k \in 1 .. Len(call.pieces) :
              /\ call.pieces[k].letter \in Byte
              /\ call.pieces[k].letter = 0 =>
                   \E u \in Byte \ {0, Percent} : call.pieces[k].arg = <<u>>
              /\ call.pieces[k].letter \in {Letter["u"], Letter["x"]} =>
                   Unsigned(call.pieces[k].arg[1])
              /\ call.pieces[k].letter = Letter["s"] => Terminated(call.pieces[k].arg)
              /\ call.pieces[k].letter = Letter["c"] =>
                   \E u \in Byte : call.pieces[k].arg = <<u>>
  BY FormatCalls, Zenon DEF Forms, ArgLists

LEMMA FormIsText ==
  ASSUME call \in Calls, call.fn = "writef", NEW k \in 1 .. Len(call.pieces)
  PROVE  Form(call.pieces[k]) \in Seq(Byte) /\ Args(call.pieces[k]) \in Seq(Values)
<1> DEFINE letter == call.pieces[k].letter
           arg == call.pieces[k].arg
<1>1. letter \in Byte /\ (letter = 0 => \E u \in Byte \ {0, Percent} : arg = <<u>>)
  BY Pieces, Zenon
<1>2. arg \in Values
  BY Zenon DEF Values
<1> HIDE DEF letter, arg
<1>3. <<Percent, letter>> \in Seq(Byte)
  <2>1. Percent \in Byte
    BY DEF Percent, Byte
  <2>2. letter \in Byte
    BY <1>1, Zenon
  <2>3. \A u, v \in Byte : <<u, v>> \in Seq(Byte)
    OBVIOUS
  <2> QED BY <2>1, <2>2, <2>3, Zenon
<1>4. letter = 0 => arg \in Seq(Byte)
  <2> SUFFICES ASSUME letter = 0 PROVE arg \in Seq(Byte)
    OBVIOUS
  <2>1. PICK u \in Byte \ {0, Percent} : arg = <<u>>
    BY <1>1, Zenon
  <2>2. u \in Byte
    OBVIOUS
  <2>3. <<u>> \in Seq(Byte)
    BY <2>2
  <2> QED BY <2>1, <2>3, Zenon
<1>5. <<arg>> \in Seq(Values) /\ <<>> \in Seq(Values)
  BY <1>2
<1>6. Form(call.pieces[k]) \in Seq(Byte)
  BY <1>3, <1>4, Zenon DEF Form, letter, arg
<1>7. Args(call.pieces[k]) \in Seq(Values)
  BY <1>5, Zenon DEF Args, letter, arg
<1> QED BY <1>6, <1>7

LEMMA MeaningIsText ==
  ASSUME call \in Calls, call.fn = "writef", NEW k \in 1 .. Len(call.pieces)
  PROVE  Meaning(call.pieces[k]) \in Seq(Byte)
<1> DEFINE piece == call.pieces[k]
           letter == piece.letter
           arg == piece.arg
           shown == IF Takes(letter) THEN Shown(letter, arg)
                    ELSE IF letter = 0 THEN arg
                    ELSE IF letter = Percent THEN <<Percent>>
                    ELSE <<Percent, letter>>
<1>1. /\ letter \in Byte /\ (letter = 0 => \E u \in Byte \ {0, Percent} : arg = <<u>>)
      /\ letter \in {Letter["u"], Letter["x"]} => Unsigned(arg[1])
      /\ letter = Letter["s"] => Terminated(arg)
      /\ letter = Letter["c"] => \E u \in Byte : arg = <<u>>
  BY Pieces, Zenon
<1>2. Meaning(piece) = Sent(shown)
  BY Zenon DEF Meaning
<1> HIDE DEF piece, letter, arg
<1>3. ASSUME Takes(letter) PROVE shown \in Seq(Byte)
  <2>1. letter \in {117, 120, 115, 99}
    BY <1>3, Letters, Zenon
  <2>2. CASE letter = 117
    <3>1. Shown(letter, arg) = Numeral(10, arg[1])
      BY <2>2, Letters, SMT DEF Shown
    <3>2. Unsigned(arg[1])
      BY <1>1, <2>2, Letters, SMT
    <3> QED BY <1>3, <3>1, <3>2, NumeralsAreText, SMT
  <2>3. CASE letter = 120
    <3>1. Shown(letter, arg) = <<DigitZero, LetterX>> \o Numeral(16, arg[1])
      BY <2>3, Letters, SMT DEF Shown
    <3>2. Unsigned(arg[1])
      BY <1>1, <2>3, Letters, SMT
    <3>3. Numeral(16, arg[1]) \in Seq(Byte)
      BY <3>2, NumeralsAreText, SMT
    <3>4. <<DigitZero, LetterX>> \in Seq(Byte)
      <4>1. DigitZero \in Byte /\ LetterX \in Byte
        BY SMT DEF DigitZero, LetterX, Byte
      <4> QED BY <4>1, SMT
    <3>5. \A s, t \in Seq(Byte) : s \o t \in Seq(Byte)
      OBVIOUS
    <3> QED BY <1>3, <3>1, <3>3, <3>4, <3>5, SMT
  <2>4. CASE letter = 115
    <3>1. Shown(letter, arg) = Text(arg)
      BY <2>4, Letters, SMT DEF Shown
    <3>2. Terminated(arg)
      BY <1>1, <2>4, Letters, SMT
    <3>3. PICK m \in DOMAIN arg : arg[m] = 0 /\ \A j \in 1 .. m - 1 : arg[j] # 0
      BY <3>2, SMT DEF Terminated
    <3>4. arg \in Seq(Byte)
      BY <3>2, SMT DEF Terminated
    <3>5. Text(arg) \in Seq(Byte)
      BY <3>3, <3>4, TextEnds, Zenon
    <3> QED BY <1>3, <3>1, <3>5, SMT
  <2>5. CASE letter = 99
    <3>1. Shown(letter, arg) = arg
      BY <2>5, Letters, SMT DEF Shown
    <3>2. \E u \in Byte : arg = <<u>>
      BY <1>1, <2>5, Letters, SMT
    <3>3. arg \in Seq(Byte)
      BY <3>2, SMT
    <3> QED BY <1>3, <3>1, <3>3, SMT
  <2> QED BY <2>1, <2>2, <2>3, <2>4, <2>5, SMT
<1>4. ASSUME ~Takes(letter) PROVE shown \in Seq(Byte)
  <2>1. <<Percent>> \in Seq(Byte) /\ <<Percent, letter>> \in Seq(Byte)
    <3>1. Percent \in Byte
      BY DEF Percent, Byte
    <3>2. letter \in Byte
      BY <1>1, Zenon
    <3>3. \A u, v \in Byte : <<u>> \in Seq(Byte) /\ <<u, v>> \in Seq(Byte)
      OBVIOUS
    <3> QED BY <3>1, <3>2, <3>3, Zenon
  <2>2. letter = 0 => arg \in Seq(Byte)
    <3> SUFFICES ASSUME letter = 0 PROVE arg \in Seq(Byte)
      OBVIOUS
    <3>1. PICK u \in Byte \ {0, Percent} : arg = <<u>>
      BY <1>1, Zenon
    <3>2. u \in Byte
      OBVIOUS
    <3>3. <<u>> \in Seq(Byte)
      BY <3>2
    <3> QED BY <3>1, <3>3, Zenon
  <2> QED BY <1>4, <2>1, <2>2, Zenon
<1>5. shown \in Seq(Byte)
  BY <1>3, <1>4, Zenon
<1> HIDE DEF shown
<1>6. Sent(shown) \in Seq(Byte)
  BY <1>5, SentIsText, Zenon
<1> QED BY <1>2, <1>6, Zenon DEF piece

(* What comes next behind the parts that are already joined *)
LEMMA PartAhead ==
  ASSUME NEW V, NEW parts \in Seq(Seq(V)), NEW k \in 1 .. Len(parts)
  PROVE  /\ Joined(parts) \in Seq(V)
         /\ Len(Joins(parts)[k - 1]) \in Nat
         /\ Len(Joins(parts)[k]) = Len(Joins(parts)[k - 1]) + Len(parts[k])
         /\ \A j \in 1 .. Len(parts[k]) :
              /\ Len(Joins(parts)[k - 1]) + j \in 1 .. Len(Joined(parts))
              /\ Joined(parts)[Len(Joins(parts)[k - 1]) + j] = parts[k][j]
<1> DEFINE s == Joins(parts)[k - 1]
           t == Joins(parts)[k]
           whole == Joined(parts)
           part == parts[k]
<1>1. Len(parts) \in Nat /\ part \in Seq(V)
  OBVIOUS
<1>2. k - 1 \in 0 .. Len(parts) /\ k \in 0 .. Len(parts)
  BY <1>1
<1>3. s \in Seq(V) /\ t = s \o part
  BY <1>2, JoinedParts, Zenon
<1>4. whole \in Seq(V) /\ Len(t) <= Len(whole) /\ \A j \in 1 .. Len(t) : whole[j] = t[j]
  BY <1>2, JoinedBegins, Zenon
<1> HIDE DEF s, t, whole, part
<1>5. /\ Len(s) \in Nat /\ Len(part) \in Nat /\ Len(whole) \in Nat
      /\ Len(t) = Len(s) + Len(part)
      /\ \A j \in 1 .. Len(part) : t[Len(s) + j] = part[j]
  BY <1>1, <1>3, <1>4
<1>6. ASSUME NEW j \in 1 .. Len(part)
      PROVE  Len(s) + j \in 1 .. Len(whole) /\ whole[Len(s) + j] = part[j]
  <2>1. Len(s) + j \in 1 .. Len(t) /\ Len(s) + j \in 1 .. Len(whole)
    BY <1>4, <1>5
  <2> QED BY <1>4, <1>5, <2>1, Zenon
<1> QED BY <1>4, <1>5, <1>6, Zenon DEF s, t, whole, part

LEMMA PiecesJoin ==
  ASSUME call \in Calls, call.fn = "writef"
  PROVE  /\ Forms \in Seq(Seq(Byte)) /\ Len(Forms) = Len(call.pieces)
         /\ ArgLists \in Seq(Seq(Values)) /\ Len(ArgLists) = Len(call.pieces)
         /\ Meanings \in Seq(Seq(Byte)) /\ Len(Meanings) = Len(call.pieces)
         /\ \A k \in 1 .. Len(call.pieces) :
              /\ Forms[k] = Form(call.pieces[k])
              /\ ArgLists[k] = Args(call.pieces[k])
              /\ Meanings[k] = Meaning(call.pieces[k])
<1> DEFINE l == Len(call.pieces)
<1>1. l \in Nat
  BY Pieces, Zenon
<1>2. \A k \in 1 .. l : /\ Form(call.pieces[k]) \in Seq(Byte)
                        /\ Args(call.pieces[k]) \in Seq(Values)
                        /\ Meaning(call.pieces[k]) \in Seq(Byte)
  BY FormIsText, MeaningIsText, Zenon
<1> HIDE DEF l
<1>3. ASSUME NEW S, NEW f \in [1 .. l -> S] PROVE f \in Seq(S) /\ Len(f) = l
  BY <1>1
<1>4. Forms \in [1 .. l -> Seq(Byte)] /\ \A k \in 1 .. l : Forms[k] = Form(call.pieces[k])
  <2>1. Forms = [k \in 1 .. l |-> Form(call.pieces[k])]
    BY Zenon DEF Forms, l
  <2> QED BY <1>2, <2>1, Zenon
<1>5. ArgLists \in [1 .. l -> Seq(Values)] /\ \A k \in 1 .. l : ArgLists[k] = Args(call.pieces[k])
  <2>1. ArgLists = [k \in 1 .. l |-> Args(call.pieces[k])]
    BY Zenon DEF ArgLists, l
  <2> QED BY <1>2, <2>1, Zenon
<1>6. Meanings \in [1 .. l -> Seq(Byte)] /\ \A k \in 1 .. l : Meanings[k] = Meaning(call.pieces[k])
  <2>1. Meanings = [k \in 1 .. l |-> Meaning(call.pieces[k])]
    BY Zenon DEF Meanings, l
  <2> QED BY <1>2, <2>1, Zenon
<1> QED BY <1>3, <1>4, <1>5, <1>6, Zenon DEF l

LEMMA FormAhead ==
  ASSUME call \in Calls, call.fn = "writef", NEW k \in 1 .. Len(call.pieces),
         NEW at, at = Len(Joins(Forms)[k - 1])
  PROVE  /\ at \in Nat
         /\ call.pieces[k].letter = 0 =>
              /\ A(at) \notin {0, Percent} /\ call.pieces[k].arg = <<A(at)>>
              /\ Len(Joins(Forms)[k]) = at + 1
         /\ call.pieces[k].letter # 0 =>
              /\ A(at) = Percent /\ A(at + 1) = call.pieces[k].letter
              /\ Len(Joins(Forms)[k]) = at + 2
<1> DEFINE letter == call.pieces[k].letter
           arg == call.pieces[k].arg
           form == Form(call.pieces[k])
           whole == Joined(Forms)
<1>1. /\ at \in Nat /\ whole \in Seq(Byte)
      /\ Len(Joins(Forms)[k]) = at + Len(form)
      /\ \A j \in 1 .. Len(form) : at + j \in 1 .. Len(whole) /\ whole[at + j] = form[j]
  <2>1. Forms \in Seq(Seq(Byte)) /\ k \in 1 .. Len(Forms) /\ Forms[k] = form
    BY PiecesJoin, Zenon
  <2> HIDE DEF form
  <2>2. /\ whole \in Seq(Byte)
        /\ Len(Joins(Forms)[k - 1]) \in Nat
        /\ Len(Joins(Forms)[k]) = Len(Joins(Forms)[k - 1]) + Len(Forms[k])
        /\ \A j \in 1 .. Len(Forms[k]) :
             Len(Joins(Forms)[k - 1]) + j \in 1 .. Len(whole) /\ whole[Len(Joins(Forms)[k - 1]) + j] = Forms[k][j]
    BY <2>1, PartAhead, Zenon
  <2> QED BY <2>1, <2>2, Zenon
<1>2. call.a = whole \o <<0>>
  BY Pieces, Zenon
<1>3. letter = 0 => \E u \in Byte \ {0, Percent} : arg = <<u>>
  BY Pieces, Zenon
<1>4. form = IF letter = 0 THEN arg ELSE <<Percent, letter>>
  BY Zenon DEF Form
<1> HIDE DEF letter, arg, form, whole
<1>5. ASSUME NEW j \in 1 .. Len(form) PROVE call.a[at + j] = form[j]
  <2>1. at + j \in 1 .. Len(whole) /\ whole[at + j] = form[j]
    BY <1>1, Zenon
  <2>2. ASSUME NEW m \in 1 .. Len(whole) PROVE (whole \o <<0>>)[m] = whole[m]
    BY <1>1
  <2> QED BY <1>2, <2>1, <2>2, Zenon
<1>6. ASSUME letter = 0
      PROVE  A(at) \notin {0, Percent} /\ arg = <<A(at)>> /\ Len(form) = 1
  <2>1. PICK u \in Byte \ {0, Percent} : arg = <<u>>
    BY <1>3, <1>6, Zenon
  <2>2. form = <<u>>
    BY <1>4, <1>6, <2>1, Zenon
  <2>3. Len(form) = 1 /\ form[1] = u /\ 1 \in 1 .. Len(form)
    BY <2>2
  <2>4. A(at) = u
    BY <1>5, <2>3, Zenon DEF A
  <2> QED BY <2>1, <2>3, <2>4
<1>7. ASSUME letter # 0
      PROVE  A(at) = Percent /\ A(at + 1) = letter /\ Len(form) = 2
  <2>1. form = <<Percent, letter>>
    BY <1>4, <1>7, Zenon
  <2>2. /\ Len(form) = 2 /\ form[1] = Percent /\ form[2] = letter
        /\ 1 \in 1 .. Len(form) /\ 2 \in 1 .. Len(form) /\ at + 1 + 1 = at + 2
    BY <1>1, <2>1
  <2>3. A(at) = form[1] /\ A(at + 1) = form[2]
    BY <1>5, <2>2, SMT DEF A
  <2> QED BY <2>2, <2>3, Zenon
<1>8. /\ letter = 0 => Len(Joins(Forms)[k]) = at + 1
      /\ letter # 0 => Len(Joins(Forms)[k]) = at + 2
  BY <1>1, <1>6, <1>7, Zenon
<1> QED BY <1>1, <1>6, <1>7, <1>8, Zenon DEF letter, arg

LEMMA ArgAhead ==
  ASSUME call \in Calls, call.fn = "writef", NEW k \in 1 .. Len(call.pieces),
         NEW at, at = Len(Joins(ArgLists)[k - 1])
  PROVE  /\ at \in Nat
         /\ Takes(call.pieces[k].letter) =>
              B(at) = call.pieces[k].arg /\ Len(Joins(ArgLists)[k]) = at + 1
         /\ ~Takes(call.pieces[k].letter) => Len(Joins(ArgLists)[k]) = at
<1> DEFINE letter == call.pieces[k].letter
           arg == call.pieces[k].arg
           list == Args(call.pieces[k])
<1>1. /\ at \in Nat
      /\ Len(Joins(ArgLists)[k]) = at + Len(list)
      /\ \A j \in 1 .. Len(list) : Joined(ArgLists)[at + j] = list[j]
  <2>1. ArgLists \in Seq(Seq(Values)) /\ k \in 1 .. Len(ArgLists) /\ ArgLists[k] = list
    BY PiecesJoin, Zenon
  <2> HIDE DEF list
  <2>2. /\ Len(Joins(ArgLists)[k - 1]) \in Nat
        /\ Len(Joins(ArgLists)[k]) = Len(Joins(ArgLists)[k - 1]) + Len(ArgLists[k])
        /\ \A j \in 1 .. Len(ArgLists[k]) :
             Joined(ArgLists)[Len(Joins(ArgLists)[k - 1]) + j] = ArgLists[k][j]
    BY <2>1, PartAhead, Zenon
  <2> QED BY <2>1, <2>2, Zenon
<1>2. call.b = Joined(ArgLists)
  BY Pieces, Zenon
<1>3. list = IF Takes(letter) THEN <<arg>> ELSE <<>>
  BY Zenon DEF Args
<1> HIDE DEF letter, arg, list
<1>4. ASSUME Takes(letter) PROVE B(at) = arg /\ Len(list) = 1
  <2>1. list = <<arg>>
    BY <1>3, <1>4, Zenon
  <2>2. Len(list) = 1 /\ list[1] = arg /\ 1 \in 1 .. Len(list)
    BY <2>1
  <2> QED BY <1>1, <1>2, <2>2, Zenon DEF B
<1>5. ASSUME ~Takes(letter) PROVE Len(list) = 0
  <2>1. list = <<>>
    BY <1>3, <1>5, Zenon
  <2> QED BY <2>1
<1>6. /\ Takes(letter) => Len(Joins(ArgLists)[k]) = at + 1
      /\ ~Takes(letter) => Len(Joins(ArgLists)[k]) = at
  <2>1. at + 0 = at
    BY <1>1
  <2> QED BY <1>1, <1>4, <1>5, <2>1, Zenon
<1> QED BY <1>1, <1>4, <1>6, Zenon DEF letter, arg

(* Between two steps of writef whole pieces have been printed: the scan, the *)
(* arguments consumed and the output stand behind the same piece.            *)
PrintInv ==
  call.fn = "writef" =>
    /\ call \in Calls
    /\ \E k \in 0 .. Len(call.pieces) :
         /\ i = Len(Joins(Forms)[k])
         /\ n = Len(Joins(ArgLists)[k])
         /\ temp = Joins(Meanings)[k]
         /\ returned => k = Len(call.pieces)

LEMMA PrintInit == Called => PrintInv
<1> SUFFICES ASSUME Called, call.fn = "writef" PROVE PrintInv
  BY Zenon DEF PrintInv
<1>1. call \in Calls /\ i = 0 /\ n = call.n /\ temp = <<>> /\ returned = FALSE
  BY Zenon DEF Called
<1>2. call.n = 0 /\ Len(call.pieces) \in Nat
  BY <1>1, Pieces, Zenon
<1>3. Joins(Forms)[0] = <<>> /\ Joins(ArgLists)[0] = <<>> /\ Joins(Meanings)[0] = <<>>
  BY <1>1, PiecesJoin, JoinedParts, Zenon
<1>4. Len(<<>>) = 0 /\ 0 \in 0 .. Len(call.pieces)
  BY <1>2
<1> QED BY <1>1, <1>2, <1>3, <1>4, Zenon DEF PrintInv

LEMMA PrintNext == PrintInv /\ [Next]_frame => PrintInv'
<1> SUFFICES ASSUME PrintInv, [Next]_frame, call.fn = "writef" PROVE PrintInv'
  BY StepOfCall, Zenon DEF PrintInv
<1>1. call \in Calls
  BY Zenon DEF PrintInv
<1>2. PICK k \in 0 .. Len(call.pieces) :
        /\ i = Len(Joins(Forms)[k])
        /\ n = Len(Joins(ArgLists)[k])
        /\ temp = Joins(Meanings)[k]
        /\ returned => k = Len(call.pieces)
  BY Zenon DEF PrintInv
<1>3. call' = call /\ (UNCHANGED frame \/ Writef)
  BY StepOfCall, StepOfSearch, Zenon
<1>4. Forms' = Forms /\ ArgLists' = ArgLists /\ Meanings' = Meanings
  BY <1>3 DEF Forms, ArgLists, Meanings, Meaning, Sent
<1>5. ASSUME NEW j \in 0 .. Len(call.pieces),
             i' = Len(Joins(Forms)[j]), n' = Len(Joins(ArgLists)[j]),
             temp' = Joins(Meanings)[j], returned' => j = Len(call.pieces)
      PROVE  PrintInv'
  BY <1>1, <1>3, <1>4, <1>5, Zenon DEF PrintInv
<1>6. CASE UNCHANGED frame
  <2>1. i' = i /\ n' = n /\ temp' = temp /\ returned' = returned
    BY <1>6, Zenon DEF frame
  <2> QED BY <1>2, <1>5, <2>1, Zenon
<1>7. Len(call.pieces) \in Nat
  BY <1>1, Pieces, Zenon
<1>8. CASE Writef /\ k = Len(call.pieces)
  <2>1. A(i) = 0
    <3>1. Forms \in Seq(Seq(Byte)) /\ k = Len(Forms)
      BY <1>1, <1>8, PiecesJoin, Zenon
    <3>2. k \in 0 .. Len(Forms)
      BY <1>7, <1>8, <3>1
    <3>3. Joined(Forms) = Joins(Forms)[k] /\ Joined(Forms) \in Seq(Byte)
      BY <3>1, <3>2, JoinedParts, JoinedBegins, Zenon
    <3> DEFINE whole == Joined(Forms)
    <3>4. call.a = whole \o <<0>> /\ i = Len(whole) /\ whole \in Seq(Byte)
      BY <1>1, <1>2, <3>3, Pieces, Zenon
    <3> HIDE DEF whole
    <3>5. (whole \o <<0>>)[Len(whole) + 1] = 0
      BY <3>4
    <3> QED BY <3>4, <3>5, Zenon DEF A
  <2>2. Return(0)
    <3>1. Percent # 0
      BY DEF Percent
    <3> QED BY <1>8, <2>1, <3>1, Zenon DEF Writef, PlainCharacter, Conversion, OtherLetter
  <2>3. i' = i /\ n' = n /\ temp' = temp
    BY <2>2, Zenon DEF Return
  <2> QED BY <1>2, <1>5, <1>8, <2>3, Zenon
<1>9. CASE Writef /\ k # Len(call.pieces)
  <2> DEFINE j == k + 1
             piece == call.pieces[j]
             letter == piece.letter
             arg == piece.arg
             shown == IF Takes(letter) THEN Shown(letter, arg)
                      ELSE IF letter = 0 THEN arg
                      ELSE IF letter = Percent THEN <<Percent>>
                      ELSE <<Percent, letter>>
  <2>1. j \in 1 .. Len(call.pieces) /\ j \in 0 .. Len(call.pieces) /\ j - 1 = k
    BY <1>7, <1>9
  <2>2. Meaning(piece) = Sent(shown)
    BY Zenon DEF Meaning
  <2> HIDE DEF j, piece, letter, arg
  <2>3. /\ i \in Nat
        /\ letter = 0 => /\ A(i) \notin {0, Percent} /\ arg = <<A(i)>>
                         /\ Len(Joins(Forms)[j]) = i + 1
        /\ letter # 0 => /\ A(i) = Percent /\ A(i + 1) = letter
                         /\ Len(Joins(Forms)[j]) = i + 2
    <3>1. i = Len(Joins(Forms)[j - 1])
      BY <1>2, <2>1, Zenon
    <3> QED BY <1>1, <2>1, <3>1, FormAhead, Zenon DEF letter, arg, piece
  <2>4. /\ Takes(letter) => B(n) = arg /\ Len(Joins(ArgLists)[j]) = n + 1
        /\ ~Takes(letter) => Len(Joins(ArgLists)[j]) = n
    <3>1. n = Len(Joins(ArgLists)[j - 1])
      BY <1>2, <2>1, Zenon
    <3> QED BY <1>1, <2>1, <3>1, ArgAhead, Zenon DEF letter, arg, piece
  <2>5. Joins(Meanings)[j] = temp \o Meaning(piece)
    <3>1. Meanings \in Seq(Seq(Byte)) /\ j \in 1 .. Len(Meanings) /\ Meanings[j] = Meaning(piece)
      BY <1>1, <2>1, PiecesJoin, Zenon DEF piece
    <3>2. Joins(Meanings)[j] = Joins(Meanings)[j - 1] \o Meanings[j]
      BY <3>1, JoinedParts, Zenon
    <3> QED BY <1>2, <2>1, <3>1, <3>2, Zenon
  <2>6. Percent # 0 /\ ~Takes(0) /\ ~Takes(Percent)
    BY Letters DEF Percent
  <2>7. ~returned
    BY <1>9, Zenon DEF Writef, In
  <2>8. ASSUME Send(shown), i' = Len(Joins(Forms)[j]), n' = Len(Joins(ArgLists)[j]),
               returned' = returned
        PROVE  PrintInv'
    <3>1. temp' = temp \o Meaning(piece)
      <4>1. temp' = temp \o Sent(shown)
        BY <2>8, Zenon DEF Send
      <4> QED BY <2>2, <4>1, Zenon
    <3> QED BY <1>5, <2>1, <2>5, <2>7, <2>8, <3>1, Zenon
  <2>9. /\ A(i) # 0
        /\ PlainCharacter \/ Conversion \/ OtherLetter
        /\ returned' = returned
    <3>1. A(i) # 0
      BY <2>3, <2>6, Zenon
    <3> QED BY <1>9, <3>1, Zenon DEF Writef
  <2>10. CASE letter = 0
    <3>1. shown = <<A(i)>>
      BY <2>3, <2>6, <2>10, Zenon
    <3>2. PlainCharacter
      BY <2>3, <2>9, <2>10, Zenon DEF Conversion, OtherLetter
    <3>3. Send(shown) /\ i' = i + 1 /\ n' = n
      BY <3>1, <3>2, Zenon DEF PlainCharacter
    <3> QED BY <2>3, <2>4, <2>6, <2>8, <2>9, <2>10, <3>3, Zenon
  <2>11. CASE letter # 0 /\ Takes(letter)
    <3>1. Conversion
      BY <2>3, <2>9, <2>11, Zenon DEF PlainCharacter, OtherLetter
    <3>2. shown = Shown(A(i + 1), B(n))
      BY <2>3, <2>4, <2>11, Zenon
    <3>3. Send(shown) /\ i' = i + 2 /\ n' = n + 1
      BY <3>1, <3>2, Zenon DEF Conversion
    <3> QED BY <2>3, <2>4, <2>8, <2>9, <2>11, <3>3, Zenon
  <2>12. CASE letter # 0 /\ ~Takes(letter)
    <3>1. OtherLetter
      BY <2>3, <2>9, <2>12, Zenon DEF PlainCharacter, Conversion
    <3>2. shown = IF A(i + 1) = Percent THEN <<Percent>> ELSE <<Percent, A(i + 1)>>
      BY <2>3, <2>12, Zenon
    <3>3. Send(shown) /\ i' = i + 2 /\ n' = n
      BY <3>1, <3>2, Zenon DEF OtherLetter
    <3> QED BY <2>3, <2>4, <2>8, <2>9, <2>12, <3>3, Zenon
  <2> QED BY <2>10, <2>11, <2>12, Zenon
<1> QED BY <1>3, <1>6, <1>8, <1>9, Zenon

(* For every format put together from pieces, with arguments of the types    *)
(* its directives want: what writef prints is the pieces' own output, each   *)
(* with its own argument, and it never scans past an end.                    *)
THEOREM PrintsRightly == Spec => []Prints
<1>1. PrintInv => Prints
  <2> SUFFICES ASSUME PrintInv, call.fn = "writef"
               PROVE  /\ i < Len(call.a) /\ n <= Len(call.b)
                      /\ returned => temp = Joined(Meanings)
    BY Zenon DEF Prints, Meanings
  <2>1. call \in Calls
    BY Zenon DEF PrintInv
  <2>2. PICK k \in 0 .. Len(call.pieces) :
          /\ i = Len(Joins(Forms)[k])
          /\ n = Len(Joins(ArgLists)[k])
          /\ temp = Joins(Meanings)[k]
          /\ returned => k = Len(call.pieces)
    BY Zenon DEF PrintInv
  <2>3. /\ Forms \in Seq(Seq(Byte)) /\ k \in 0 .. Len(Forms)
        /\ ArgLists \in Seq(Seq(Values)) /\ k \in 0 .. Len(ArgLists)
        /\ Meanings \in Seq(Seq(Byte)) /\ Len(Meanings) = Len(call.pieces)
    BY <2>1, <2>2, PiecesJoin, Zenon
  <2>4. call.a = Joined(Forms) \o <<0>> /\ call.b = Joined(ArgLists)
    BY <2>1, Pieces, Zenon
  <2>5. i <= Len(Joined(Forms)) /\ Joined(Forms) \in Seq(Byte) /\ i \in Nat
    <3>1. i <= Len(Joined(Forms)) /\ Joined(Forms) \in Seq(Byte)
      BY <2>2, <2>3, JoinedBegins, Zenon
    <3>2. Joins(Forms)[k] \in Seq(Byte)
      BY <2>3, JoinedParts, Zenon
    <3>3. i \in Nat
      BY <2>2, <3>2
    <3> QED BY <3>1, <3>3
  <2>6. n <= Len(Joined(ArgLists))
    BY <2>2, <2>3, JoinedBegins, Zenon
  <2>7. i < Len(call.a)
    <3> DEFINE whole == Joined(Forms)
    <3>1. whole \in Seq(Byte) /\ i <= Len(whole) /\ i \in Nat /\ call.a = whole \o <<0>>
      BY <2>4, <2>5, Zenon
    <3> HIDE DEF whole
    <3>2. Len(whole \o <<0>>) = Len(whole) + 1 /\ Len(whole) \in Nat
      BY <3>1
    <3> QED BY <3>1, <3>2
  <2>8. returned => temp = Joined(Meanings)
    BY <2>2, <2>3, JoinedParts, Zenon
  <2> QED BY <2>4, <2>6, <2>7, <2>8, Zenon
<1>2. Spec => []PrintInv
  BY PrintInit, PrintNext, PTL DEF Spec
<1> QED BY <1>1, <1>2, PTL
=============================================================================
