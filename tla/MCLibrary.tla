----------------------------- MODULE MCLibrary -----------------------------
(* The calls that TLC makes. *)
EXTENDS Library, FiniteSets

SeqsUpTo(S, m) == UNION {[1 .. l -> S] : l \in 0 .. m}
With(function, a, b, count) ==
  [fn |-> function, a |-> a, b |-> b, n |-> count, buffer |-> <<>>]

(* A small character and a large one, which is negative as a signed char; *)
(* what lies behind a terminator may be anything.                          *)
Memory == {s \o <<0>> : s \in SeqsUpTo({0, 97, 200}, 3)}
Pairs == [1 .. 3 -> {97, 200}]
Comparisons ==
  {With("strcmp", s, t, 0) : s \in Memory, t \in Memory}
    \cup {With("strlen", s, <<>>, 0) : s \in Memory}
    \cup {With("memcmp", s, t, m) : s \in Pairs, t \in Pairs, m \in 0 .. 3}

(* Every remainder of the division into words, and none and two words *)
Source == [k \in 1 .. 16 |-> k]
Old == [k \in 1 .. 16 |-> 99]
Fills ==
  {[fn |-> f, a |-> Source, n |-> m, buffer |-> Old, value |-> v] :
     f \in {"memcpy", "memset"}, m \in 0 .. 11, v \in {-1, 0, 7, 263}}

(* Both sides of each change of length, up to eight hexadecimal digits, in *)
(* the smallest buffer that will do and in the smallest that is passed     *)
Powers == {10 ^ k : k \in 0 .. 9} \cup {16 ^ k : k \in 0 .. 7}
Numbers == {0, 2147483647, 305419896} \cup Powers \cup {p - 1 : p \in Powers}
Numerals == {[fn |-> f, n |-> v, buffer |-> SubSeq(Old, 1, m)] :
               f \in {"itoa", "itoa_hex"}, v \in Numbers, m \in {11, 12}}

-----------------------------------------------------------------------------
Plain(c) == [letter |-> 0, arg |-> <<c>>]
Directive(letter, arg) == [letter |-> letter, arg |-> arg]

Pieces ==
  {Plain(97), Plain(NewLine), Directive(Percent, <<0>>), Directive(97, <<0>>),
   Directive(Letter["u"], <<0>>), Directive(Letter["u"], <<2147483647>>),
   Directive(Letter["x"], <<255>>), Directive(Letter["c"], <<Percent>>),
   Directive(Letter["c"], <<0>>),
   Directive(Letter["s"], <<0>>), Directive(Letter["s"], <<Percent, NewLine, 0>>)}

Formats ==
  {[fn |-> "writef", device |-> d, pieces |-> p, n |-> 0, buffer |-> <<>>,
    a |-> Joined([k \in DOMAIN p |-> Form(p[k])]) \o <<0>>,
    b |-> Joined([k \in DOMAIN p |-> Args(p[k])])] :
     d \in {"terminal", "serial"}, p \in SeqsUpTo(Pieces, 3)}

-----------------------------------------------------------------------------
Tags == [type : {TagEnd, Mmap, BasicMemory, "framebuffer"}, size : {8, 13}]
Lookups == {[fn |-> "multiboot_find_tag", tags |-> t, type |-> w, n |-> TagStart(t, Len(t) + 1),
             buffer |-> <<>>] :
              t \in SeqsUpTo(Tags, 3), w \in {Mmap, BasicMemory, "framebuffer"}}

(* Two ends of regions in the middle of a KiB *)
Entries == [available : BOOLEAN, len : {512, 1024, 654848}]
Amounts == {[fn |-> "memory_get_kb", tags |-> t, entries |-> e, mem_upper |-> 3,
             n |-> 0, buffer |-> <<>>] :
              t \in {<<>>, <<[type |-> Mmap, size |-> 16]>>,
                     <<[type |-> BasicMemory, size |-> 16]>>},
              e \in SeqsUpTo(Entries, 2)}

Searches == {[fn |-> "find_vga", slots |-> s, n |-> 4, buffer |-> <<>>] :
               s \in [1 .. 4 -> {"none", "other", "vga"}]}

MCCalls == Comparisons \cup Fills \cup Numerals \cup Formats \cup Lookups
             \cup Amounts \cup Searches
=============================================================================
