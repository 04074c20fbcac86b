----------------------------- MODULE Discovery -----------------------------
(***************************************************************************)
(* What the kernel looks for in the machine: a tag of the boot             *)
(* information (memory/multiboot.c), the amount of memory                  *)
(* (memory/memory.c) and the PCI display device (io/pci.c).  Calls:        *)
(*   multiboot_find_tag  tags: those in memory, each [type, size]; type:   *)
(*                       the one asked for; n: bytes of all the tags       *)
(*   memory_get_kb       tags; entries: the memory map's, each             *)
(*                       [available, len]; mem_upper; n: 0, the sum        *)
(*   find_vga            slots: for each "none", "other" or "vga"; n:       *)
(*                       their number                                      *)
(***************************************************************************)
EXTENDS Frame

TagEnd == "end"
Mmap == "mmap"
BasicMemory == "basic memory"
Null == -1

PaddedUnalignedBug(size) == size

(* (size + 7) & ~7 *)
Padded(size) == ((size + 7) \div 8) * 8

(* Where in memory the k-th tag begins: each is 8-byte aligned. *)
TagStart(tags, k) ==
  LET f[m \in 1 .. k] ==
        IF m = 1 THEN 0
        ELSE CHOOSE p \in f[m - 1] + tags[m - 1].size ..
                          f[m - 1] + tags[m - 1].size + 7 : p % 8 = 0
  IN  f[k]

(* The boot information ends with its last tag, each of which has at least *)
(* its own header, and nobody looks for the end tag.                       *)
ASSUME SearchCalls ==
  \A c \in Calls :
    /\ c.fn = "multiboot_find_tag" =>
         /\ c.type # TagEnd
         /\ c.tags \in Seq([type : STRING, size : Nat \ {0}])
         /\ c.n = TagStart(c.tags, Len(c.tags) + 1)
    /\ c.fn = "memory_get_kb" =>
         c.entries \in Seq([available : BOOLEAN, len : Nat]) /\ c.n = 0
    /\ c.fn = "find_vga" => c.slots \in Seq(STRING) /\ c.n = Len(c.slots)

IsTag(p) == \E k \in DOMAIN call.tags : TagStart(call.tags, k) = p
TagAt(p) == call.tags[CHOOSE k \in DOMAIN call.tags : TagStart(call.tags, k) = p]

(* ptr is i bytes behind the first tag. *)
FindTag ==
  /\ In("multiboot_find_tag")
  /\ \/ i >= n /\ Return(Null)
     \/ /\ i < n
        /\ LET tag == TagAt(i)
           IN  \/ tag.type = TagEnd /\ Return(Null)
               \/ tag.type # TagEnd /\ tag.type = call.type /\ Return(i)
               \/ /\ tag.type \notin {TagEnd, call.type}
                  /\ Advance(Padded(tag.size))

(* The first tag of a type that an end tag does not hide, or 0 *)
FirstTag(type) ==
  LET Hits == {k \in DOMAIN call.tags :
                 /\ call.tags[k].type = type
                 /\ \A m \in 1 .. k - 1 : call.tags[m].type \notin {type, TagEnd}}
  IN  IF Hits = {} THEN 0 ELSE CHOOSE k \in Hits : TRUE

-----------------------------------------------------------------------------
Usable(entry) == IF entry.available THEN entry.len ELSE 0

(* memory_get_kb: the memory map's entries, or else mem_upper *)
GetKb ==
  /\ In("memory_get_kb")
  /\ \/ /\ FirstTag(Mmap) # 0 /\ i < Len(call.entries)
        /\ n' = n + Usable(call.entries[i + 1])
        /\ i' = i + 1
        /\ UNCHANGED <<call, temp, buffer, result, returned>>
     \/ FirstTag(Mmap) # 0 /\ i = Len(call.entries) /\ Return(n \div 1024)
     \/ /\ FirstTag(Mmap) = 0
        /\ Return(IF FirstTag(BasicMemory) # 0 THEN call.mem_upper + 1024 ELSE 0)

SkipSlotInPlaceBug == Advance(IF call.slots[i + 1] = "none" THEN 0 ELSE 1)

(* No device in the slot, or one of another class *)
SkipSlot == Advance(1)

(* pci_find_vga_device: slot i is device i % 32 of bus i \div 32. *)
FindVga ==
  /\ In("find_vga")
  /\ \/ i < n /\ call.slots[i + 1] # "vga" /\ SkipSlot
     \/ i < n /\ call.slots[i + 1] = "vga" /\ Return(i)
     \/ i = n /\ Return(Null)

DiscoveryNext == FindTag \/ GetKb \/ FindVga

-----------------------------------------------------------------------------
SumOf(s) == LET f[k \in 0 .. Len(s)] == IF k = 0 THEN 0 ELSE f[k - 1] + s[k]
            IN  f[Len(s)]

(* The walk over the tags stands on the beginning of a tag as long as it   *)
(* reads, and every search comes to the first match that counts; memory is *)
(* counted whole, in bytes, before it is rounded down.                     *)
Finds ==
  /\ call.fn = "multiboot_find_tag" =>
       /\ i < n => IsTag(i)
       /\ returned =>
            result = IF FirstTag(call.type) = 0 THEN Null
                     ELSE TagStart(call.tags, FirstTag(call.type))
  /\ call.fn = "memory_get_kb" /\ returned =>
       IF FirstTag(Mmap) # 0
       THEN LET lens == [k \in DOMAIN call.entries |->
                           IF call.entries[k].available THEN call.entries[k].len ELSE 0]
            IN  result * 1024 \in SumOf(lens) - 1023 .. SumOf(lens)
       ELSE result = IF FirstTag(BasicMemory) = 0 THEN 0 ELSE call.mem_upper + 1024
  /\ call.fn = "find_vga" /\ returned =>
       IF result = Null THEN \A k \in DOMAIN call.slots : call.slots[k] # "vga"
       ELSE /\ call.slots[result + 1] = "vga"
            /\ \A k \in 1 .. result : call.slots[k] # "vga"
=============================================================================
