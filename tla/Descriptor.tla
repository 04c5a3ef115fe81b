----------------------------- MODULE Descriptor -----------------------------
(***************************************************************************)
(* PageDescriptor and PageInfo, bit by bit (include/kernel/mem/page.hpp    *)
(* 16-68, kernel/mem/page.cpp 34-64), against the fields the processor     *)
(* reads from a stage-1 descriptor: bits 4:2 memory type, 7:6 access       *)
(* permissions, 10 access flag, 47:12 address.                             *)
(*                                                                         *)
(* A word of 64 bits is the set of those that are 1: & is intersection, |  *)
(* is union.                                                               *)
(***************************************************************************)
EXTENDS Integers

CONSTANT Addresses     \* what descriptors are made of

Bits == 0 .. 63
Word == SUBSET Bits

ASSUME AddressAssumption == Addresses \subseteq Word

\* w << n
Shift(w, n) == {b \in Bits : b - n \in w}

\* 0x7ffffffff000
AddrMask == 12 .. 46

VALID == {0}
TABLE == {1}
PAGE  == {1}
BLOCK == {}
AF    == {10}

Normal == {}
Device == {0}
MemoryType == {Normal, Device}

\* PageInfo::AP, written with the hexadecimal numbers 0x00, 0x01, 0x10 and 0x11.
PRW == {}
RW  == {0}
PRO == {4}
RO  == {0, 4}
AP  == {PRW, RW, PRO, RO}

get_addr(d) == d \cap AddrMask
is_valid(d) == d \cap VALID # {}
is_fault(d) == d \cap {0, 1} = {}
is_table(d) == d \cap {0, 1} = {0, 1}
is_block(d) == d \cap {0, 1} = {0}

make_table(addr) == (addr \cap AddrMask) \cup VALID \cup TABLE

\* Seeded fault: the memory type goes to bits 3 and up.
Attributes_shifted(mem_type, ap) == AF \cup Shift(mem_type, 3) \cup Shift(ap, 6)
\* AF | (mem_type << 2) | (ap << 6)
Attributes(mem_type, ap) == AF \cup Shift(mem_type, 2) \cup Shift(ap, 6)

make_page(addr, mem_type, ap) ==
  (addr \cap AddrMask) \cup VALID \cup PAGE \cup Attributes(mem_type, ap)

\* Seeded fault: the address keeps its high bits and its offset.
make_block_unmasked(addr, mem_type, ap) ==
  addr \cup VALID \cup BLOCK \cup Attributes(mem_type, ap)
make_block(addr, mem_type, ap) ==
  (addr \cap AddrMask) \cup VALID \cup BLOCK \cup Attributes(mem_type, ap)

-----------------------------------------------------------------------------
\* The fields as the processor takes them (external).
Field(d, high, low) == {b \in 0 .. high - low : b + low \in d}

HwAddr(d)     == d \cap 12 .. 47
HwType(d)     == Field(d, 4, 2)
HwAccess(d)   == 10 \in d
HwAnyLevel(d) == 6 \in d     \* AP[1]: EL0 may access
HwReadOnly(d) == 7 \in d     \* AP[2]
HwUpper(d)    == Field(d, 63, 48)

VARIABLES
  entry,  \* the descriptor in one slot of a table
  asked   \* what it was last set to

vars == <<entry, asked>>

Init ==
  /\ entry = {}
  /\ asked = [kind |-> "fault", addr |-> {}, mem_type |-> {}, ap |-> {}]

SetTable(a) ==
  /\ ~is_valid(entry)
  /\ entry' = make_table(a)
  /\ asked' = [kind |-> "table", addr |-> a, mem_type |-> {}, ap |-> {}]

SetBlock(a, t, p) ==
  /\ ~is_valid(entry)
  /\ entry' = make_block(a, t, p)
  /\ asked' = [kind |-> "block", addr |-> a, mem_type |-> t, ap |-> p]

\* map_l3 does not look at what is in the slot.
SetPage(a, t, p) ==
  /\ entry' = make_page(a, t, p)
  /\ asked' = [kind |-> "page", addr |-> a, mem_type |-> t, ap |-> p]

Next ==
  \E a \in Addresses :
    \/ SetTable(a)
    \/ \E t \in MemoryType, p \in AP : SetPage(a, t, p) \/ SetBlock(a, t, p)

Spec == Init /\ [][Next]_vars

-----------------------------------------------------------------------------
\* A descriptor stays within its word, whatever address and permissions go
\* into it (page.cpp:37-58).
TypeOK ==
  /\ entry \in Word
  /\ asked \in [kind : {"fault", "table", "page", "block"}, addr : Word,
                mem_type : MemoryType, ap : AP]

\* What the kernel reads back from an entry is what it put there, reduced to
\* the address field, and exactly one of is_fault, is_table, is_block says so
\* (page.cpp:60-64).  map_l0 .. map_l2 rest on it when they follow an entry.
ReadsBack ==
  /\ TypeOK
  /\ get_addr(entry) = asked.addr \cap AddrMask
  /\ is_valid(entry) = (asked.kind # "fault")
  /\ is_fault(entry) = (asked.kind = "fault")
  /\ is_table(entry) = (asked.kind \in {"table", "page"})
  /\ is_block(entry) = (asked.kind = "block")

\* The processor finds the page, the memory type and the access flag that were
\* asked for, and nothing in the bits above the address, whatever permission
\* constant was ored in beside them (page.cpp:42-58).
HardwareAgrees ==
  asked.kind \in {"page", "block"} =>
    /\ HwAddr(entry) = asked.addr \cap AddrMask
    /\ HwType(entry) = asked.mem_type
    /\ HwAccess(entry)
    /\ HwUpper(entry) = {}

\* The permissions are those of the comments on PageInfo::AP: "Read only for
\* EL1-3, no access for EL0" for PRO, "Read only for all" for RO
\* (page.hpp:56-61).
PermissionsAsDocumented ==
  asked.kind \in {"page", "block"} =>
    /\ HwReadOnly(entry) = (asked.ap \in {PRO, RO})
    /\ HwAnyLevel(entry) = (asked.ap \in {RW, RO})
=============================================================================
