-------------------------- MODULE Descriptor_proofs --------------------------
(***************************************************************************)
(* For all addresses of 64 bits: what is written into an entry is what the *)
(* kernel reads back, and what the processor finds.                        *)
(***************************************************************************)
EXTENDS Descriptor, TLAPS

\* The entry holds what make_table, make_page or make_block was asked for.
EntryInv ==
  /\ asked \in [kind : {"fault", "table", "page", "block"}, addr : Word,
                mem_type : MemoryType, ap : AP]
  /\ entry = CASE asked.kind = "fault" -> {}
               [] asked.kind = "table" -> make_table(asked.addr)
               [] asked.kind = "page" -> make_page(asked.addr, asked.mem_type, asked.ap)
               [] asked.kind = "block" -> make_block(asked.addr, asked.mem_type, asked.ap)
  /\ asked.kind = "fault" => asked.addr = {}

-----------------------------------------------------------------------------
(***************************************************************************)
(* Where the bits of a descriptor come from.                               *)
(***************************************************************************)
\* The memory type reaches bit 2, the permissions 6 and 10, which the access
\* flag sets anyway.
LEMMA AttributesAre ==
  ASSUME NEW t \in MemoryType, NEW p \in AP
  PROVE  /\ Attributes(t, p) \subseteq {2, 6, 10} /\ 10 \in Attributes(t, p)
         /\ 2 \in Attributes(t, p) <=> 0 \in t
<1>1. t \subseteq {0} /\ p \subseteq {0, 4}
  BY DEF MemoryType, Normal, Device, AP, PRW, RW, PRO, RO
<1>2. Shift(t, 2) \subseteq {2} /\ (2 \in Shift(t, 2) <=> 0 \in t)
  BY <1>1 DEF Shift, Bits
<1>3. Shift(p, 6) \subseteq {6, 10}
  BY <1>1 DEF Shift, Bits
<1> QED
  BY <1>2, <1>3 DEF Attributes, AF

\* The address field is the address's, the other bits are those of the kind and
\* the attributes.
LEMMA BitsOfTable ==
  ASSUME NEW a \in Word, NEW b \in Int
  PROVE  b \in make_table(a) <=> (b \in a /\ b \in 12 .. 46) \/ b \in {0, 1}
BY DEF make_table, AddrMask, VALID, TABLE

LEMMA BitsOfPage ==
  ASSUME NEW a \in Word, NEW t \in MemoryType, NEW p \in AP, NEW b \in Int
  PROVE  b \in make_page(a, t, p)
           <=> (b \in a /\ b \in 12 .. 46) \/ b \in {0, 1} \/ b \in Attributes(t, p)
BY DEF make_page, AddrMask, VALID, PAGE

LEMMA BitsOfBlock ==
  ASSUME NEW a \in Word, NEW t \in MemoryType, NEW p \in AP, NEW b \in Int
  PROVE  b \in make_block(a, t, p)
           <=> (b \in a /\ b \in 12 .. 46) \/ b = 0 \/ b \in Attributes(t, p)
BY DEF make_block, AddrMask, VALID, BLOCK

\* All kinds of entries, bit by bit.
LEMMA BitsOfEntry ==
  ASSUME EntryInv
  PROVE  /\ entry \subseteq Bits
         /\ \A b \in 12 .. 63 : b \in entry <=> b \in asked.addr /\ b <= 46
         /\ 0 \in entry <=> asked.kind # "fault"
         /\ 1 \in entry <=> asked.kind \in {"table", "page"}
         /\ 7 \notin entry
         /\ asked.kind \in {"page", "block"} =>
              /\ \A b \in {2, 3, 4} : b \in entry <=> b = 2 /\ 0 \in asked.mem_type
              /\ 10 \in entry
<1>1. /\ asked.addr \in Word /\ asked.mem_type \in MemoryType /\ asked.ap \in AP
      /\ asked.kind \in {"fault", "table", "page", "block"}
  BY DEF EntryInv
<1> DEFINE A == Attributes(asked.mem_type, asked.ap)
<1>2. A \subseteq {2, 6, 10} /\ 10 \in A /\ (2 \in A <=> 0 \in asked.mem_type)
  BY <1>1, AttributesAre
<1>3. CASE asked.kind = "fault"
  <2>1. entry = {} /\ asked.addr = {}
    BY <1>3 DEF EntryInv
  <2> QED
    BY <1>3, <2>1
<1>4. CASE asked.kind = "table"
  <2>1. entry = make_table(asked.addr)
    BY <1>4 DEF EntryInv
  <2>2. \A b \in Int : b \in entry <=> (b \in asked.addr /\ b \in 12 .. 46) \/ b \in {0, 1}
    BY <1>1, <2>1, BitsOfTable
  <2>3. entry \subseteq Bits
    BY <1>1, <2>1 DEF make_table, AddrMask, VALID, TABLE, Bits
  <2> QED
    BY <1>4, <2>2, <2>3
<1>5. CASE asked.kind = "page"
  <2>1. entry = make_page(asked.addr, asked.mem_type, asked.ap)
    BY <1>5 DEF EntryInv
  <2>2. \A b \in Int : b \in entry <=> (b \in asked.addr /\ b \in 12 .. 46) \/ b \in {0, 1} \/ b \in A
    BY <1>1, <2>1, BitsOfPage
  <2>3. entry \subseteq Bits
    BY <1>1, <1>2, <2>1 DEF make_page, AddrMask, VALID, PAGE, Bits
  <2> HIDE DEF A
  <2> QED
    BY <1>2, <1>5, <2>2, <2>3
<1>6. CASE asked.kind = "block"
  <2>1. entry = make_block(asked.addr, asked.mem_type, asked.ap)
    BY <1>6 DEF EntryInv
  <2>2. \A b \in Int : b \in entry <=> (b \in asked.addr /\ b \in 12 .. 46) \/ b = 0 \/ b \in A
    BY <1>1, <2>1, BitsOfBlock
  <2>3. entry \subseteq Bits
    BY <1>1, <1>2, <2>1 DEF make_block, AddrMask, VALID, BLOCK, Bits
  <2> HIDE DEF A
  <2> QED
    BY <1>2, <1>6, <2>2, <2>3
<1> QED
  BY <1>1, <1>3, <1>4, <1>5, <1>6

-----------------------------------------------------------------------------
(***************************************************************************)
(* Every write keeps the invariant.                                        *)
(***************************************************************************)
LEMMA EntryInvInit == Init => EntryInv
<1> SUFFICES ASSUME Init PROVE EntryInv
  OBVIOUS
<1>1. {} \in Word /\ {} \in MemoryType /\ {} \in AP
  BY DEF Word, MemoryType, Normal, AP, PRW
<1> QED
  BY <1>1 DEF Init, EntryInv

LEMMA EntryInvNext == EntryInv /\ [Next]_vars => EntryInv'
<1> SUFFICES ASSUME EntryInv, [Next]_vars PROVE EntryInv'
  OBVIOUS
<1>0. {} \in MemoryType /\ {} \in AP
  BY DEF MemoryType, Normal, AP, PRW
<1>1. ASSUME NEW a \in Addresses, SetTable(a)
      PROVE  EntryInv'
  BY <1>0, <1>1, AddressAssumption DEF SetTable, EntryInv
<1>2. ASSUME NEW a \in Addresses, NEW t \in MemoryType, NEW p \in AP, SetPage(a, t, p)
      PROVE  EntryInv'
  BY <1>2, AddressAssumption DEF SetPage, EntryInv
<1>3. ASSUME NEW a \in Addresses, NEW t \in MemoryType, NEW p \in AP, SetBlock(a, t, p)
      PROVE  EntryInv'
  BY <1>3, AddressAssumption DEF SetBlock, EntryInv
<1>4. CASE UNCHANGED vars
  BY <1>4 DEF vars, EntryInv
<1> QED
  BY <1>1, <1>2, <1>3, <1>4 DEF Next

LEMMA EntryInvHolds == Spec => []EntryInv
BY EntryInvInit, EntryInvNext, PTL DEF Spec

-----------------------------------------------------------------------------
\* For every address of 64 bits, memory type and permission, the kernel reads
\* back from an entry the kind and the address field it wrote
\* (page.cpp:37-64).
THEOREM DescriptorsReadBack == Spec => []ReadsBack
<1>1. ASSUME EntryInv PROVE ReadsBack
  <2>1. TypeOK
    BY <1>1, BitsOfEntry DEF TypeOK, Word, EntryInv
  <2>2. get_addr(entry) = asked.addr \cap AddrMask
    BY <1>1, BitsOfEntry DEF get_addr, AddrMask
  <2>3. /\ is_valid(entry) = (asked.kind # "fault")
        /\ is_fault(entry) = (asked.kind = "fault")
        /\ is_table(entry) = (asked.kind \in {"table", "page"})
        /\ is_block(entry) = (asked.kind = "block")
    <3>1. /\ asked.kind \in {"fault", "table", "page", "block"}
          /\ 0 \in entry <=> asked.kind # "fault"
          /\ 1 \in entry <=> asked.kind \in {"table", "page"}
      BY <1>1, BitsOfEntry DEF EntryInv
    <3> QED
      BY <3>1 DEF is_valid, is_fault, is_table, is_block, VALID
  <2> QED
    BY <2>1, <2>2, <2>3 DEF ReadsBack
<1> QED
  BY <1>1, EntryInvHolds, PTL

\* And the processor finds the address, the memory type and the access flag in
\* the fields it reads, and none of the bits above the address field
\* (page.cpp:42-58).
THEOREM ProcessorReadsTheSame == Spec => []HardwareAgrees
<1>1. ASSUME EntryInv, asked.kind \in {"page", "block"}
      PROVE  /\ HwAddr(entry) = asked.addr \cap AddrMask
             /\ HwType(entry) = asked.mem_type
             /\ HwAccess(entry)
             /\ HwUpper(entry) = {}
  <2>1. HwAddr(entry) = asked.addr \cap AddrMask
    BY <1>1, BitsOfEntry DEF HwAddr, AddrMask
  <2>2. HwType(entry) = asked.mem_type
    <3>1. asked.mem_type \subseteq {0}
      BY <1>1 DEF EntryInv, MemoryType, Normal, Device
    <3>2. /\ \A b \in {2, 3, 4} : b \in entry <=> b = 2 /\ 0 \in asked.mem_type
      BY <1>1, BitsOfEntry
    <3>3. \A b \in 0 .. 2 : b + 2 \in entry <=> b = 0 /\ 0 \in asked.mem_type
      BY <3>2
    <3> QED
      BY <3>1, <3>3 DEF HwType, Field
  <2>3. HwAccess(entry)
    BY <1>1, BitsOfEntry DEF HwAccess
  <2>4. HwUpper(entry) = {}
    <3>1. \A b \in 0 .. 15 : b + 48 \notin entry
      BY <1>1, BitsOfEntry
    <3> QED
      BY <3>1 DEF HwUpper, Field
  <2> QED
    BY <2>1, <2>2, <2>3, <2>4
<1>2. EntryInv => HardwareAgrees
  BY <1>1 DEF HardwareAgrees
<1> QED
  BY <1>2, EntryInvHolds, PTL

\* No entry is ever read-only: PRO and RO, written with hexadecimal digits, set
\* bits 6 and 10 (page.hpp:56-61, page.cpp:42-58).
THEOREM NothingIsReadOnly == Spec => []~HwReadOnly(entry)
<1>1. EntryInv => ~HwReadOnly(entry)
  BY BitsOfEntry DEF HwReadOnly
<1> QED
  BY <1>1, EntryInvHolds, PTL
=============================================================================
