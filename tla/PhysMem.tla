------------------------------ MODULE PhysMem ------------------------------
(***************************************************************************)
(* The physical page allocator: MemRegion, Region<Bootstrap> and           *)
(* PageAlloc (kernel/mem/region.cpp, include/kernel/mem/region.hpp,        *)
(* include/kernel/mem/allocator.hpp, kernel/mem/allocator.cpp).            *)
(*                                                                         *)
(* Every region of RAM keeps a bitmap, stored inside the region itself,    *)
(* with one bit per page.  A bitmap is modelled by the set of indices of   *)
(* its set bits.  Addresses are numbers of bytes.  The bits of the byte    *)
(* that follows the bitmap belong to the model: a region whose page count  *)
(* is not a multiple of BitsPerByte has pages whose bit is stored there.   *)
(* Bitmaps are memory like any other: callers write to the pages they hold,*)
(* and what they write to a byte of a bitmap is its bits from then on.     *)
(***************************************************************************)
EXTENDS Integers, FiniteSets

CONSTANTS
  PageSize,      \* page_size (4096)
  BitsPerByte,   \* 8
  NRegions,      \* regions.num
  Span,          \* the regions, as the device tree gives them
  Reserved,      \* the reserved spans passed to PageAllocator::init
  KernelBase,    \* kernel_base, the offset of the higher half
  HighMapped,    \* pages p of physical memory mapped at KernelBase + p
  RamBits,       \* what the memory of a bitmap may hold after memset
  StaleSize,     \* what an uninitialised bitmap_size may hold
  Owner,         \* the callers of the allocator
  Addr           \* the addresses callers name

Regions == 1 .. NRegions

PhySpan == [base : Nat, size : Nat]

End(s) == s.base + s.size

\* PhySpan::is_part_of
PartOf(s, parent) == s.base >= parent.base /\ End(s) <= End(parent)

\* PhySpan::overlap
Overlap(s, t) ==
  \/ s.base = t.base
  \/ s.base < t.base /\ End(s) > t.base
  \/ s.base > t.base /\ End(t) > s.base

AlignDown(a) == (a \div PageSize) * PageSize

\* Seeded fault for the HeldAvoidsReserved mutant: rounds the end down.
AlignUp_truncating(a) == (a \div PageSize) * PageSize
AlignUp(a) == ((a + PageSize - 1) \div PageSize) * PageSize

PageSpan(p) == [base |-> p, size |-> PageSize]

\* Whole pages of a region, and bytes of its bitmap.
Pages(r)       == Span[r].size \div PageSize
BitmapBytes(r) == Span[r].size \div (PageSize * BitsPerByte)

\* Indices of the bits in a bitmap of n bytes.
BitsIn(n) == 0 .. n * BitsPerByte - 1

\* Bits the code can name: those of the bitmap and of the byte after it.
Bits(r) == BitsIn(BitmapBytes(r) + 1)

PageAddr(r, i) == Span[r].base + i * PageSize

\* Seeded fault: forgets that the bitmap starts at the region's base.
BitOf_unbased(r, a) == a \div PageSize
BitOf(r, a) == (a - Span[r].base) \div PageSize

\* reserve_pages: the bits of the pages a span touches, none if the span is
\* not part of the region.
PageBits(r, s) ==
  IF PartOf(s, Span[r])
  THEN {i \in Bits(r) : /\ AlignDown(s.base) <= PageAddr(r, i)
                        /\ PageAddr(r, i) < AlignUp(End(s))}
  ELSE {}

ReservedBits(r) == UNION {PageBits(r, s) : s \in Reserved}

\* The places for the bitmap that Region<Bootstrap>::init tries in order.
BitmapSpan(r, a) == [base |-> a, size |-> BitmapBytes(r)]

BitmapPlaces ==
  [r \in Regions |->
     {a \in {PageAddr(r, i) : i \in 0 .. Pages(r)} :
        /\ PartOf(BitmapSpan(r, a), Span[r])
        /\ \A s \in Reserved : ~Overlap(BitmapSpan(r, a), s)}]

HasBitmap(r) == BitmapPlaces[r] # {}

BitmapPlace ==
  [r \in Regions |->
     CHOOSE a \in BitmapPlaces[r] : \A b \in BitmapPlaces[r] : a <= b]

\* Seeded fault: init_bitmap does not reserve the bitmap's own pages.
FixedBits_withoutBitmap == [r \in Regions |-> ReservedBits(r)]

\* Seeded fault: it does not reserve the page that the bitmap fills in part.
FixedBits_wholePages ==
  [r \in Regions |->
     PageBits(r, [base |-> BitmapPlace[r], size |-> AlignDown(BitmapBytes(r))])
     \cup ReservedBits(r)]

\* The bits set once and for all by Region<Bootstrap>::init.
FixedBits ==
  [r \in Regions |->
     PageBits(r, BitmapSpan(r, BitmapPlace[r])) \cup ReservedBits(r)]

Page == UNION {{PageAddr(r, i) : i \in 0 .. Pages(r) - 1} : r \in Regions}

-----------------------------------------------------------------------------
(***************************************************************************)
(* SpanAssumption: the memory node of the device tree lists page-aligned,  *)
(* disjoint banks.                                                         *)
(* TailAssumption: where a region has pages whose bit lies past the end of *)
(* the bitmap, the bitmap does not fill its last page.  The code does not  *)
(* see to it: with a bank that breaks it, the first page behind the bitmap *)
(* holds the bits of others and is handed out, and a write to it lets a    *)
(* page be given twice.                                                    *)
(* HighAssumption: a region without a bitmap has a null pointer, and the   *)
(* memory that pointer reaches once relocated, at the bottom of physical   *)
(* memory, is not mapped in the higher half.                               *)
(***************************************************************************)
ASSUME SizeAssumption ==
  /\ PageSize \in Nat \ {0}
  /\ BitsPerByte \in Nat \ {0}
  /\ NRegions \in Nat
  /\ KernelBase \in Nat \ {0}

ASSUME SpanAssumption ==
  /\ Span \in [Regions -> PhySpan]
  /\ \A r \in Regions : Span[r].base % PageSize = 0
  /\ \A q, r \in Regions :
       q # r => End(Span[q]) <= Span[r].base \/ End(Span[r]) <= Span[q].base

ASSUME ReservedAssumption == Reserved \subseteq PhySpan

ASSUME TailAssumption ==
  \A r \in Regions :
    Span[r].size % (PageSize * BitsPerByte) # 0 => BitmapBytes(r) % PageSize # 0

ASSUME HighAssumption ==
  \A r \in Regions :
    ~HasBitmap(r) => \A n \in 0 .. BitmapBytes(r) : AlignDown(n) \notin HighMapped

ASSUME InputAssumption ==
  /\ RamBits \subseteq SUBSET Nat
  /\ StaleSize \subseteq Nat
  /\ Addr \subseteq Nat

-----------------------------------------------------------------------------
VARIABLES
  phase,       \* "Bootstrap" (physical addresses) or "Permanent" (virtual)
  inited,      \* number of regions initialised
  bitmap,      \* MemRegion::bitmap, a pointer; 0 is nullptr
  bitmapSize,  \* MemRegion::bitmap_size
  used,        \* the bits that are 1
  held,        \* the pages each caller was given and has not returned
  fault        \* a bitmap was read through an unmapped address

vars == <<phase, inited, bitmap, bitmapSize, used, held, fault>>

\* The regions keep their shape, and whatever callers are given is a page of a
\* region (region.hpp:21-25, region.cpp:24-37).
TypeOK ==
  /\ phase \in {"Bootstrap", "Permanent"}
  /\ inited \in 0 .. NRegions
  /\ bitmap \in [Regions -> Nat]
  /\ bitmapSize \in [Regions -> Nat]
  /\ used \in [Regions -> SUBSET Nat]
  /\ held \in [Owner -> SUBSET Page]
  /\ fault \in BOOLEAN

Ready == inited = NRegions /\ ~fault

Init ==
  /\ phase = "Bootstrap"
  /\ inited = 0
  /\ bitmap = [r \in Regions |-> 0]
  /\ bitmapSize = [r \in Regions |-> 0]
  /\ used = [r \in Regions |-> {}]
  /\ held = [c \in Owner |-> {}]
  /\ fault = FALSE

(***************************************************************************)
(* Region<Bootstrap>::init of the next region.  The bitmap goes to the     *)
(* first page of the region where it meets no reserved span.  memset does  *)
(* not clear it (arch/string.S:67-75), so the bitmap starts with whatever  *)
(* RAM held; then its own pages and the reserved spans are marked.         *)
(* Without a place the region keeps a null bitmap and an uninitialised     *)
(* size.                                                                   *)
(***************************************************************************)
InitRegion ==
  /\ inited < NRegions
  /\ inited' = inited + 1
  /\ LET r == inited + 1 IN
     \/ /\ HasBitmap(r)
        /\ bitmap' = [bitmap EXCEPT ![r] = BitmapPlace[r]]
        /\ bitmapSize' = [bitmapSize EXCEPT ![r] = BitmapBytes(r)]
        /\ \E ram \in RamBits :
             used' = [used EXCEPT ![r] = (ram \cap Bits(r)) \cup FixedBits[r]]
     \/ /\ ~HasBitmap(r)
        /\ bitmap' = [bitmap EXCEPT ![r] = 0]
        /\ \E n \in StaleSize : bitmapSize' = [bitmapSize EXCEPT ![r] = n]
        /\ UNCHANGED used
  /\ UNCHANGED <<phase, held, fault>>

\* Byte n of the bitmap can be accessed: always with the MMU off, and through
\* the relocated pointer only where the higher half is mapped.
Reachable(r, n) ==
  phase = "Permanent" => AlignDown(bitmap[r] + n - KernelBase) \in HighMapped

\* Seeded fault: scans one byte too many.
FreeBits_oneMore(r) ==
  IF bitmap[r] = 0 THEN {} ELSE BitsIn(bitmapSize[r] + 1) \ used[r]
FreeBits(r) == IF bitmap[r] = 0 THEN {} ELSE BitsIn(bitmapSize[r]) \ used[r]

FirstFree(r) == CHOOSE i \in FreeBits(r) : \A j \in FreeBits(r) : i <= j

\* The bytes MemRegion::alloc_page() reads before it returns.
Scanned(r) ==
  IF bitmap[r] = 0 THEN {}
  ELSE IF FreeBits(r) = {} THEN 0 .. bitmapSize[r] - 1
  ELSE 0 .. FirstFree(r) \div BitsPerByte

ScanFaults(r) == \E n \in Scanned(r) : ~Reachable(r, n)

Give(c, r, i) ==
  /\ used' = [used EXCEPT ![r] = @ \cup {i}]
  /\ held' = [held EXCEPT ![c] = @ \cup {PageAddr(r, i)}]
  /\ UNCHANGED <<phase, inited, bitmap, bitmapSize, fault>>

Fault ==
  /\ fault' = TRUE
  /\ UNCHANGED <<phase, inited, bitmap, bitmapSize, used, held>>

(***************************************************************************)
(* PageAlloc::alloc_page(): the first region that has a clear bit gives    *)
(* the page of its first clear bit.  (When none has, nothing changes.)     *)
(***************************************************************************)
AllocPage(c) ==
  /\ Ready
  /\ \E r \in Regions :
       /\ \A q \in 1 .. r - 1 : FreeBits(q) = {} /\ ~ScanFaults(q)
       /\ \/ ScanFaults(r) /\ Fault
          \/ ~ScanFaults(r) /\ FreeBits(r) # {} /\ Give(c, r, FirstFree(r))

\* The region whose bit the calls that name an address look at.
Names(r, a) == bitmap[r] # 0 /\ PartOf(PageSpan(a), Span[r])

BitFaults(r, i) == ~Reachable(r, i \div BitsPerByte)

(***************************************************************************)
(* PageAlloc::alloc_page(addr): the page of addr, if its bit is clear.     *)
(***************************************************************************)
AllocPageAt(c, addr) ==
  /\ Ready
  /\ \E r \in Regions :
       LET a == AlignDown(addr)
           i == BitOf(r, a)
       IN /\ Names(r, a)
          /\ \/ BitFaults(r, i) /\ Fault
             \/ ~BitFaults(r, i) /\ i \notin used[r] /\ Give(c, r, i)

(***************************************************************************)
(* PageAlloc::reserve_page_at(addr), the first half of an identity map:    *)
(* marks the page of addr if some region has it and its bit is clear.      *)
(***************************************************************************)
ReservePageAt(addr) ==
  /\ Ready
  /\ \E r \in Regions :
       LET a == AlignDown(addr)
           i == BitOf(r, a)
       IN /\ Names(r, a)
          /\ \/ BitFaults(r, i) /\ Fault
             \/ /\ ~BitFaults(r, i) /\ i \notin used[r]
                /\ used' = [used EXCEPT ![r] = @ \cup {i}]
                /\ UNCHANGED <<phase, inited, bitmap, bitmapSize, held, fault>>

\* MemRegion::include
Include(r, p) == p >= Span[r].base /\ p < End(Span[r])

(***************************************************************************)
(* PageAlloc::free_page(page) by an owner of the page: every region that   *)
(* includes it clears its bit, without looking whether it was set.         *)
(***************************************************************************)
FreePage(c, p) ==
  /\ Ready
  /\ p \in held[c]
  /\ \/ /\ \E r \in Regions :
             Include(r, p) /\ bitmap[r] # 0 /\ BitFaults(r, BitOf(r, p))
        /\ Fault
     \/ /\ \A r \in Regions :
             Include(r, p) /\ bitmap[r] # 0 => ~BitFaults(r, BitOf(r, p))
        /\ used' = [r \in Regions |->
                      IF Include(r, p) /\ bitmap[r] # 0
                      THEN used[r] \ {BitOf(r, p)} ELSE used[r]]
        /\ held' = [held EXCEPT ![c] = @ \ {p}]
        /\ UNCHANGED <<phase, inited, bitmap, bitmapSize, fault>>

(***************************************************************************)
(* PageAllocator<Bootstrap>::relocate: every bitmap pointer, null or not,  *)
(* moves to the higher half.  The bitmaps themselves stay where they are.  *)
(***************************************************************************)
Relocate ==
  /\ Ready
  /\ phase = "Bootstrap"
  /\ phase' = "Permanent"
  /\ bitmap' = [r \in Regions |-> bitmap[r] + KernelBase]
  /\ UNCHANGED <<inited, bitmapSize, used, held, fault>>

\* The bits of pages of region r that are stored in page p, past the end of the
\* bitmap for the pages of an incomplete byte.
StoredIn(r, p) ==
  {i \in 0 .. Pages(r) - 1 :
     /\ HasBitmap(r)
     /\ p <= BitmapPlace[r] + i \div BitsPerByte
     /\ BitmapPlace[r] + i \div BitsPerByte < p + PageSize}

(***************************************************************************)
(* A caller writes to a page it holds, as map does to its tables: the bits *)
(* stored there are what it wrote.                                         *)
(***************************************************************************)
WritePage(c, p) ==
  /\ ~fault
  /\ p \in held[c]
  /\ \E ram \in RamBits :
       used' = [r \in Regions |-> (used[r] \ StoredIn(r, p)) \cup (ram \cap StoredIn(r, p))]
  /\ UNCHANGED <<phase, inited, bitmap, bitmapSize, held, fault>>

\* After a translation fault the machine does nothing more: no vector table
\* has been installed.
Halted == fault /\ UNCHANGED vars

Next ==
  \/ InitRegion
  \/ \E c \in Owner : AllocPage(c)
  \/ \E c \in Owner, a \in Addr : AllocPageAt(c, a)
  \/ \E a \in Addr : ReservePageAt(a)
  \/ \E c \in Owner, p \in Page : FreePage(c, p)
  \/ Relocate
  \/ \E c \in Owner, p \in Page : WritePage(c, p)
  \/ Halted

Spec == Init /\ [][Next]_vars

-----------------------------------------------------------------------------
\* Two callers never hold the same page at the same time, whatever sequence
\* of calls, frees and relocation led there (alloc_page, region.cpp:24-49).
OnePageOneOwner ==
  \A c, d \in Owner : c # d => held[c] \cap held[d] = {}

\* No caller is ever given a page that overlaps the bitmap of a region: a
\* write to such a page would change which pages count as free
\* (init_bitmap, region.cpp:60-65).
HeldAvoidsBitmaps ==
  \A c \in Owner, r \in Regions : \A p \in held[c] :
    r <= inited /\ HasBitmap(r) /\ BitmapBytes(r) > 0
      => ~Overlap(PageSpan(p), BitmapSpan(r, BitmapPlace[r]))

\* No caller is ever given a page that overlaps a reserved span lying in one
\* region, at whatever byte the span starts or ends (reserve_pages,
\* region.cpp:84-92).
HeldAvoidsReserved ==
  \A c \in Owner, s \in Reserved : \A p \in held[c] :
    s.size > 0 /\ (\E r \in Regions : PartOf(s, Span[r]))
      => ~Overlap(PageSpan(p), s)

\* No page that a caller holds, and writes to, stores the bit of any page, its
\* own or another's, in the bitmap or in the byte behind it that the calls which
\* name an address go to (region.cpp:40-58, region.hpp:96): what callers write
\* is never taken for bits.
HeldAvoidsBits ==
  \A c \in Owner, r \in Regions : \A p \in held[c] : StoredIn(r, p) = {}

-----------------------------------------------------------------------------
(***************************************************************************)
(* The inductive invariant.  It adds to the properties what they rest on:  *)
(* where each bitmap is and how long it is believed to be, that the bits   *)
(* set by init are never cleared, and that every held page is a whole page *)
(* of a region with a bitmap, whose own bit is set and is not one of       *)
(* those.                                                                  *)
(***************************************************************************)
Pointers ==
  /\ phase = "Permanent" => inited = NRegions
  /\ \A r \in 1 .. inited :
       bitmap[r] = (IF HasBitmap(r) THEN BitmapPlace[r] ELSE 0)
                     + (IF phase = "Permanent" THEN KernelBase ELSE 0)
  /\ \A r \in 1 .. inited : HasBitmap(r) => bitmapSize[r] = BitmapBytes(r)

FixedStaySet ==
  \A r \in 1 .. inited : HasBitmap(r) => FixedBits[r] \subseteq used[r]

HeldBit(p, r, i) ==
  /\ HasBitmap(r)
  /\ bitmap[r] # 0
  /\ i \in 0 .. Pages(r) - 1
  /\ p = PageAddr(r, i)
  /\ i \in used[r]
  /\ i \notin FixedBits[r]

HeldAreMarked ==
  /\ inited < NRegions => \A c \in Owner : held[c] = {}
  /\ \A c \in Owner : \A p \in held[c] :
       \E r \in Regions : \E i \in Bits(r) : HeldBit(p, r, i)

IInv ==
  /\ TypeOK
  /\ Pointers
  /\ FixedStaySet
  /\ HeldAreMarked
  /\ OnePageOneOwner

-----------------------------------------------------------------------------
\* Pages somebody could be given: a region's bitmap is in place and the page's
\* bit is clear.
FreePages ==
  UNION {{PageAddr(r, i) : i \in (0 .. Pages(r) - 1) \ used[r]} :
           r \in {q \in 1 .. inited : HasBitmap(q)}}

Abstract == INSTANCE PageOwner WITH
  free <- FreePages, owned <- held, ready <- inited = NRegions

\* The bitmaps implement a PageOwner allocator: a page becomes free only
\* because its owner frees it, and a page out of use stays out of use
\* (include/kernel/mem/allocator.hpp:73-103).
ImplementsPageOwner == Abstract!Spec
=============================================================================
