----------------------------- MODULE Boot_proofs -----------------------------
(***************************************************************************)
(* Proofs about Boot, from the lemmas about PhysMem and PageTables, for    *)
(* every layout of memory, every size of tables and every device tree.     *)
(***************************************************************************)
EXTENDS Boot, SequenceTheorems, TLAPS

PP == INSTANCE PhysMem_proofs WITH
  Reserved <- ReservedSpans, HighMapped <- {}, StaleSize <- {0},
  Owner <- {"tables"}, Addr <- {}

TP == INSTANCE PageTables_proofs WITH
  free <- FreeFrames, Ram <- {FrameOf(p) : p \in Phys!Page},
  StaleRow <- [i \in 0 .. R - 1 |-> [kind |-> "fault", addr |-> 0, attr |-> "none"]],
  Attr <- {"NormalPRO", "NormalPRW", "DevicePRW"}, Requests <- {}, MaxMaps <- 6 + NRegions

-----------------------------------------------------------------------------
\* Arithmetic.

LEMMA MulType ==
  ASSUME NEW a \in Nat, NEW b \in Nat
  PROVE  a * b \in Nat
OBVIOUS

\* The quotient and its remainder.
LEMMA DivLaw ==
  ASSUME NEW a \in Nat, NEW P \in Nat \ {0}
  PROVE  /\ a \div P \in Nat
         /\ a % P \in 0 .. P - 1
         /\ a = (a \div P) * P + (a % P)
  OBVIOUS

LEMMA DivUnique ==
  ASSUME NEW a \in Nat, NEW P \in Nat \ {0}, NEW q \in Int,
         q * P <= a, a < q * P + P
  PROVE  a \div P = q
  OBVIOUS

\* Multiples of P are at least P apart.
LEMMA MulMono ==
  ASSUME NEW a \in Int, NEW b \in Int, NEW P \in Nat \ {0}, a < b
  PROVE  a * P + P <= b * P
  OBVIOUS

\* A number without remainder is a multiple.
LEMMA ModDiv ==
  ASSUME NEW a \in Nat, NEW P \in Nat \ {0}, a % P = 0
  PROVE  a \div P \in Nat /\ a = (a \div P) * P
  OBVIOUS

\* Rounding down.
LEMMA DivDown ==
  ASSUME NEW a \in Nat, NEW P \in Nat \ {0}
  PROVE  /\ a \div P \in Nat /\ (a \div P) * P \in Nat
         /\ (a \div P) * P <= a /\ a < (a \div P) * P + P
  OBVIOUS

\* Dividing a multiple.
LEMMA DivMul ==
  ASSUME NEW a \in Nat, NEW P \in Nat \ {0}
  PROVE  (a * P) \div P = a /\ (a * P) % P = 0
<1>1. a * P \in Nat
  BY MulType
<1>2. (a * P) \div P = a
  BY <1>1, DivUnique
<1> QED
  BY <1>1, <1>2, DivLaw

\* What a product divides, its first factor divides.
LEMMA ModOfProduct ==
  ASSUME NEW n \in Nat, NEW a \in Nat \ {0}, NEW b \in Nat \ {0}, n % (a * b) = 0
  PROVE  n % a = 0
<1> DEFINE P == a * b
           q == n \div P
<1>1. P \in Nat \ {0}
  OBVIOUS
<1>2. n % P = 0
  OBVIOUS
<1> HIDE DEF P
<1>3. q \in Nat /\ n = q * P
  BY <1>1, <1>2, DivLaw
<1> HIDE DEF q
<1>4. q * P = (q * b) * a /\ q * b \in Nat
  BY <1>3 DEF P
<1> QED
  BY <1>3, <1>4, DivMul

-----------------------------------------------------------------------------
\* The assumptions of PhysMem and PageTables hold of their instances.

LEMMA Sizes ==
  /\ R \in Nat \ {0} /\ PageSize \in Nat \ {0} /\ BitsPerByte \in Nat \ {0}
  /\ Tables!Half \in Nat \ {0} /\ Tables!Space = 2 * Tables!Half
  /\ Tables!Cover[0] = R * R * R /\ Tables!Cover[0] \in Nat \ {0}
  /\ Tables!Cover[0] <= Tables!Half /\ Tables!Top = 2 * Tables!Space
  /\ KernelBase = Tables!Space * PageSize
  /\ PhyBase = (Tables!Space + Tables!Half) * PageSize
  /\ KernelBase \in Nat \ {0}
<1> DEFINE h == R \div 2
           C == R * R * R
<1>1. R \in Nat \ {0} /\ PageSize \in Nat \ {0} /\ BitsPerByte \in Nat \ {0}
  BY SizeAssumption
<1>2. h \in Nat \ {0} /\ R = 2 * h
  BY SizeAssumption
<1>3. C \in Nat \ {0} /\ Tables!Cover[0] = C
  <2>1. C \in Nat \ {0}
    BY <1>1
  <2> QED  BY <2>1 DEF Tables!Cover, Tables!Levels
<1>4. Tables!Space = C * R
  BY <1>1 DEF Tables!Space
<1> HIDE DEF C, h
<1>5. C * R = (C * h) * 2 /\ C * h \in Nat \ {0} /\ C <= C * h
  BY <1>2, <1>3
<1> DEFINE H == C * h
<1> HIDE DEF H
<1>6. H \in Nat \ {0} /\ Tables!Half = H /\ Tables!Space = 2 * H /\ C <= H
  BY <1>4, <1>5 DEF Tables!Half, H
<1>7. KernelBase = Tables!Space * PageSize
  BY DEF KernelBase, Tables!Space
<1>8. KernelBase = (H * PageSize) * 2 /\ H * PageSize \in Nat \ {0}
  BY <1>1, <1>6, <1>7
<1>9. KernelBase \div 2 = H * PageSize
  BY <1>8
<1>10. PhyBase = (Tables!Space + H) * PageSize
  <2>1. PhyBase = Tables!Space * PageSize + H * PageSize
    BY <1>7, <1>9 DEF PhyBase
  <2> QED  BY <1>1, <1>6, <2>1
<1> QED
  BY <1>1, <1>3, <1>6, <1>7, <1>8, <1>10 DEF Tables!Top, C

\* Shifting a span by the base of the higher half.
LEMMA HighSpan ==
  ASSUME NEW s, s \in [base : Nat, size : Nat], NEW off \in Nat
  PROVE  Shift(s, off) \in [base : Nat, size : Nat]
  BY DEF Shift

LEMMA SpansAre ==
  /\ Text \in [base : Nat, size : Nat \ {0}] /\ Data \in [base : Nat, size : Nat \ {0}]
  /\ Fdt \in [base : Nat, size : Nat \ {0}]
  /\ \A r \in 1 .. NRegions : Span[r] \in [base : Nat, size : Nat \ {0}]
  BY ImageAssumption, BankAssumption DEF InHalf

LEMMA PhysAssumptions ==
  /\ PP!SizeAssumption /\ PP!SpanAssumption /\ PP!ReservedAssumption
  /\ PP!TailAssumption /\ PP!HighAssumption /\ PP!InputAssumption
<1>1. PP!SizeAssumption
  BY Sizes, BankAssumption
<1>2. PP!SpanAssumption
  BY SpansAre, BankAssumption DEF PP!Regions, PP!PhySpan, PP!End
<1>3. PP!ReservedAssumption
  BY SpansAre, Sizes DEF ReservedSpans, PP!PhySpan, Shift
<1>4. PP!TailAssumption
  BY BankAssumption DEF PP!Regions
<1>5. PP!HighAssumption
  BY DEF PP!HighAssumption
<1>6. PP!InputAssumption
  BY SizeAssumption
<1> QED
  BY <1>1, <1>2, <1>3, <1>4, <1>5, <1>6
\* The pages of the banks lie below the last chunk of the direct map.
LEMMA PageFrames ==
  ASSUME NEW p \in Phys!Page
  PROVE  /\ p \in Nat /\ FrameOf(p) \in Nat /\ p = FrameOf(p) * PageSize
         /\ FrameOf(p) < Tables!Half - Tables!Cover[0]
<1>1. PICK r \in 1 .. NRegions : \E i \in 0 .. Phys!Pages(r) - 1 : p = Phys!PageAddr(r, i)
  BY DEF Phys!Page, Phys!Regions
<1>2. PICK i \in 0 .. Phys!Pages(r) - 1 : p = Phys!PageAddr(r, i)
  BY <1>1
<1> DEFINE b == Span[r].base
           s == Span[r].size
           n == s \div PageSize
           L == Tables!Half - Tables!Cover[0]
           f == b \div PageSize
<1>3. /\ b \in Nat /\ s \in Nat /\ n \in Nat /\ n * PageSize <= s /\ L \in Nat
      /\ PageSize \in Nat \ {0} /\ f \in Nat /\ b = f * PageSize /\ b + s <= L * PageSize
  <2>1. b \in Nat /\ s \in Nat /\ L \in Nat /\ PageSize \in Nat \ {0}
    BY SpansAre, Sizes
  <2>2. b + s <= L * PageSize /\ b % PageSize = 0
    BY BankAssumption, Sizes DEF InHalf
  <2> HIDE DEF b, s, L
  <2>3. f \in Nat /\ b = f * PageSize
    BY <2>1, <2>2, ModDiv
  <2>4. n \in Nat /\ n * PageSize <= s
    BY <2>1, DivDown
  <2> QED  BY <2>1, <2>2, <2>3, <2>4
<1>4. i \in Nat /\ i < n /\ p = b + i * PageSize
  BY <1>2, <1>3 DEF Phys!Pages, Phys!PageAddr
<1> HIDE DEF b, s, n, L, f
<1>5. p = (f + i) * PageSize /\ f + i \in Nat
  BY <1>3, <1>4
<1>6. p \in Nat /\ FrameOf(p) = f + i
  BY <1>3, <1>5, MulType, DivMul DEF FrameOf
<1>7. f + i < L
  <2>1. i * PageSize + PageSize <= n * PageSize
    BY <1>3, <1>4, MulMono
  <2>2. i * PageSize \in Nat /\ n * PageSize \in Nat /\ L * PageSize \in Nat
    BY <1>3, <1>4, MulType
  <2>3. p < L * PageSize
    BY <1>3, <1>4, <2>1, <2>2
  <2>4. L <= f + i => L * PageSize <= (f + i) * PageSize
    <3>1. L < f + i => L * PageSize + PageSize <= (f + i) * PageSize
      BY <1>3, <1>5, MulMono
    <3> QED  BY <1>3, <1>5, <2>2, <3>1
  <2> QED  BY <1>3, <1>5, <1>6, <2>2, <2>3, <2>4
<1> QED
  BY <1>5, <1>6, <1>7 DEF L

\* So do those of a span in the lower half.
LEMMA FramesIn ==
  ASSUME NEW s, NEW m \in Nat, InHalf(s, m), NEW p \in FramesOf(s)
  PROVE  p \in Nat /\ p < m
<1>1. s.base \in Nat /\ s.size \in Nat /\ s.base + s.size <= m * PageSize
      /\ PageSize \in Nat \ {0}
  BY Sizes DEF InHalf
<1>2. p \in FrameOf(s.base) .. FrameOf(s.base + s.size) /\ p * PageSize < s.base + s.size
  BY DEF FramesOf
<1>3. FrameOf(s.base) \in Nat
  BY <1>1, DivLaw DEF FrameOf
<1>4. p \in Nat
  BY <1>2, <1>3
<1>5. m <= p => m * PageSize <= p * PageSize
  <2>1. m < p => m * PageSize + PageSize <= p * PageSize
    BY <1>1, <1>4, MulMono
  <2> QED  BY <1>1, <1>4, <2>1, MulType
<1> QED
  BY <1>1, <1>2, <1>4, <1>5, MulType

LEMMA TablesAssumptions == TP!PageTablesAssumption /\ TP!CallsAssumption
<1>1. {FrameOf(p) : p \in Phys!Page} \subseteq 0 .. Tables!Half - 1
  BY PageFrames, Sizes
<1>2. RootTable \in 0 .. Tables!Half - 1
  BY FramesIn, ImageAssumption, Sizes
<1>3. TP!Half = Tables!Half
  BY DEF TP!Half, Tables!Half, TP!Space, Tables!Space
<1> QED
  BY <1>1, <1>2, <1>3, SizeAssumption, BankAssumption DEF TP!NoAttr

-----------------------------------------------------------------------------
\* The instances are the same: what the lemmas say of one holds of the other.

LEMMA SameLayout ==
  /\ Phys!FreePages = PP!FreePages /\ Phys!Page = PP!Page
  /\ \A r : /\ Phys!HasBitmap(r) = PP!HasBitmap(r)
            /\ Phys!BitmapBytes(r) = PP!BitmapBytes(r)
            /\ Phys!BitmapPlace[r] = PP!BitmapPlace[r]
            /\ Phys!BitmapPlaces[r] = PP!BitmapPlaces[r]
            /\ \A a : Phys!BitmapSpan(r, a) = PP!BitmapSpan(r, a)
            /\ \A i : Phys!PageAddr(r, i) = PP!PageAddr(r, i)
  /\ \A s, t : /\ Phys!PartOf(s, t) = PP!PartOf(s, t)
               /\ Phys!Overlap(s, t) = PP!Overlap(s, t)
  /\ \A p : Phys!PageSpan(p) = PP!PageSpan(p)
  BY DEF Phys!FreePages, PP!FreePages, Phys!Page, PP!Page, Phys!PageAddr, PP!PageAddr,
         Phys!HasBitmap, PP!HasBitmap, Phys!BitmapPlace, PP!BitmapPlace,
         Phys!BitmapPlaces, PP!BitmapPlaces, Phys!BitmapBytes, PP!BitmapBytes,
         Phys!BitmapSpan, PP!BitmapSpan, Phys!Pages, PP!Pages, Phys!PartOf, PP!PartOf,
         Phys!Overlap, PP!Overlap, Phys!End, PP!End, Phys!Regions, PP!Regions,
         Phys!PageSpan, PP!PageSpan

LEMMA SameInit ==
  /\ Phys!Init <=> PP!Init
  /\ Phys!InitRegion <=> PP!InitRegion
  /\ Phys!Relocate <=> PP!Relocate
  BY DEF Phys!Init, PP!Init, Phys!Relocate, PP!Relocate, Phys!Ready, PP!Ready,
         Phys!InitRegion, PP!InitRegion,
         Phys!HasBitmap, PP!HasBitmap, Phys!BitmapPlace, PP!BitmapPlace,
         Phys!BitmapPlaces, PP!BitmapPlaces, Phys!BitmapBytes, PP!BitmapBytes,
         Phys!BitmapSpan, PP!BitmapSpan, Phys!Bits, PP!Bits, Phys!BitsIn, PP!BitsIn,
         Phys!FixedBits, PP!FixedBits, Phys!PageBits, PP!PageBits,
         Phys!PageAddr, PP!PageAddr, Phys!Pages, PP!Pages, Phys!PartOf, PP!PartOf,
         Phys!End, PP!End, Phys!Overlap, PP!Overlap, Phys!ReservedBits, PP!ReservedBits,
         Phys!AlignDown, PP!AlignDown, Phys!AlignUp, PP!AlignUp, Phys!Regions, PP!Regions

LEMMA SameAllocPage == \A c : Phys!AllocPage(c) <=> PP!AllocPage(c)
  BY DEF Phys!AllocPage, PP!AllocPage, Phys!Ready, PP!Ready, Phys!Regions, PP!Regions,
         Phys!FreeBits, PP!FreeBits, Phys!ScanFaults, PP!ScanFaults,
         Phys!Scanned, PP!Scanned, Phys!Reachable, PP!Reachable, Phys!BitsIn, PP!BitsIn,
         Phys!FirstFree, PP!FirstFree, Phys!AlignDown, PP!AlignDown, 
         Phys!Fault, PP!Fault, Phys!Give, PP!Give, Phys!PageAddr, PP!PageAddr

LEMMA SameReserve == \A a : Phys!ReservePageAt(a) <=> PP!ReservePageAt(a)
  BY DEF Phys!ReservePageAt, PP!ReservePageAt, Phys!Ready, PP!Ready,
         Phys!Regions, PP!Regions, Phys!AlignDown, PP!AlignDown, Phys!BitOf, PP!BitOf,
         Phys!Names, PP!Names, Phys!PartOf, PP!PartOf, Phys!PageSpan, PP!PageSpan,
         Phys!End, PP!End, Phys!BitFaults, PP!BitFaults, Phys!Reachable, PP!Reachable,
         Phys!Fault, PP!Fault

LEMMA SameGeometry ==
  /\ TP!Space = Tables!Space /\ TP!Half = Tables!Half /\ TP!Top = Tables!Top
  /\ TP!Cover = Tables!Cover
  /\ TP!Unmapped = Tables!Unmapped
  /\ \A q : /\ TP!Callable(q) <=> Tables!Callable(q)
            /\ TP!FirstPage(q) = Tables!FirstPage(q) /\ TP!EndPage(q) = Tables!EndPage(q)
            /\ TP!PagesOf(q) = Tables!PagesOf(q) /\ TP!Touched(q) = Tables!Touched(q)
            /\ \A v : TP!Wanted(q, v) = Tables!Wanted(q, v)
  /\ \A v : TP!Translate(v) = Tables!Translate(v)
  /\ \A t, w : TP!Matches(t, w) = Tables!Matches(t, w)
  BY DEF TP!Space, Tables!Space, TP!Half, Tables!Half, TP!Top, Tables!Top,
         TP!Cover, Tables!Cover, TP!Levels, Tables!Levels, TP!Unmapped, Tables!Unmapped,
         TP!NoAttr, Tables!NoAttr, TP!Callable, Tables!Callable, TP!Modes, Tables!Modes,
         TP!FirstPage, Tables!FirstPage, TP!EndPage, Tables!EndPage,
         TP!PagesOf, Tables!PagesOf, TP!Touched, Tables!Touched,
         TP!Wanted, Tables!Wanted, TP!Anywhere, Tables!Anywhere,
         TP!Translate, Tables!Translate, TP!Entry, Tables!Entry, TP!Row, Tables!Row,
         TP!Index, Tables!Index, TP!Leaf, Tables!Leaf, TP!Matches, Tables!Matches

LEMMA SameCalls ==
  /\ TP!Idle <=> Tables!Idle
  /\ \A q : TP!Map(q) <=> Tables!Map(q)
  BY SameGeometry
     DEF TP!Idle, Tables!Idle, TP!Map, Tables!Map, TP!Frame, Tables!Frame

LEMMA SameTurns ==
  /\ TP!MapBlock <=> Tables!MapBlock
  /\ TP!NewTable <=> Tables!NewTable
  /\ TP!FollowEntry <=> Tables!FollowEntry
  /\ TP!MapPage <=> Tables!MapPage
  /\ TP!Panic <=> Tables!Panic
  /\ TP!Return <=> Tables!Return
  BY DEF TP!MapBlock, Tables!MapBlock, TP!NewTable, Tables!NewTable,
         TP!FollowEntry, Tables!FollowEntry, TP!MapPage, Tables!MapPage,
         TP!Panic, Tables!Panic, TP!Return, Tables!Return, TP!NeedsPage, Tables!NeedsPage,
         TP!InLoop, Tables!InLoop, TP!BlockFits, Tables!BlockFits,
         TP!Active, Tables!Active, TP!Callers, Tables!Callers, TP!Here, Tables!Here,
         TP!ChunkEnd, Tables!ChunkEnd, TP!NextChunk, Tables!NextChunk,
         TP!Advance, Tables!Advance, TP!Descend, Tables!Descend, TP!Frame, Tables!Frame,
         TP!WriteEntry, Tables!WriteEntry, TP!make_block, Tables!make_block,
         TP!make_table, Tables!make_table, TP!make_page, Tables!make_page,
         TP!PhysOf, Tables!PhysOf, TP!IsValid, Tables!IsValid, TP!Taken, Tables!Taken,
         TP!Memset, Tables!Memset, TP!Entry, Tables!Entry, TP!Row, Tables!Row,
         TP!Index, Tables!Index, TP!Cover, Tables!Cover, TP!Levels, Tables!Levels,
         TP!Space, Tables!Space, TP!Half, Tables!Half, TP!Top, Tables!Top,
         TP!Invalid, Tables!Invalid, TP!NoAttr, Tables!NoAttr,
         TP!Front, Tables!Front, TP!Last, Tables!Last, TP!Min, Tables!Min

-----------------------------------------------------------------------------
\* Discover.

Memory == fdt.prop["memory"]

\* What may be read as a bank.
Readable == {D!SpanAt(Memory, off) : off \in Nat}

Before == {"fdt", "nodes", "uart", "gic", "cells"}

\* The devices are read one after the other, then the banks in the order of the
\* tree, as long as they are there.
DiscoverInv ==
  /\ fdt \in Blobs
  /\ device = [d \in Device |-> device[d]]
  /\ stage \notin {"fdt", "nodes", "uart"} => device["uart"] = fdt.machine.device["uart"]
  /\ stage \notin {"fdt", "nodes", "uart", "gic"} =>
       /\ device["gicd"] = fdt.machine.device["gicd"]
       /\ device["gicr"] = fdt.machine.device["gicr"]
  /\ regions \in Seq(Readable)
  /\ stage \in Before => regions = <<>>
  /\ stage \notin Before =>
       /\ D!HasBanks(fdt) /\ cells = D!CellsOf(fdt)
       /\ num = D!Capped(Len(fdt.machine.banks))
       /\ Len(regions) <= num
       /\ \A i \in 1 .. Len(regions) :
            LET off == (i - 1) * D!entry_size(cells)
            IN D!HasCells(fdt, "memory", off, 4) /\ regions[i] = D!SpanAt(Memory, off)
  /\ ~D!Discovering => Len(regions) = num

\* The code reads cells as they were written.
LEMMA CellsAsWritten ==
  ASSUME NEW data, NEW off
  PROVE  /\ D!u32_at(data, off) = D!CellAt(data, off)
         /\ D!SpanAt(data, off) = D!EntryAt(data, off, 2, 2)
<1>1. \A o : D!u32_at(data, o) = D!CellAt(data, o)
  BY DEF D!u32_at, D!read_be_32, D!CellAt, D!BigEndian
<1> QED
  BY <1>1 DEF D!SpanAt, D!PairAt, D!EntryAt, D!NumberAt

\* The banks of a blob.
LEMMA BanksOf ==
  ASSUME NEW b \in Blobs, D!HasBanks(b)
  PROVE  LET c == D!CellsOf(b)
             n == Len(b.machine.banks)
             w == D!entry_size(c)
         IN /\ c = [addr |-> c.addr, size |-> c.size]
            /\ c.addr \in 1 .. 2 /\ c.size \in 1 .. 2
            /\ n \in Nat /\ w \in Nat \ {0} /\ w = (c.addr + c.size) * CellBytes
            /\ b.machine.banks \in Seq(D!Spans)
            /\ Len(b.prop["memory"]) = n * w
            /\ Len(b.prop["memory"]) \div w = n
            /\ \A i \in 1 .. n :
                 b.machine.banks[i] =
                   D!EntryAt(b.prop["memory"], (i - 1) * w, c.addr, c.size)
<1> DEFINE c == D!CellsOf(b)
           banks == b.machine.banks
           n == Len(banks)
           w == D!entry_size(c)
<1>1. D!Written(b)
  BY BlobAssumption
<1>2. D!BanksWritten(b) /\ banks \in Seq(D!Spans)
  BY <1>1 DEF D!Written
<1>3. /\ c.addr = D!CellAt(b.prop["address-cells"], 0)
      /\ c.size = D!CellAt(b.prop["size-cells"], 0)
      /\ c = [addr |-> c.addr, size |-> c.size]
  BY CellsAsWritten DEF D!CellsOf
<1>4. w = (c.addr + c.size) * CellBytes
  BY DEF D!entry_size
<1>5. /\ c.addr \in 1 .. 2 /\ c.size \in 1 .. 2
      /\ Len(b.prop["memory"]) = n * w
      /\ \A i \in 1 .. n :
           banks[i] = D!EntryAt(b.prop["memory"], (i - 1) * w, c.addr, c.size)
  BY <1>2, <1>3, <1>4 DEF D!BanksWritten
<1>6. n \in Nat
  BY <1>2, LenProperties
<1>7. w \in Nat \ {0}
  BY <1>4, <1>5, SizeAssumption
<1> HIDE DEF n, w
<1>8. (n * w) \div w = n
  BY <1>6, <1>7, DivMul
<1> QED
  BY <1>2, <1>3, <1>4, <1>5, <1>6, <1>7, <1>8 DEF n, w

LEMMA DiscoverInit == D!Init => DiscoverInv
<1> SUFFICES ASSUME D!Init PROVE DiscoverInv
  OBVIOUS
<1>1. /\ fdt \in Blobs /\ stage = "fdt" /\ regions = <<>>
      /\ device = [d \in D!Device |-> D!Nowhere]
  BY DEF D!Init
<1>2. regions \in Seq(Readable)
  BY <1>1, EmptySeq
<1> QED
  BY <1>1, <1>2 DEF DiscoverInv, Before, D!Discovering, D!Device, Device

\* Steps that only move on.
LEMMA ReadDevicesKeeps ==
  ASSUME DiscoverInv, D!ReadFdt \/ D!FindNodes \/ D!ReadUart \/ D!ReadGic
  PROVE  DiscoverInv'
<1>1. /\ fdt \in Blobs /\ fdt' = fdt /\ regions' = regions /\ num' = num /\ cells' = cells
      /\ D!Written(fdt)
  BY BlobAssumption
     DEF DiscoverInv, D!ReadFdt, D!FindNodes, D!ReadUart, D!ReadGic, D!found
<1>2. stage \in {"fdt", "nodes", "uart", "gic"} /\ regions = <<>> /\ device = [d \in Device |-> device[d]]
  BY DEF DiscoverInv, D!ReadFdt, D!FindNodes, D!ReadUart, D!ReadGic, Before
<1>3. regions' \in Seq(Readable')
  BY <1>1, <1>2, EmptySeq
<1>4. CASE D!ReadFdt \/ D!FindNodes
  <2>1. device' = device /\ stage' \in {"fdt", "nodes", "uart"}
    BY <1>4 DEF D!ReadFdt, D!FindNodes, D!Proceed, D!found
  <2> QED  BY <1>1, <1>2, <1>3, <2>1 DEF DiscoverInv, Before, D!Discovering
<1>5. CASE D!ReadUart
  <2> DEFINE ok == D!HasCells(fdt, "uart", 0, 4)
  <2>1. /\ stage = "uart" /\ stage' = (IF ok THEN "gic" ELSE "uart")
        /\ device' = (IF ok THEN [device EXCEPT !["uart"] = D!SpanAt(fdt.prop["uart"], 0)]
                            ELSE device)
    BY <1>5 DEF D!ReadUart, D!Proceed
  <2>2. ok => D!SpanAt(fdt.prop["uart"], 0) = fdt.machine.device["uart"]
    BY <1>1, CellsAsWritten DEF D!Written
  <2> HIDE DEF ok
  <2>3. device' = [d \in Device |-> device'[d]] /\ (ok => device'["uart"] = fdt.machine.device["uart"])
    BY <1>2, <2>1, <2>2 DEF Device
  <2>4. stage' \in {"uart", "gic"} /\ (stage' = "gic" => ok)
    BY <2>1
  <2> QED  BY <1>1, <1>2, <1>3, <2>3, <2>4 DEF DiscoverInv, Before, D!Discovering
<1>6. CASE D!ReadGic
  <2> DEFINE ok == D!HasCells(fdt, "gic", 0, 8)
             gicd == D!SpanAt(fdt.prop["gic"], 0)
             gicr == D!SpanAt(fdt.prop["gic"], 4 * CellBytes)
  <2>1. /\ stage = "gic" /\ stage' = (IF ok THEN "cells" ELSE "gic")
        /\ device' = (IF ok THEN [device EXCEPT !["gicd"] = gicd, !["gicr"] = gicr]
                            ELSE device)
    BY <1>6 DEF D!ReadGic, D!Proceed
  <2>2. ok => gicd = fdt.machine.device["gicd"] /\ gicr = fdt.machine.device["gicr"]
    BY <1>1, CellsAsWritten DEF D!Written
  <2>3. device["uart"] = fdt.machine.device["uart"]
    BY <2>1 DEF DiscoverInv
  <2> HIDE DEF ok, gicd, gicr
  <2>4. /\ device' = [d \in Device |-> device'[d]] /\ device'["uart"] = fdt.machine.device["uart"]
        /\ ok => /\ device'["gicd"] = fdt.machine.device["gicd"]
                 /\ device'["gicr"] = fdt.machine.device["gicr"]
    BY <1>2, <2>1, <2>2, <2>3 DEF Device
  <2>5. stage' \in {"gic", "cells"} /\ (stage' = "cells" => ok)
    BY <2>1
  <2> QED  BY <1>1, <1>2, <1>3, <2>4, <2>5 DEF DiscoverInv, Before, D!Discovering
<1> QED
  BY <1>4, <1>5, <1>6

LEMMA ReadCellsKeeps ==
  ASSUME DiscoverInv, D!ReadCells
  PROVE  DiscoverInv'
<1> DEFINE ok == D!HasBanks(fdt)
<1>1. /\ fdt \in Blobs /\ fdt' = fdt /\ regions' = regions /\ device' = device
      /\ stage = "cells" /\ regions = <<>> /\ stage' = (IF ok THEN "banks" ELSE "cells")
      /\ ok => /\ cells' = D!CellsOf(fdt)
               /\ num' = D!Capped(Len(fdt.prop["memory"])
                                    \div D!entry_size(D!CellsOf(fdt)))
  BY DEF DiscoverInv, D!ReadCells, D!Proceed, Before
<1>2. ok => num' = D!Capped(Len(fdt.machine.banks)) /\ Len(fdt.machine.banks) \in Nat
  BY <1>1, BanksOf
<1>3. ok => 0 <= num'
  BY <1>2, SizeAssumption DEF D!Capped
<1>4. regions' \in Seq(Readable') /\ Len(regions') = 0
  BY <1>1, EmptySeq
<1>5. stage' \in {"cells", "banks"} /\ (stage' = "banks" => ok)
  BY <1>1
<1>6. /\ device' = [d \in Device |-> device'[d]] /\ device'["uart"] = fdt'.machine.device["uart"]
      /\ device'["gicd"] = fdt'.machine.device["gicd"]
      /\ device'["gicr"] = fdt'.machine.device["gicr"]
  BY <1>1 DEF DiscoverInv
<1> HIDE DEF ok
<1> QED
  BY <1>1, <1>2, <1>3, <1>4, <1>5, <1>6 DEF DiscoverInv, Before, D!Discovering, ok

LEMMA ReadBankKeeps ==
  ASSUME DiscoverInv, D!ReadBank
  PROVE  DiscoverInv'
<1> DEFINE off == Len(regions) * D!entry_size(cells)
           ok == D!HasCells(fdt, "memory", off, 4)
           s == D!SpanAt(Memory, off)
<1>1. /\ stage = "banks" /\ stage' = "banks" /\ Len(regions) < num
      /\ fdt' = fdt /\ device' = device /\ cells' = cells /\ num' = num
      /\ regions' = (IF ok THEN Append(regions, s) ELSE regions)
  BY DEF D!ReadBank, D!Proceed, Memory
<1>2. /\ fdt \in Blobs /\ device = [d \in Device |-> device[d]]
      /\ device["uart"] = fdt.machine.device["uart"]
      /\ device["gicd"] = fdt.machine.device["gicd"]
      /\ device["gicr"] = fdt.machine.device["gicr"]
      /\ D!HasBanks(fdt) /\ cells = D!CellsOf(fdt)
      /\ num = D!Capped(Len(fdt.machine.banks))
      /\ regions \in Seq(Readable)
      /\ \A i \in 1 .. Len(regions) :
            LET o == (i - 1) * D!entry_size(cells)
            IN D!HasCells(fdt, "memory", o, 4) /\ regions[i] = D!SpanAt(Memory, o)
  BY <1>1 DEF DiscoverInv, Before
<1>3. D!entry_size(cells) \in Nat \ {0} /\ Len(fdt.machine.banks) \in Nat
  BY <1>2, BanksOf
<1>4. Len(regions) \in Nat /\ off \in Nat
  <2>1. Len(regions) \in Nat
    BY <1>2, LenProperties
  <2> QED  BY <1>3, <2>1, MulType
<1>5. s \in Readable /\ num \in Nat
  BY <1>2, <1>3, <1>4, SizeAssumption DEF Readable, D!Capped
<1>6. CASE ~ok
  <2>1. regions' = regions
    BY <1>1, <1>6
  <2> HIDE DEF ok
  <2> QED
    BY <1>1, <1>2, <2>1 DEF DiscoverInv, Before, D!Discovering, Memory, Readable
<1>7. CASE ok
  <2> HIDE DEF ok, off, s
  <2>1. /\ regions' \in Seq(Readable) /\ Len(regions') = Len(regions) + 1
        /\ regions'[Len(regions) + 1] = s
        /\ \A i \in 1 .. Len(regions) : regions'[i] = regions[i]
    BY <1>1, <1>2, <1>5, <1>7, AppendProperties
  <2>2. Memory' = Memory /\ Readable' = Readable
    BY <1>1 DEF Memory, Readable
  <2>3. ASSUME NEW i \in 1 .. Len(regions')
        PROVE  LET o == (i - 1) * D!entry_size(cells)
               IN D!HasCells(fdt, "memory", o, 4) /\ regions'[i] = D!SpanAt(Memory, o)
    <3>1. CASE i \in 1 .. Len(regions)
      BY <1>2, <2>1, <3>1
    <3>2. CASE i = Len(regions) + 1
      <4>1. i - 1 = Len(regions)
        BY <1>4, <3>2
      <4> QED  BY <1>7, <2>1, <3>2, <4>1 DEF ok, off, s
    <3> QED  BY <1>4, <2>1, <3>1, <3>2
  <2>4. Len(regions') <= num
    BY <1>1, <1>4, <1>5, <2>1
  <2> QED
    BY <1>1, <1>2, <2>1, <2>2, <2>3, <2>4 DEF DiscoverInv, Before, D!Discovering
<1> QED
  BY <1>6, <1>7

LEMMA DiscoverKeeps ==
  ASSUME DiscoverInv, D!Next
  PROVE  DiscoverInv'
<1>1. CASE D!EndBanks
  <2>1. /\ stage = "banks" /\ stage' = "regions" /\ Len(regions) = num
        /\ fdt' = fdt /\ device' = device /\ cells' = cells /\ num' = num
        /\ regions' = regions
    BY <1>1 DEF D!EndBanks, D!found
  <2> QED
    BY <2>1 DEF DiscoverInv, Before, D!Discovering, Memory, Readable
<1> QED
  BY <1>1, ReadDevicesKeeps, ReadCellsKeeps, ReadBankKeeps DEF D!Next

LEMMA DiscoverStays ==
  ASSUME DiscoverInv, UNCHANGED foundVars,
         stage' = stage \/ (~D!Discovering /\ ~D!Discovering')
  PROVE  DiscoverInv'
  BY DEF DiscoverInv, Before, D!Discovering, Memory, Readable, foundVars

\* With one cell of address or size, the last bank does not have four cells.
LEMMA DiscoverFinds == DiscoverInv => FindsTheMachine
<1> SUFFICES ASSUME DiscoverInv, ~D!Discovering PROVE
       /\ device = fdt.machine.device
       /\ Len(regions) <= MaxRegions
       /\ \/ regions = D!Expected
          \/ Len(fdt.machine.banks) > MaxRegions /\ cells # [addr |-> 2, size |-> 2]
  BY DEF FindsTheMachine, D!FindsTheMachine
<1> DEFINE banks == fdt.machine.banks
           n == Len(banks)
           w == D!entry_size(cells)
<1>1. /\ fdt \in Blobs /\ device = [d \in Device |-> device[d]]
      /\ device["uart"] = fdt.machine.device["uart"]
      /\ device["gicd"] = fdt.machine.device["gicd"]
      /\ device["gicr"] = fdt.machine.device["gicr"]
      /\ D!HasBanks(fdt) /\ cells = D!CellsOf(fdt) /\ num = D!Capped(n)
      /\ Len(regions) = num /\ regions \in Seq(Readable)
      /\ \A i \in 1 .. Len(regions) :
            LET o == (i - 1) * w
            IN D!HasCells(fdt, "memory", o, 4) /\ regions[i] = D!SpanAt(Memory, o)
  BY DEF DiscoverInv, Before, D!Discovering
<1>2. device = fdt.machine.device
  BY <1>1, BlobAssumption DEF D!Written, D!Device, Device
<1>3. /\ cells = [addr |-> cells.addr, size |-> cells.size]
      /\ cells.addr \in 1 .. 2 /\ cells.size \in 1 .. 2
      /\ n \in Nat /\ w \in Nat \ {0} /\ w = (cells.addr + cells.size) * CellBytes
      /\ banks \in Seq(D!Spans) /\ Len(Memory) = n * w
      /\ \A i \in 1 .. n : banks[i] = D!EntryAt(Memory, (i - 1) * w, cells.addr, cells.size)
  BY <1>1, BanksOf DEF Memory
<1>4. num <= MaxRegions /\ num <= n /\ num \in Nat /\ (n <= MaxRegions => num = n)
  <2>1. n \in Nat /\ num = D!Capped(n)
    BY <1>1, <1>3
  <2> HIDE DEF n
  <2> QED  BY <2>1, SizeAssumption DEF D!Capped
<1>5. D!Expected = SubSeq(banks, 1, num)
  BY <1>1 DEF D!Expected
<1> HIDE DEF n, w, banks
<1>6. CASE cells.addr = 2 /\ cells.size = 2
  <2>1. ASSUME NEW i \in 1 .. num
        PROVE  regions[i] = banks[i] /\ banks[i] \in Readable
    <3>1. i \in 1 .. n /\ i \in 1 .. Len(regions)
      BY <1>1, <1>3, <1>4
    <3>2. regions[i] = D!SpanAt(Memory, (i - 1) * w)
      BY <1>1, <3>1
    <3>3. banks[i] = D!EntryAt(Memory, (i - 1) * w, 2, 2)
      BY <1>3, <1>6, <3>1
    <3>4. (i - 1) * w \in Nat
      BY <1>3, MulType
    <3> QED  BY <3>2, <3>3, <3>4, CellsAsWritten DEF Readable
  <2>2. /\ Len(D!Expected) = num /\ D!Expected \in Seq(Readable)
        /\ \A i \in 1 .. num : D!Expected[i] = banks[i]
    <3>1. \A i \in 1 .. num : banks[i] \in Readable
      BY <2>1
    <3> QED  BY <1>4, <1>5, <3>1, SubSeqProperties
  <2>3. regions = D!Expected
    BY <1>1, <2>1, <2>2, SeqEqual
  <2> QED  BY <1>1, <1>2, <1>4, <2>3
<1>7. ASSUME ~(cells.addr = 2 /\ cells.size = 2), n <= MaxRegions, n # 0
      PROVE  FALSE
  <2>1. n \in 1 .. Len(regions)
    BY <1>1, <1>3, <1>4, <1>7
  <2>2. D!HasCells(fdt, "memory", (n - 1) * w, 4)
    BY <1>1, <2>1
  <2>3. (n - 1) * w + 4 * CellBytes <= n * w
    BY <1>3, <2>2 DEF D!HasCells, Memory
  <2>4. w <= 3 * CellBytes
    <3>1. cells.addr + cells.size \in 0 .. 3
      BY <1>3, <1>7
    <3> DEFINE k == cells.addr + cells.size
    <3> HIDE DEF k
    <3>2. k \in 0 .. 3 /\ w = k * CellBytes
      BY <1>3, <3>1 DEF k
    <3> QED  BY <3>2, SizeAssumption
  <2>5. (n - 1) * w + w = n * w /\ (n - 1) * w \in Nat /\ n * w \in Nat
    BY <1>3, <1>7, MulType
  <2> DEFINE x == (n - 1) * w
             y == n * w
  <2>6. x + 4 * CellBytes <= y /\ x + w = y /\ x \in Nat /\ y \in Nat /\ w \in Nat
    BY <1>3, <2>3, <2>5
  <2> HIDE DEF x, y
  <2> QED  BY <2>4, <2>6, SizeAssumption
<1>8. CASE n = 0
  <2>1. Len(regions) = 0 /\ num = 0
    BY <1>1, <1>3, <1>4, <1>8
  <2>2. D!Expected = <<>> /\ regions = <<>>
    BY <1>1, <1>5, <2>1, SubSeqEmpty, EmptySeq
  <2> QED  BY <1>1, <1>2, <1>4, <2>2
<1>9. CASE n > MaxRegions /\ ~(cells.addr = 2 /\ cells.size = 2)
  BY <1>1, <1>2, <1>4, <1>9 DEF n, banks
<1>10. n \in Nat /\ MaxRegions \in Nat
  BY <1>3, SizeAssumption
<1> QED
  BY <1>6, <1>7, <1>8, <1>9, <1>10

-----------------------------------------------------------------------------
\* The calls of map.

\* Adding a multiple of the divisor.
LEMMA DivPlus ==
  ASSUME NEW a \in Nat, NEW k \in Nat, NEW P \in Nat \ {0}
  PROVE  (a + k * P) \div P = (a \div P) + k
<1> DEFINE q == a \div P
           w == q + k
           x == a + k * P
<1>1. q \in Nat /\ q * P <= a /\ a < q * P + P
  BY DivDown
<1> HIDE DEF q
<1>2. w \in Nat /\ w * P = q * P + k * P /\ k * P \in Nat /\ q * P \in Nat
  BY <1>1
<1> HIDE DEF w
<1>3. x \in Nat /\ w * P <= x /\ x < w * P + P
  BY <1>1, <1>2
<1> HIDE DEF x
<1>4. x \div P = w
  BY <1>2, <1>3, DivUnique
<1> QED
  BY <1>4 DEF x, w, q

Attributes == {"NormalPRO", "NormalPRW", "DevicePRW"}

\* A call for a span of the lower half, moved up by k pages, is one the loops
\* come to the end of, and its pages are the span's, moved.
LEMMA CallOf ==
  ASSUME NEW s, NEW m \in Nat, InHalf(s, m), m <= Tables!Half,
         NEW k \in Nat, k + m <= Tables!Top - Tables!Cover[0],
         NEW mode \in {"Id", "Direct"}, NEW attr \in Attributes
  PROVE  LET q == Call(Shift(s, k * PageSize), mode, attr)
         IN /\ Tables!Callable(q) /\ q.mode = mode /\ q.attr = attr
            /\ \A f \in FramesOf(s) : f + k \in Tables!PagesOf(q)
<1> DEFINE q == Call(Shift(s, k * PageSize), mode, attr)
           P == PageSize
           b == s.base
           n == s.size
           o == k * P
           e == b + o + n
<1>1. /\ b \in Nat /\ n \in Nat \ {0} /\ b + n <= m * P /\ P \in Nat \ {0}
      /\ o \in Nat /\ e \in Nat /\ m * P \in Nat
  BY Sizes, MulType DEF InHalf
<1>2. /\ q.base = b + o /\ q.size = n /\ q.mode = mode /\ q.attr = attr
  BY DEF Call, Shift
<1> HIDE DEF q
<1>3. Tables!FirstPage(q) = (b \div P) + k /\ b \div P \in Nat
  <2>1. Tables!FirstPage(q) = (b + k * P) \div P
    BY <1>2 DEF Tables!FirstPage
  <2>2. b \div P \in Nat
    BY <1>1, DivLaw
  <2> HIDE DEF b, P
  <2> QED  BY <1>1, <2>1, <2>2, DivPlus
<1>4. Tables!EndPage(q) = (e + P - 1) \div P
  BY <1>2 DEF Tables!EndPage
<1>5. \A v \in Nat : v * P < e <=> v < Tables!EndPage(q)
  BY <1>1, <1>4, TablesAssumptions, TP!CeilLess
<1>6. Tables!EndPage(q) \in Nat
  <2>1. e + P - 1 \in Nat
    BY <1>1
  <2> HIDE DEF e
  <2> QED  BY <1>1, <1>4, <2>1, DivLaw
<1> HIDE DEF b, n, P, o
<1>7. Tables!EndPage(q) <= k + m
  <2>1. (k + m) * P = o + m * P
    BY <1>1 DEF o
  <2>2. ~((k + m) * P < e)
    BY <1>1, <2>1
  <2> HIDE DEF e
  <2> QED  BY <1>5, <1>6, <2>2
<1>8. Tables!Callable(q)
  <2>1. q.base \in Nat /\ q.size \in Nat \ {0}
    BY <1>1, <1>2
  <2>2. Tables!EndPage(q) <= Tables!Top - Tables!Cover[0]
    BY <1>6, <1>7, Sizes
  <2>3. Tables!EndPage(q) - Tables!FirstPage(q) <= Tables!Space
    BY <1>3, <1>6, <1>7, Sizes
  <2>4. q.mode \in Tables!Modes /\ q.attr \in Attributes
    BY <1>2 DEF Tables!Modes
  <2> QED  BY <2>1, <2>2, <2>3, <2>4 DEF Tables!Callable, Attributes
<1>9. ASSUME NEW f \in FramesOf(s)
      PROVE  f + k \in Tables!PagesOf(q)
  <2>1. f \in Nat /\ b \div P <= f /\ f * P < b + n
    <3>1. f \in Nat
      BY FramesIn
    <3> QED  BY <1>1, <1>3, <3>1, DivLaw DEF FramesOf, FrameOf, b, P, n
  <2>2. (f + k) * P = f * P + o /\ f * P \in Nat
    BY <1>1, <2>1 DEF o
  <2>3. (f + k) * P < e
    BY <1>1, <2>1, <2>2
  <2>4. f + k < Tables!EndPage(q)
    BY <1>5, <2>1, <2>3
  <2> QED  BY <1>3, <1>6, <2>1, <2>4 DEF Tables!PagesOf
<1> QED
  BY <1>2, <1>8, <1>9 DEF q, P

-----------------------------------------------------------------------------
\* The calls, one by one.
LEMMA CallsAre ==
  /\ Len(Calls) = 6 + NRegions
  /\ Calls[1] = Call(Shift(Text, Tables!Space * PageSize), "Id", "NormalPRO")
  /\ Calls[2] = Call(Shift(Data, Tables!Space * PageSize), "Id", "NormalPRW")
  /\ Calls[3] = Call(Shift(Fdt, 0 * PageSize), "Id", "NormalPRO")
  /\ Calls[4] = Call(device["uart"], "Id", "DevicePRW")
  /\ Calls[5] = Call(device["gicd"], "Id", "DevicePRW")
  /\ Calls[6] = Call(device["gicr"], "Id", "DevicePRW")
  /\ \A r \in 1 .. NRegions :
       Calls[6 + r] = Call(Shift(Span[r], (Tables!Space + Tables!Half) * PageSize),
                           "Direct", "NormalPRW")
<1> DEFINE six == << Call(Shift(Text, KernelBase), "Id", "NormalPRO"),
                     Call(Shift(Data, KernelBase), "Id", "NormalPRW"),
                     Call(Fdt, "Id", "NormalPRO"),
                     Call(device["uart"], "Id", "DevicePRW"),
                     Call(device["gicd"], "Id", "DevicePRW"),
                     Call(device["gicr"], "Id", "DevicePRW") >>
           many == DirectCalls
<1>4. NRegions \in Nat
  BY BankAssumption
<1>1. Calls = six \o many
  BY DEF Calls
<1>2. Len(six) = 6
  OBVIOUS
<1>3. /\ six[1] = Call(Shift(Text, KernelBase), "Id", "NormalPRO")
      /\ six[2] = Call(Shift(Data, KernelBase), "Id", "NormalPRW")
      /\ six[3] = Call(Fdt, "Id", "NormalPRO")
      /\ six[4] = Call(device["uart"], "Id", "DevicePRW")
      /\ six[5] = Call(device["gicd"], "Id", "DevicePRW")
      /\ six[6] = Call(device["gicr"], "Id", "DevicePRW")
  OBVIOUS
<1> DEFINE S == {six[i] : i \in 1 .. 6} \cup {many[i] : i \in 1 .. NRegions}
<1>8. six \in Seq(S)
  OBVIOUS
<1>9. many \in Seq(S)
  BY <1>4 DEF DirectCalls
<1> HIDE DEF six, S
<1>5. /\ Len(many) = NRegions
      /\ \A r \in 1 .. NRegions : many[r] = Call(Shift(Span[r], PhyBase), "Direct", "NormalPRW")
  BY <1>4 DEF DirectCalls
<1> HIDE DEF many
<1>6. /\ Len(six \o many) = 6 + NRegions
      /\ (six \o many)[1] = six[1] /\ (six \o many)[2] = six[2] /\ (six \o many)[3] = six[3]
      /\ (six \o many)[4] = six[4] /\ (six \o many)[5] = six[5] /\ (six \o many)[6] = six[6]
      /\ \A r \in 1 .. NRegions : (six \o many)[6 + r] = many[r]
  <2>1. /\ Len(six \o many) = Len(six) + Len(many)
        /\ \A i \in 1 .. Len(six) + Len(many) :
             (six \o many)[i] = IF i <= Len(six) THEN six[i] ELSE many[i - Len(six)]
    BY <1>8, <1>9, ConcatProperties
  <2> DEFINE w == six \o many
  <2> HIDE DEF w
  <2>2. /\ Len(w) = 6 + NRegions
        /\ \A i \in 1 .. 6 + NRegions : w[i] = IF i <= 6 THEN six[i] ELSE many[i - 6]
    BY <2>1, <1>2, <1>5 DEF w
  <2>3. \A i \in 1 .. 6 : w[i] = six[i]
    BY <2>2, <1>4
  <2>4. ASSUME NEW r \in 1 .. NRegions
        PROVE  w[6 + r] = many[r]
    <3>1. 6 + r \in 1 .. 6 + NRegions /\ ~(6 + r <= 6) /\ (6 + r) - 6 = r
      BY <1>4
    <3> QED  BY <2>2, <3>1
  <2>5. /\ Len(w) = 6 + NRegions
        /\ w[1] = six[1] /\ w[2] = six[2] /\ w[3] = six[3]
        /\ w[4] = six[4] /\ w[5] = six[5] /\ w[6] = six[6]
        /\ \A r \in 1 .. NRegions : w[6 + r] = many[r]
    BY <2>2, <2>3, <2>4
  <2> QED
    BY <2>5, Zenon DEF w
<1>7. Call(Fdt, "Id", "NormalPRO") = Call(Shift(Fdt, 0 * PageSize), "Id", "NormalPRO")
  BY SpansAre, Sizes DEF Call, Shift
<1> QED
  BY <1>1, <1>3, <1>5, <1>6, <1>7, Sizes

\* The devices found are in the lower half.
LEMMA DevicesInHalf ==
  ASSUME DiscoverInv, ~D!Discovering
  PROVE  \A d \in Device : InHalf(device[d], Tables!Half)
<1>1. /\ fdt \in Blobs
      /\ device["uart"] = fdt.machine.device["uart"]
      /\ device["gicd"] = fdt.machine.device["gicd"]
      /\ device["gicr"] = fdt.machine.device["gicr"]
  BY DEF DiscoverInv, D!Discovering
<1>2. \A d \in Device : InHalf(fdt.machine.device[d], Tables!Half)
  BY <1>1, BlobAssumption
<1> QED
  BY <1>1, <1>2 DEF Device

\* A span is one shifted by nothing.
LEMMA NotShifted ==
  ASSUME NEW s, InHalf(s, Tables!Half)
  PROVE  s = Shift(s, 0 * PageSize)
<1>1. s \in [base : Nat, size : Nat \ {0}] /\ PageSize \in Nat
  BY Sizes DEF InHalf
<1>2. s = [base |-> s.base, size |-> s.size] /\ s.base + 0 * PageSize = s.base
  BY <1>1
<1> QED
  BY <1>2 DEF Shift

\* Every call is one that the loops come to the end of.
LEMMA CallsCallable ==
  ASSUME \A d \in Device : InHalf(device[d], Tables!Half), NEW i \in 1 .. Len(Calls)
  PROVE  /\ Tables!Callable(Calls[i])
         /\ Calls[i].mode \in {"Id", "Direct"} /\ Calls[i].attr \in Attributes
<1> DEFINE Fits(q) == /\ Tables!Callable(q)
                      /\ q.mode \in {"Id", "Direct"} /\ q.attr \in Attributes
           half == Tables!Half
<1>1. /\ half \in Nat /\ Tables!Space = 2 * half /\ Tables!Top = 2 * Tables!Space
      /\ Tables!Cover[0] \in Nat /\ Tables!Cover[0] <= half /\ NRegions \in Nat
  BY Sizes, BankAssumption
<1>2. /\ 0 + half <= Tables!Top - Tables!Cover[0]
      /\ Tables!Space + half <= Tables!Top - Tables!Cover[0]
      /\ Tables!Space \in Nat
  BY <1>1
<1>3. ASSUME NEW s, InHalf(s, half), NEW mode \in {"Id", "Direct"}, NEW attr \in Attributes
      PROVE  /\ Fits(Call(Shift(s, 0 * PageSize), mode, attr))
             /\ Fits(Call(Shift(s, Tables!Space * PageSize), mode, attr))
  BY <1>1, <1>2, <1>3, CallOf
<1>4. ASSUME NEW r \in 1 .. NRegions
      PROVE  Fits(Call(Shift(Span[r], (Tables!Space + half) * PageSize), "Direct", "NormalPRW"))
  <2> DEFINE m == half - Tables!Cover[0]
  <2>1. InHalf(Span[r], m)
    BY Sizes, BankAssumption
  <2>2. m \in Nat /\ m <= half /\ (Tables!Space + half) + m <= Tables!Top - Tables!Cover[0]
        /\ Tables!Space + half \in Nat
    BY <1>1
  <2>3. "NormalPRW" \in Attributes
    BY DEF Attributes
  <2> HIDE DEF m
  <2> QED  BY <2>1, <2>2, <2>3, CallOf
<1>5. InHalf(Text, half) /\ InHalf(Data, half) /\ InHalf(Fdt, half)
  BY ImageAssumption
<1>6. InHalf(device["uart"], half) /\ InHalf(device["gicd"], half) /\ InHalf(device["gicr"], half)
  BY DEF Device
<1>7. "NormalPRO" \in Attributes /\ "NormalPRW" \in Attributes /\ "DevicePRW" \in Attributes
  BY DEF Attributes
<1>8. \A s : InHalf(s, half) => s = Shift(s, 0 * PageSize)
  BY NotShifted
<1> HIDE DEF Fits, half
<1>9. Fits(Calls[1]) /\ Fits(Calls[2]) /\ Fits(Calls[3])
  BY <1>3, <1>5, <1>7, CallsAre
<1>10. Fits(Calls[4]) /\ Fits(Calls[5]) /\ Fits(Calls[6])
  <2>1. Fits(Call(device["uart"], "Id", "DevicePRW"))
    BY <1>3, <1>6, <1>7, <1>8
  <2>2. Fits(Call(device["gicd"], "Id", "DevicePRW"))
    BY <1>3, <1>6, <1>7, <1>8
  <2>3. Fits(Call(device["gicr"], "Id", "DevicePRW"))
    BY <1>3, <1>6, <1>7, <1>8
  <2> QED  BY <2>1, <2>2, <2>3, CallsAre
<1>11. \A r \in 1 .. NRegions : Fits(Calls[6 + r])
  BY <1>4, CallsAre DEF half
<1>12. i \in 1 .. 6 \/ \E r \in 1 .. NRegions : i = 6 + r
  <2>1. i \in 1 .. 6 + NRegions
    BY CallsAre
  <2>2. ~(i \in 1 .. 6) => i - 6 \in 1 .. NRegions /\ i = 6 + (i - 6)
    BY <2>1, <1>1
  <2> QED  BY <2>2
<1>13. Fits(Calls[i])
  BY <1>9, <1>10, <1>11, <1>12
<1> QED
  BY <1>13 DEF Fits

-----------------------------------------------------------------------------
(***************************************************************************)
(* The invariant of boot: those of its parts, and between them             *)
(*   - nothing is mapped before the allocator has its regions,             *)
(*   - what a call has asked for is still asked for,                       *)
(*   - every table is a page the allocator gave for tables,                *)
(*   - every address moves at its own stage.                               *)
(***************************************************************************)
Setup == D!Discovering \/ stage = "regions"

Fresh ==
  /\ mem = [p \in {RootTable} |-> [i \in 0 .. R - 1 |-> TP!Invalid]]
  /\ stack = <<>> /\ count = 0
  /\ want = [v \in 0 .. TP!Space - 1 |-> TP!Unmapped]

\* At which call boot is.
AtCall ==
  /\ call \in 1 .. 7 + NRegions /\ next \in Nat
  /\ cur.mode # "New"
  /\ Setup => call = 1 /\ Fresh
  /\ stage = "regions" => panicked = FALSE
  /\ MmuOn => Tables!Idle /\ call > Len(Calls)

\* The calls made are in force.
Asked ==
  \A i \in 1 .. Len(Calls) : i < call =>
    \A u \in Tables!PagesOf(Calls[i]) :
      want[u % Tables!Space] = Tables!Wanted(Calls[i], u % Tables!Space)

TablesGiven == DOMAIN mem \subseteq {RootTable} \cup Given

Moved(a, stages) == IF stage \in stages THEN a + KernelBase ELSE a

Addresses ==
  /\ base = [d \in Device |-> Moved(device[d].base, {"devices", "main"})]
  /\ tree = Moved(Fdt.base, {"devices", "main"})
  /\ l0 = Moved(RootTable * PageSize, {"manager", "devices", "main"})
  /\ code = Moved(0, {"main"})
  /\ sp = Moved(0, {"main"})

BootInv ==
  /\ DiscoverInv
  /\ PP!IInv
  /\ TP!IInv
  /\ AtCall /\ Asked /\ TablesGiven /\ Addresses

\* What a step that leaves the allocator alone leaves alone.
LEMMA PhysStays ==
  ASSUME PP!IInv, UNCHANGED physVars
  PROVE  PP!IInv' /\ FreeFrames' = FreeFrames /\ Given' = Given
<1>1. UNCHANGED PP!vars
  BY DEF physVars, PP!vars
<1>2. PP!IInv'
  BY <1>1, PP!NextKeepsIInv, PhysAssumptions
<1>3. Phys!FreePages' = Phys!FreePages /\ Given' = Given
  BY DEF physVars, Phys!FreePages, Phys!PageAddr, Phys!HasBitmap, Phys!Pages, Given
<1> QED
  BY <1>2, <1>3 DEF FreeFrames

LEMMA TablesStay ==
  ASSUME TP!IInv, UNCHANGED tableVars, FreeFrames' \subseteq FreeFrames
  PROVE  TP!IInv'
<1>1. UNCHANGED <<mem, stack, cur, want, count, panicked>>
  BY DEF tableVars
<1> QED
  BY <1>1, TP!OthersTakeKeeps, TablesAssumptions

\* Pages that are free are pages of RAM.
LEMMA FreeInRam ==
  ASSUME PP!IInv
  PROVE  FreeFrames \subseteq {FrameOf(p) : p \in Phys!Page}
<1>1. PP!FreePages \subseteq PP!Page
  BY PP!FreePagesArePages, PhysAssumptions DEF PP!IInv
<1> QED
  BY <1>1, SameLayout DEF FreeFrames

\* The calls stay as they are.
LEMMA CallsStay ==
  ASSUME UNCHANGED device
  PROVE  Calls' = Calls
  BY DEF Calls

LEMMA AskedStays ==
  ASSUME Asked, UNCHANGED <<device, want, call>>
  PROVE  Asked'
<1>1. Calls' = Calls
  BY CallsStay
<1>2. \A q, v : Tables!Wanted(q, v)' = Tables!Wanted(q, v)
  OBVIOUS
<1> QED
  BY <1>1 DEF Asked

-----------------------------------------------------------------------------
LEMMA InitBootInv == Init => BootInv
<1> SUFFICES ASSUME Init PROVE BootInv
  OBVIOUS
<1>1. DiscoverInv
  BY DiscoverInit DEF Init
<1>2. PP!IInv
  BY PP!InitIInv, PhysAssumptions, SameInit DEF Init
<1>3. /\ Fresh /\ panicked = FALSE /\ stage = "fdt" /\ call = 1 /\ cur.mode = "Id"
      /\ base = [d \in Device |-> device[d].base] /\ tree = Fdt.base
      /\ l0 = RootTable * PageSize /\ code = 0 /\ sp = 0
      /\ next = FrameOf(Shift(Text, KernelBase).base)
  BY SameGeometry DEF Init, Fresh, D!Init, Call, Tables!Invalid, TP!Invalid,
                      Tables!NoAttr, TP!NoAttr
<1>4. TP!IInv
  BY <1>2, <1>3, FreeInRam, TP!NoCallsIInv, TablesAssumptions DEF Fresh, TP!NoCalls
<1>5. next \in Nat
  <2>1. next = (Text.base + KernelBase) \div PageSize
    BY <1>3 DEF Shift, FrameOf
  <2>2. Text.base + KernelBase \in Nat
    BY SpansAre, Sizes
  <2> QED  BY <2>1, <2>2, Sizes, DivLaw
<1>6. AtCall
  BY <1>3, <1>5, BankAssumption DEF AtCall, MmuOn
<1>7. Asked
  BY <1>3, CallsAre DEF Asked
<1>8. TablesGiven
  BY <1>3 DEF TablesGiven, Fresh
<1>9. Addresses
  BY <1>3 DEF Addresses, Moved
<1> QED
  BY <1>1, <1>2, <1>4, <1>6, <1>7, <1>8, <1>9 DEF BootInv

\* A step of Discover.
LEMMA FindKeeps ==
  ASSUME BootInv, Find
  PROVE  BootInv'
<1>1. /\ D!Next /\ base' = [d \in Device |-> device'[d].base]
      /\ UNCHANGED <<physVars, mem, stack, cur, want, count, call, next, tree, l0, code, sp>>
  BY DEF Find
<1>2. DiscoverInv'
  BY <1>1, DiscoverKeeps DEF BootInv
<1>3. PP!IInv' /\ FreeFrames' = FreeFrames /\ Given' = Given
  BY <1>1, PhysStays DEF BootInv
<1>4. /\ D!Discovering /\ panicked = FALSE /\ panicked' \in BOOLEAN
      /\ stage' \in {"fdt", "nodes", "uart", "gic", "cells", "banks", "regions"}
      /\ stage' = "regions" => panicked' = FALSE
  <2>1. TP!IInv => panicked \in BOOLEAN
    BY DEF TP!IInv, TP!Shape
  <2>2. panicked = FALSE
    BY <1>1, <2>1 DEF BootInv, D!Next
  <2> QED
    BY <1>1, <2>2 DEF D!Next, D!ReadFdt, D!FindNodes, D!ReadUart, D!ReadGic, D!ReadCells,
           D!ReadBank, D!EndBanks, D!Proceed, D!Discovering
<1>5. TP!IInv'
  <2>1. TP!StackOk(mem, stack') /\ TP!Left(stack') = TP!Left(stack)
    BY <1>1 DEF BootInv, TP!IInv
  <2> QED
    BY <1>1, <1>3, <1>4, <2>1, TP!StackKeeps, TablesAssumptions DEF BootInv
<1>6. ~MmuOn' /\ stage' \notin {"devices", "main", "manager"}
  BY <1>4 DEF MmuOn
<1>7. Fresh' /\ call' = 1
  BY <1>1, <1>4 DEF BootInv, AtCall, Setup, Fresh
<1>8. AtCall'
  BY <1>1, <1>4, <1>6, <1>7 DEF BootInv, AtCall
<1>9. Asked'
  BY <1>7, CallsAre DEF Asked
<1>10. TablesGiven'
  BY <1>1, <1>3 DEF BootInv, TablesGiven
<1>11. Addresses'
  BY <1>1, <1>4, <1>6 DEF BootInv, Addresses, Moved, D!Discovering
<1> QED
  BY <1>2, <1>3, <1>5, <1>8, <1>9, <1>10, <1>11 DEF BootInv

\* PageAllocator::init takes up a region.
LEMMA InitRegionStepKeeps ==
  ASSUME BootInv, InitRegion
  PROVE  BootInv'
<1>1. /\ stage = "regions" /\ PP!InitRegion /\ stage' \in {"regions", "map"}
      /\ UNCHANGED <<tableVars, call, next, highVars>>
  BY SameInit DEF InitRegion
<1>2. PP!IInv'
  BY <1>1, PP!InitRegionKeeps, PhysAssumptions DEF BootInv
<1>3. DiscoverInv'
  BY <1>1, DiscoverStays DEF BootInv, highVars, D!Discovering
<1>4. Fresh /\ call = 1 /\ panicked = FALSE
  BY <1>1 DEF BootInv, AtCall, Setup
<1>5. Fresh' /\ call' = 1 /\ panicked' = FALSE
  BY <1>1, <1>4 DEF Fresh, tableVars
<1>6. TP!NoCalls'
  BY <1>5 DEF TP!NoCalls, Fresh
<1>7. (PP!IInv => FreeFrames \subseteq {FrameOf(p) : p \in Phys!Page})'
  BY FreeInRam, PTL
<1>8. (TP!NoCalls /\ FreeFrames \subseteq {FrameOf(p) : p \in Phys!Page} => TP!IInv)'
  BY TP!NoCallsIInv, TablesAssumptions, PTL
<1>9. TP!IInv'
  BY <1>2, <1>6, <1>7, <1>8
<1>10. AtCall'
  BY <1>1, <1>5 DEF BootInv, AtCall, MmuOn, tableVars
<1>11. Asked'
  BY <1>5, CallsAre DEF Asked
<1>12. held' = held /\ Given' = Given
  BY <1>1 DEF PP!InitRegion, Given
<1>13. TablesGiven'
  BY <1>1, <1>12 DEF BootInv, TablesGiven, tableVars
<1>14. Addresses'
  BY <1>1 DEF BootInv, Addresses, Moved, highVars, foundVars
<1> QED
  BY <1>2, <1>3, <1>9, <1>10, <1>11, <1>13, <1>14 DEF BootInv

\* One reserve_page_at takes at most a page.
LEMMA ReserveTakes ==
  ASSUME PP!IInv, NEW a \in Nat, Phys!ReservePageAt(a)
  PROVE  PP!IInv' /\ FreeFrames' \subseteq FreeFrames /\ Given' = Given
<1>1. PP!ReservePageAt(a)
  BY SameReserve
<1>2. PP!IInv'
  BY <1>1, PP!ReserveKeeps, PhysAssumptions
<1>3. \/ \E p \in PP!FreePages : PP!Abstract!Withdraw(p)
      \/ UNCHANGED PP!Abstract!vars
  BY <1>1, PP!ReserveRefines, PhysAssumptions
<1>4. PP!FreePages' \subseteq PP!FreePages /\ held' = held
  BY <1>3 DEF PP!Abstract!Withdraw, PP!Abstract!vars
<1>5. Phys!FreePages' \subseteq Phys!FreePages
  <2>1. Phys!FreePages = PP!FreePages
    BY SameLayout
  <2>2. (Phys!FreePages = PP!FreePages)'
    BY <2>1, SameLayout, PTL
  <2> QED  BY <1>4, <2>1, <2>2
<1> QED
  BY <1>2, <1>4, <1>5 DEF FreeFrames, Given

LEMMA ReservePageKeeps ==
  ASSUME BootInv, ReservePage
  PROVE  BootInv'
<1>1. /\ stage = "map" /\ next' = next + 1
      /\ Phys!ReservePageAt(next * PageSize) \/ UNCHANGED physVars
      /\ UNCHANGED <<tableVars, stage, call, highVars>>
  BY DEF ReservePage, Mapping, NextPage
<1>2. next \in Nat /\ next * PageSize \in Nat
  <2>1. next \in Nat
    BY DEF BootInv, AtCall
  <2> QED  BY <2>1, Sizes, MulType
<1>3. PP!IInv' /\ FreeFrames' \subseteq FreeFrames /\ Given' = Given
  BY <1>1, <1>2, ReserveTakes, PhysStays DEF BootInv
<1>4. TP!IInv'
  BY <1>1, <1>3, TablesStay DEF BootInv
<1>5. DiscoverInv'
  BY <1>1, DiscoverStays DEF BootInv, highVars
<1>6. ~MmuOn' /\ ~Setup'
  BY <1>1 DEF MmuOn, Setup, D!Discovering
<1>7. AtCall'
  BY <1>1, <1>2, <1>6 DEF BootInv, AtCall, tableVars
<1>8. Asked'
  BY <1>1, AskedStays DEF BootInv, tableVars, highVars, foundVars
<1>9. TablesGiven'
  BY <1>1, <1>3 DEF BootInv, TablesGiven, tableVars
<1>10. Addresses'
  BY <1>1 DEF BootInv, Addresses, Moved, highVars, foundVars
<1> QED
  BY <1>3, <1>4, <1>5, <1>7, <1>8, <1>9, <1>10 DEF BootInv

\* A new call asks for pages no earlier one asked for.
LEMMA AskedGrows ==
  ASSUME BootInv, ~D!Discovering, call <= Len(Calls), call' = call + 1, UNCHANGED device,
         Tables!Map(Calls[call])
  PROVE  Asked'
<1> DEFINE q == Calls[call]
           n == Len(Calls)
           v(u) == u % Tables!Space
<1>1. call \in 1 .. n /\ n \in Nat
  BY CallsAre, BankAssumption DEF BootInv, AtCall
<1>2. Calls' = Calls
  BY CallsStay
<1>3. ASSUME NEW i \in 1 .. n
      PROVE  /\ Calls[i].attr # Tables!NoAttr
             /\ Tables!Touched(Calls[i]) = Tables!PagesOf(Calls[i])
             /\ \A u \in Tables!PagesOf(Calls[i]) : v(u) \in 0 .. Tables!Space - 1
  <2>1. Tables!Callable(Calls[i]) /\ Calls[i].attr \in Attributes
    BY DevicesInHalf, CallsCallable DEF BootInv
  <2>2. /\ Tables!Touched(Calls[i]) = Tables!PagesOf(Calls[i])
        /\ Tables!FirstPage(Calls[i]) \in Nat /\ Tables!EndPage(Calls[i]) \in Nat
    BY <2>1, SameGeometry, TP!CallPages, TablesAssumptions
  <2>3. \A u \in Tables!PagesOf(Calls[i]) : u \in Nat
    BY <2>2 DEF Tables!PagesOf
  <2>4. \A u \in Nat : u % Tables!Space \in 0 .. Tables!Space - 1
    <3>1. Tables!Space \in Nat \ {0}
      BY Sizes
    <3> QED  BY <3>1, DivLaw
  <2> QED  BY <2>1, <2>2, <2>3, <2>4 DEF Attributes, Tables!NoAttr
<1>4. /\ \A u \in Tables!PagesOf(q) : want[v(u)] = Tables!Unmapped
      /\ want' = [w \in 0 .. Tables!Space - 1 |->
                    IF \E u \in Tables!Touched(q) : v(u) = w
                    THEN Tables!Wanted(q, w) ELSE want[w]]
  BY DEF Tables!Map
<1> HIDE DEF q, n
<1>5. ASSUME NEW i \in 1 .. n, i < call + 1, NEW u \in Tables!PagesOf(Calls[i])
      PROVE  want'[v(u)] = Tables!Wanted(Calls[i], v(u))
  <2>1. v(u) \in 0 .. Tables!Space - 1
    BY <1>3
  <2>2. CASE i = call
    <3>1. u \in Tables!Touched(q) /\ Calls[i] = q
      BY <1>3, <1>5, <2>2 DEF q
    <3> QED  BY <1>4, <2>1, <3>1
  <2>3. CASE i < call
    <3>1. want[v(u)] = Tables!Wanted(Calls[i], v(u))
      BY <1>5, <2>3 DEF BootInv, Asked, n
    <3>2. want[v(u)] # Tables!Unmapped
      <4>1. want[v(u)].attr = Calls[i].attr
        BY <3>1 DEF Tables!Wanted
      <4> QED  BY <1>3, <4>1 DEF Tables!Unmapped
    <3>3. ~ \E w \in Tables!Touched(q) : v(w) = v(u)
      <4>1. Tables!Touched(q) = Tables!PagesOf(q)
        BY <1>1, <1>3 DEF q
      <4> QED  BY <1>4, <3>2, <4>1
    <3> QED  BY <1>4, <2>1, <3>1, <3>3
  <2> QED  BY <1>1, <1>5, <2>2, <2>3
<1>6. \A i, w : Tables!Wanted(Calls[i], w)' = Tables!Wanted(Calls[i], w)
  BY <1>2 DEF Tables!Wanted
<1> QED
  BY <1>2, <1>5, <1>1 DEF Asked, n

LEMMA EnterMapKeeps ==
  ASSUME BootInv, EnterMap
  PROVE  BootInv'
<1>1. /\ stage = "map" /\ ~(call > Len(Calls)) /\ call' = call + 1
      /\ Tables!Map(Calls[call]) /\ UNCHANGED physVars /\ UNCHANGED <<stage, highVars>>
      /\ next' = IF call < Len(Calls) THEN Tables!FirstPage(Calls[call + 1]) ELSE 0
  BY DEF EnterMap, Mapped, Mapping
<1>2. /\ Len(Calls) = 6 + NRegions /\ NRegions \in Nat /\ call \in 1 .. Len(Calls)
      /\ ~D!Discovering
  BY <1>1, CallsAre, BankAssumption DEF BootInv, AtCall, D!Discovering
<1>3. \A i \in 1 .. Len(Calls) :
        /\ Tables!Callable(Calls[i]) /\ Calls[i].mode # "New"
        /\ Tables!FirstPage(Calls[i]) \in Nat
  <2>1. \A i \in 1 .. Len(Calls) :
          Tables!Callable(Calls[i]) /\ Calls[i].mode \in {"Id", "Direct"}
    BY <1>2, DevicesInHalf, CallsCallable DEF BootInv
  <2>2. \A q : Tables!Callable(q) => Tables!FirstPage(q) \in Nat
    BY SameGeometry, TP!CallPages, TablesAssumptions
  <2> QED  BY <2>1, <2>2
<1>4. PP!IInv' /\ FreeFrames' = FreeFrames /\ Given' = Given
  BY <1>1, PhysStays DEF BootInv
<1>5. TP!IInv'
  <2>1. TP!Callable(Calls[call]) /\ TP!Map(Calls[call])
    BY <1>1, <1>2, <1>3, SameGeometry, SameCalls
  <2> QED  BY <2>1, TP!MapKeeps, TablesAssumptions DEF BootInv
<1>6. DiscoverInv'
  BY <1>1, DiscoverStays DEF BootInv, highVars
<1>7. ~MmuOn' /\ ~Setup'
  BY <1>1 DEF MmuOn, Setup, D!Discovering
<1>8. AtCall'
  <2>1. next' \in Nat
    BY <1>1, <1>2, <1>3
  <2>2. cur'.mode # "New"
    BY <1>1, <1>2, <1>3 DEF Tables!Map
  <2>3. call' \in 1 .. 7 + NRegions
    BY <1>1, <1>2
  <2> QED  BY <1>1, <1>7, <2>1, <2>2, <2>3 DEF AtCall
<1>9. Asked'
  BY <1>1, <1>2, AskedGrows DEF highVars, foundVars
<1>10. TablesGiven'
  BY <1>1, <1>4 DEF BootInv, TablesGiven, Tables!Map
<1>11. Addresses'
  BY <1>1 DEF BootInv, Addresses, Moved, highVars, foundVars
<1> QED
  BY <1>4, <1>5, <1>6, <1>8, <1>9, <1>10, <1>11 DEF BootInv

-----------------------------------------------------------------------------
\* The page that map_l0 .. map_l3 call the first free one is the page the
\* allocator gives, and alloc_page does not fault.
LEMMA GivenPage ==
  ASSUME BootInv, Phys!AllocPage("tables"), Tables!NewTable
  PROVE  /\ PP!IInv'
         /\ DOMAIN mem' = DOMAIN mem \cup {Tables!Min(FreeFrames)}
         /\ Given \subseteq Given' /\ Tables!Min(FreeFrames) \in Given'
<1> DEFINE t == Tables!Min(FreeFrames)
<1>1. /\ t \in FreeFrames /\ FreeFrames' = FreeFrames \ {t}
      /\ DOMAIN mem' = DOMAIN mem \cup {t}
  <2>1. TP!NewTable
    BY SameTurns
  <2>2. /\ TP!Min(FreeFrames) \in FreeFrames
        /\ FreeFrames' = FreeFrames \ {TP!Min(FreeFrames)}
        /\ DOMAIN mem' = DOMAIN mem \cup {TP!Min(FreeFrames)}
    BY <2>1, TP!TablesAfter, TablesAssumptions DEF BootInv
  <2>3. TP!Min(FreeFrames) = t
    BY DEF TP!Min, Tables!Min
  <2> QED  BY <2>2, <2>3
<1> HIDE DEF t
<1>2. PP!Ready /\ (PP!Fault \/ PP!Gives("tables"))
  <2>1. PP!AllocPage("tables") /\ PP!IInv
    BY SameAllocPage DEF BootInv
  <2> QED  BY <2>1, PP!AllocPageGives, PhysAssumptions
<1>3. (Phys!FreePages = PP!FreePages)'
  BY SameLayout, PTL
<1>4. ~PP!Fault
  <2> SUFFICES ASSUME PP!Fault PROVE FALSE
    OBVIOUS
  <2>1. UNCHANGED <<inited, used, held>>
    BY DEF PP!Fault
  <2>2. PP!FreePages' = PP!FreePages
    BY <2>1, PP!StutterRefines, PhysAssumptions DEF PP!Abstract!vars
  <2>3. FreeFrames' = FreeFrames
    BY <1>3, <2>2, SameLayout DEF FreeFrames
  <2> QED  BY <1>1, <2>3
<1>5. PP!IInv'
  BY <1>2, <1>4, PP!GivesKeeps, PhysAssumptions DEF BootInv
<1>6. PICK p \in PP!FreePages : PP!Abstract!Acquire("tables", p)
  BY <1>2, <1>4, PP!GivesRefines, PhysAssumptions DEF BootInv
<1>7. /\ PP!FreePages' = PP!FreePages \ {p}
      /\ held' = [held EXCEPT !["tables"] = @ \cup {p}]
  BY <1>6 DEF PP!Abstract!Acquire
<1>8. held'["tables"] = held["tables"] \cup {p}
  <2>1. held \in [{"tables"} -> SUBSET PP!Page]
    BY DEF BootInv, PP!IInv, PP!TypeOK
  <2> QED  BY <1>7, <2>1
<1>9. Given' = Given \cup {FrameOf(p)}
  BY <1>8 DEF Given, FrameOf
<1>10. FrameOf(p) = t
  <2>1. p \in Phys!FreePages /\ Phys!FreePages' = Phys!FreePages \ {p}
    BY <1>3, <1>6, <1>7, SameLayout
  <2>2. \A q \in Phys!FreePages : FrameOf(q) = FrameOf(p) => q = p
    <3>1. Phys!FreePages \subseteq Phys!Page
      BY PP!FreePagesArePages, PhysAssumptions, SameLayout DEF BootInv, PP!IInv
    <3> QED  BY <2>1, <3>1, PageFrames
  <2>3. FrameOf(p) \in FreeFrames /\ FrameOf(p) \notin FreeFrames'
    BY <2>1, <2>2 DEF FreeFrames, FrameOf
  <2> QED  BY <1>1, <2>3
<1> QED
  BY <1>1, <1>5, <1>9, <1>10 DEF t

LEMMA NewTableStepKeeps ==
  ASSUME BootInv, KernelIntact', Phys!AllocPage("tables"), Tables!NewTable
  PROVE  TP!IInv'
<1> DEFINE t == Tables!Min(FreeFrames)
<1>1. t # RootTable
  <2>1. t \in Written'
    BY GivenPage DEF Written
  <2>2. RootTable \in FramesOf(Data)
    BY ImageAssumption
  <2> QED  BY <2>1, <2>2 DEF KernelIntact, FramesOf, FrameOf
<1>2. TP!RootSpared
  BY <1>1 DEF TP!RootSpared, TP!Min, Tables!Min
<1>3. TP!CleanRam
  BY DEF TP!CleanRam, TP!CleanRow, TP!Invalid, TP!NoAttr
<1>4. TP!NewTable
  BY SameTurns
<1> QED
  BY <1>2, <1>3, <1>4, TP!NewTableKeeps, TablesAssumptions DEF BootInv

LEMMA MapStepKeeps ==
  ASSUME BootInv, KernelIntact', MapStep
  PROVE  BootInv'
<1>1. stage = "map" /\ UNCHANGED <<stage, call, next, highVars>>
  BY DEF MapStep
<1>2. /\ PP!IInv' /\ TP!IInv' /\ TablesGiven'
      /\ UNCHANGED <<cur, want, count>>
  <2>1. CASE Phys!AllocPage("tables") /\ Tables!NewTable
    <3>1. PP!IInv' /\ TP!IInv'
      BY <2>1, GivenPage, NewTableStepKeeps
    <3>2. TablesGiven'
      BY <2>1, GivenPage DEF BootInv, TablesGiven
    <3> QED  BY <2>1, <3>1, <3>2 DEF Tables!NewTable
  <2>2. CASE /\ UNCHANGED physVars
             /\ Tables!MapBlock \/ Tables!FollowEntry \/ Tables!MapPage
                  \/ Tables!Panic \/ Tables!Return
    <3>1. PP!IInv' /\ FreeFrames' = FreeFrames /\ Given' = Given
      BY <2>2, PhysStays DEF BootInv
    <3>2. cur.mode # "New" /\ TP!IInv
      BY DEF BootInv, AtCall
    <3>3. TP!MapBlock \/ TP!FollowEntry \/ TP!MapPage \/ TP!Panic \/ TP!Return
      BY <2>2, SameTurns
    <3>4. TP!IInv'
      BY <3>2, <3>3, TP!MapBlockKeeps, TP!FollowKeeps, TP!MapPageKeeps, TP!PanicKeeps,
         TP!ReturnKeeps, TablesAssumptions
    <3>5. DOMAIN mem' = DOMAIN mem
      <4>1. CASE TP!MapBlock \/ TP!MapPage
        BY <3>2, <4>1, TP!TablesAfter, TablesAssumptions
      <4>2. CASE TP!FollowEntry \/ TP!Panic \/ TP!Return
        BY <4>2 DEF TP!FollowEntry, TP!Panic, TP!Return
      <4> QED  BY <3>3, <4>1, <4>2
    <3>6. UNCHANGED <<cur, want, count>>
      BY <3>3 DEF TP!MapBlock, TP!FollowEntry, TP!MapPage, TP!Panic, TP!Return
    <3> QED  BY <3>1, <3>4, <3>5, <3>6 DEF BootInv, TablesGiven
  <2> QED  BY <2>1, <2>2 DEF MapStep
<1>3. DiscoverInv'
  BY <1>1, DiscoverStays DEF BootInv, highVars
<1>4. ~MmuOn' /\ ~Setup'
  BY <1>1 DEF MmuOn, Setup, D!Discovering
<1>5. AtCall'
  BY <1>1, <1>2, <1>4 DEF BootInv, AtCall
<1>6. Asked'
  BY <1>1, <1>2, AskedStays DEF BootInv, highVars, foundVars
<1>7. Addresses'
  BY <1>1 DEF BootInv, Addresses, Moved, highVars, foundVars
<1> QED
  BY <1>2, <1>3, <1>5, <1>6, <1>7 DEF BootInv

\* From the MMU on, the tables stay as they are, and the pointers move.
LEMMA HigherHalfKeeps ==
  ASSUME BootInv, EnableMmu \/ RelocateManager \/ RelocateDevices \/ EnterMain
  PROVE  BootInv'
<1>1. /\ UNCHANGED <<tableVars, call, next, foundVars>>
      /\ stage \notin {"fdt", "nodes", "uart", "gic", "cells", "banks", "regions"}
      /\ stage' \in {"mmu", "manager", "devices", "main"}
  BY DEF EnableMmu, RelocateManager, RelocateDevices, EnterMain, Mapped, Mapping, highVars
<1>2. PP!IInv' /\ FreeFrames' = FreeFrames /\ Given' = Given
  <2>1. CASE RelocateManager
    <3>1. PP!Relocate
      BY <2>1, SameInit DEF RelocateManager
    <3>2. PP!IInv'
      BY <3>1, PP!RelocateKeeps, PhysAssumptions DEF BootInv
    <3>3. UNCHANGED <<inited, used, held>>
      BY <3>1 DEF PP!Relocate
    <3>4. Phys!FreePages' = Phys!FreePages
      BY <3>3 DEF Phys!FreePages, Phys!PageAddr, Phys!HasBitmap, Phys!Pages
    <3> QED  BY <3>2, <3>3, <3>4 DEF FreeFrames, Given
  <2>2. CASE EnableMmu \/ RelocateDevices \/ EnterMain
    BY <2>2, PhysStays DEF BootInv, EnableMmu, RelocateDevices, EnterMain
  <2> QED  BY <2>1, <2>2
<1>3. TP!IInv'
  BY <1>1, <1>2, TablesStay DEF BootInv
<1>4. DiscoverInv' /\ ~Setup'
  BY <1>1, DiscoverStays DEF BootInv, D!Discovering, Setup
<1>5. Calls' = Calls
  BY <1>1, CallsStay DEF foundVars
<1>6. Tables!Idle' /\ call' > Len(Calls')
  <2>1. Tables!Idle /\ call > Len(Calls)
    BY DEF BootInv, AtCall, MmuOn, EnableMmu, Mapped, Mapping, RelocateManager,
           RelocateDevices, EnterMain
  <2> QED  BY <1>1, <1>5, <2>1 DEF Tables!Idle, tableVars
<1>7. AtCall'
  BY <1>1, <1>4, <1>6 DEF BootInv, AtCall, tableVars, Setup
<1>8. Asked'
  BY <1>1, AskedStays DEF BootInv, tableVars, foundVars
<1>9. TablesGiven'
  BY <1>1, <1>2 DEF BootInv, TablesGiven, tableVars
<1>10. Addresses'
  <2>1. KernelBase \in Nat
    BY Sizes
  <2>2. device' = device
    BY <1>1 DEF foundVars
  <2>3. /\ stage = "map" => tree = Fdt.base /\ l0 = RootTable * PageSize
                            /\ base = [d \in Device |-> device[d].base]
                            /\ code = 0 /\ sp = 0
    BY DEF BootInv, Addresses, Moved
  <2>4. CASE EnableMmu
    BY <2>2, <2>3, <2>4 DEF Addresses, Moved, EnableMmu, Mapped, Mapping, highVars
  <2>5. CASE RelocateManager
    BY <2>2, <2>5 DEF BootInv, Addresses, Moved, RelocateManager
  <2>6. CASE RelocateDevices
    BY <2>2, <2>6 DEF BootInv, Addresses, Moved, RelocateDevices
  <2>7. CASE EnterMain
    BY <2>2, <2>7 DEF BootInv, Addresses, Moved, EnterMain
  <2> QED  BY <2>4, <2>5, <2>6, <2>7
<1> QED
  BY <1>2, <1>3, <1>4, <1>7, <1>8, <1>9, <1>10 DEF BootInv

LEMMA NextKeepsBootInv == BootInv /\ KernelIntact' /\ [Next]_vars => BootInv'
<1> SUFFICES ASSUME BootInv, KernelIntact', [Next]_vars PROVE BootInv'
  OBVIOUS
<1>1. CASE UNCHANGED vars
  <2>1. /\ UNCHANGED physVars /\ UNCHANGED tableVars /\ UNCHANGED <<stage, call, next>>
        /\ UNCHANGED highVars
    BY <1>1 DEF vars
  <2>2. PP!IInv' /\ FreeFrames' = FreeFrames /\ Given' = Given
    BY <2>1, PhysStays DEF BootInv
  <2>3. TP!IInv'
    BY <2>1, <2>2, TablesStay DEF BootInv
  <2>4. DiscoverInv' /\ Calls' = Calls
    BY <2>1, DiscoverStays, CallsStay DEF BootInv, highVars, foundVars
  <2>5. AtCall'
    BY <2>1, <2>4 DEF BootInv, AtCall, Setup, Fresh, MmuOn, Tables!Idle, D!Discovering, tableVars
  <2>6. Asked'
    BY <2>1, AskedStays DEF BootInv, tableVars, highVars, foundVars
  <2>7. TablesGiven'
    BY <2>1, <2>2 DEF BootInv, TablesGiven, tableVars
  <2>8. Addresses'
    BY <2>1 DEF BootInv, Addresses, Moved, highVars, foundVars
  <2> QED  BY <2>2, <2>3, <2>4, <2>5, <2>6, <2>7, <2>8 DEF BootInv
<1>2. CASE Halt
  BY <1>1, <1>2 DEF Halt
<1> QED
  BY <1>1, <1>2, FindKeeps, InitRegionStepKeeps, ReservePageKeeps, EnterMapKeeps,
     MapStepKeeps, HigherHalfKeeps DEF Next, Progress

-----------------------------------------------------------------------------
\* Where a page and its images in the higher half are.
LEMMA Images ==
  ASSUME NEW f \in Nat, f < Tables!Half,
         NEW k \in {0, Tables!Space, Tables!Space + Tables!Half}
  PROVE  /\ k \in Nat
         /\ (f + k) % Tables!Space \in 0 .. Tables!Space - 1
         /\ ((f + k) % Tables!Space) % Tables!Half = f
         /\ k # Tables!Space + Tables!Half => (f + k) % Tables!Space = f
         /\ k = Tables!Space + Tables!Half => (f + k) % Tables!Space = f + Tables!Half
<1> DEFINE H == Tables!Half
           S == Tables!Space
<1>1. H \in Nat \ {0} /\ S = 2 * H
  BY Sizes
<1> HIDE DEF H, S
<1>2. \A a, r \in Nat : r < S /\ (a = r \/ a = S + r) => a % S = r
  <2> SUFFICES ASSUME NEW a \in Nat, NEW r \in Nat, r < S, a = r \/ a = S + r
               PROVE  a % S = r
    OBVIOUS
  <2>1. S \in Nat \ {0} /\ r \in 0 .. S - 1 /\ (a = 0 * S + r \/ a = 1 * S + r)
    BY <1>1
  <2> QED  BY <2>1, TP!ModIs, TablesAssumptions
<1>3. \A a \in Nat : a < H => a % H = a /\ (a + H) % H = a
  <2> SUFFICES ASSUME NEW a \in Nat, a < H PROVE a % H = a /\ (a + H) % H = a
    OBVIOUS
  <2>1. a \in 0 .. H - 1 /\ a = 0 * H + a /\ a + H = 1 * H + a /\ a + H \in Nat
    BY <1>1
  <2>2. a % H = a
    BY <1>1, <2>1, TP!ModIs, TablesAssumptions
  <2>3. (a + H) % H = a
    BY <1>1, <2>1, TP!ModIs, TablesAssumptions
  <2> QED  BY <2>2, <2>3
<1>4. k \in {0, S, S + H} /\ f < H
  BY DEF S, H
<1>5. k # S + H => (f + k) % S = f
  BY <1>1, <1>2, <1>4
<1>6. k = S + H => (f + k) % S = f + H
  <2>1. f + (S + H) = S + (f + H) /\ f + H \in Nat /\ f + H < S /\ f + (S + H) \in Nat
    BY <1>1, <1>4
  <2> QED  BY <2>1, <1>2
<1>7. ((f + k) % S) % H = f /\ (f + k) % S \in 0 .. S - 1
  BY <1>1, <1>3, <1>4, <1>5, <1>6
<1>8. k \in Nat
  BY <1>1, <1>4
<1> QED
  BY <1>5, <1>6, <1>7, <1>8 DEF S, H

\* Once the MMU is on, a page of a span that some call named is reached.
LEMMA Reached ==
  ASSUME BootInv, MmuOn, NEW s, NEW m \in Nat, InHalf(s, m), m <= Tables!Half,
         NEW k \in {0, Tables!Space, Tables!Space + Tables!Half},
         k + m <= Tables!Top - Tables!Cover[0],
         NEW mode \in {"Id", "Direct"}, NEW attr \in Attributes,
         NEW i \in 1 .. Len(Calls), Calls[i] = Call(Shift(s, k * PageSize), mode, attr),
         NEW f \in FramesOf(s)
  PROVE  LET t == Tables!Translate((f + k) % Tables!Space)
         IN t.addr = f /\ t.attr = attr
<1> DEFINE v == (f + k) % Tables!Space
           q == Calls[i]
           t == Tables!Translate(v)
<1>1. f \in Nat /\ f < Tables!Half
  <2>1. f \in Nat /\ f < m
    BY FramesIn
  <2> QED  BY <2>1, Sizes
<1>2. k \in Nat /\ v \in 0 .. Tables!Space - 1 /\ v % Tables!Half = f
  BY <1>1, Images
<1>3. q.mode = mode /\ q.attr = attr /\ f + k \in Tables!PagesOf(q)
  BY <1>2, CallOf
<1> HIDE DEF q
<1>4. i < call /\ Tables!Idle
  <2>1. call > Len(Calls) /\ Len(Calls) \in Nat /\ call \in Nat /\ Tables!Idle
    BY CallsAre, BankAssumption DEF BootInv, AtCall
  <2> QED  BY <2>1
<1>5. want[v] = Tables!Wanted(q, v)
  BY <1>3, <1>4 DEF BootInv, Asked, q
<1>6. want[v] = [addr |-> f, attr |-> attr]
  BY <1>2, <1>3, <1>5 DEF Tables!Wanted
<1> HIDE DEF v
<1>7. want[v] # Tables!Unmapped /\ f # Tables!Anywhere
  BY <1>1, <1>6 DEF Tables!Unmapped, Attributes, Tables!NoAttr, Tables!Anywhere
<1>8. TP!NoStrayMapping /\ TP!AllMappedWhenDone
  BY TP!IInvMapsAsked, TP!IInvMapsAll, TablesAssumptions DEF BootInv
<1>9. t # Tables!Unmapped /\ Tables!Matches(t, want[v])
  BY <1>2, <1>4, <1>7, <1>8, SameGeometry, SameCalls
     DEF TP!NoStrayMapping, TP!AllMappedWhenDone
<1> QED
  BY <1>6, <1>7, <1>9 DEF Tables!Matches, v

\* Rounding down keeps the order.
LEMMA DivMono ==
  ASSUME NEW a \in Nat, NEW b \in Nat, NEW P \in Nat \ {0}, a <= b
  PROVE  a \div P <= b \div P
<1> DEFINE x == a \div P
           y == b \div P
           u == x * P
           w == y * P
<1>1. x \in Nat /\ y \in Nat /\ u <= a /\ b < w + P /\ u \in Nat /\ w \in Nat
  BY DivDown, MulType
<1> HIDE DEF x, y
<1>2. y < x => w + P <= u
  BY <1>1, MulMono
<1> HIDE DEF u, w
<1>3. ~(y < x)
  BY <1>1, <1>2
<1>4. x <= y
  BY <1>1, <1>3
<1> QED
  BY <1>4 DEF x, y

\* The page of a byte of a span.
LEMMA PageOfByte ==
  ASSUME NEW s \in [base : Nat, size : Nat \ {0}], NEW a \in Bytes(s)
  PROVE  a \in Nat /\ FrameOf(a) \in FramesOf(s)
<1> DEFINE P == PageSize
           b == s.base
           e == s.base + s.size
           f == a \div P
<1>1. /\ b \in Nat /\ e \in Nat /\ P \in Nat \ {0} /\ a \in Nat /\ b <= a /\ a < e
  BY Sizes DEF Bytes
<1> HIDE DEF b, e, P
<1>3. f \in Nat /\ f * P <= a /\ f * P \in Nat
  BY <1>1, DivDown
<1>4. b \div P <= f /\ f <= e \div P /\ b \div P \in Nat /\ e \div P \in Nat
  BY <1>1, DivMono, DivDown
<1> HIDE DEF f
<1>6. f * P < e
  <2> DEFINE z == f * P
  <2> HIDE DEF z
  <2>1. z \in Nat /\ z <= a
    BY <1>3 DEF z
  <2>2. z < e
    BY <1>1, <2>1
  <2> QED  BY <2>2 DEF z
<1>7. f \in (b \div P) .. (e \div P)
  BY <1>3, <1>4
<1>8. FrameOf(a) = f /\ FrameOf(b) = b \div P /\ FrameOf(e) = e \div P
  BY DEF FrameOf, f, P
<1> QED
  BY <1>1, <1>6, <1>7, <1>8 DEF FramesOf, b, e, P

\* And of its image in the higher half.
LEMMA PageOfImage ==
  ASSUME NEW a \in Nat
  PROVE  FrameOf(a) \in Nat /\ FrameOf(a + KernelBase) = FrameOf(a) + Tables!Space
<1> DEFINE P == PageSize
           S == Tables!Space
<1>1. KernelBase = S * P /\ S \in Nat /\ P \in Nat \ {0}
  BY Sizes
<1> HIDE DEF P, S
<1>2. (a + KernelBase) \div P = (a \div P) + S /\ a \div P \in Nat
  BY <1>1, DivPlus, DivDown
<1> QED
  BY <1>2 DEF FrameOf, P, S

\* Both addresses of a byte in a page that was mapped in the higher half, or in
\* the lower one, arrive there.
LEMMA Arrival ==
  ASSUME BootInv, MmuOn, NEW s, InHalf(s, Tables!Half),
         NEW k \in {0, Tables!Space}, NEW attr \in Attributes,
         NEW i \in 1 .. Len(Calls), Calls[i] = Call(Shift(s, k * PageSize), "Id", attr),
         NEW a \in Nat, FrameOf(a) \in FramesOf(s), NEW x \in {a, a + KernelBase}
  PROVE  Arrives(x, a, attr)
<1> DEFINE f == FrameOf(a)
<1>1. f \in Nat /\ f < Tables!Half
  BY FramesIn, Sizes
<1>2. /\ Tables!Half \in Nat /\ k + Tables!Half <= Tables!Top - Tables!Cover[0]
      /\ k # Tables!Space + Tables!Half
      /\ k \in {0, Tables!Space, Tables!Space + Tables!Half}
  BY Sizes
<1>3. (f + k) % Tables!Space = f
  BY <1>1, <1>2, Images
<1>4. FrameOf(x) % Tables!Space = f
  <2>1. x = a \/ FrameOf(x) = f + Tables!Space
    BY PageOfImage
  <2>2. (f + 0) % Tables!Space = f /\ (f + Tables!Space) % Tables!Space = f
    <3>1. Tables!Space # Tables!Space + Tables!Half /\ 0 # Tables!Space + Tables!Half
      BY Sizes
    <3> QED  BY <1>1, <3>1, Images
  <2>3. f + 0 = f
    BY <1>1
  <2> QED  BY <2>1, <2>2, <2>3
<1>5. Tables!Translate(f).addr = f /\ Tables!Translate(f).attr = attr
  <2>1. Tables!Half <= Tables!Half /\ "Id" \in {"Id", "Direct"}
    BY <1>2
  <2> QED  BY <1>2, <1>3, <2>1, Reached
<1> QED
  BY <1>4, <1>5 DEF Arrives

LEMMA BootInvLosesNothing == BootInv => NothingLost
<1> SUFFICES ASSUME BootInv, MmuOn PROVE
      /\ \A p \in Bytes(Text) : Arrives(code + p, p, "NormalPRO")
      /\ \A p \in Bytes(Data) : Arrives(sp + p, p, "NormalPRW")
      /\ \A n \in 0 .. Fdt.size - 1 : Arrives(tree + n, Fdt.base + n, "NormalPRO")
      /\ \A d \in Device : \A n \in 0 .. device[d].size - 1 :
           Arrives(base[d] + n, device[d].base + n, "DevicePRW")
  BY DEF NothingLost
<1>1. /\ KernelBase \in Nat /\ Tables!Space \in Nat
      /\ "NormalPRO" \in Attributes /\ "NormalPRW" \in Attributes /\ "DevicePRW" \in Attributes
  BY Sizes DEF Attributes
<1>2. \A n \in 1 .. 6 : n \in 1 .. Len(Calls)
  BY CallsAre, BankAssumption
<1>3. ASSUME NEW s, InHalf(s, Tables!Half), NEW k \in {0, Tables!Space},
             NEW attr \in Attributes, NEW i \in 1 .. 6,
             Calls[i] = Call(Shift(s, k * PageSize), "Id", attr),
             NEW a \in Bytes(s)
      PROVE  Arrives(a, a, attr) /\ Arrives(a + KernelBase, a, attr)
  <2>1. a \in Nat /\ FrameOf(a) \in FramesOf(s)
    BY <1>3, PageOfByte DEF InHalf
  <2> QED  BY <1>2, <1>3, <2>1, Arrival
<1>4. ASSUME NEW p \in Bytes(Text) PROVE Arrives(code + p, p, "NormalPRO")
  <2>1. Arrives(p, p, "NormalPRO") /\ Arrives(p + KernelBase, p, "NormalPRO")
    BY <1>1, <1>3, CallsAre, ImageAssumption
  <2>2. code + p \in {p, p + KernelBase}
    <3>1. code \in {0, KernelBase}
      BY <1>1 DEF BootInv, Addresses, Moved
    <3>2. p \in Nat
      BY SpansAre, PageOfByte
    <3> QED  BY <1>1, <3>1, <3>2
  <2> QED  BY <2>1, <2>2
<1>5. ASSUME NEW p \in Bytes(Data) PROVE Arrives(sp + p, p, "NormalPRW")
  <2>1. Arrives(p, p, "NormalPRW") /\ Arrives(p + KernelBase, p, "NormalPRW")
    BY <1>1, <1>3, CallsAre, ImageAssumption
  <2>2. sp + p \in {p, p + KernelBase}
    <3>1. sp \in {0, KernelBase}
      BY <1>1 DEF BootInv, Addresses, Moved
    <3>2. p \in Nat
      BY SpansAre, PageOfByte
    <3> QED  BY <1>1, <3>1, <3>2
  <2> QED  BY <2>1, <2>2
<1>6. ASSUME NEW s \in [base : Nat, size : Nat \ {0}], NEW n \in 0 .. s.size - 1
      PROVE  /\ s.base + n \in Bytes(s)
             /\ (s.base + KernelBase) + n = (s.base + n) + KernelBase
  BY <1>1 DEF Bytes
<1>7. ASSUME NEW n \in 0 .. Fdt.size - 1
      PROVE  Arrives(tree + n, Fdt.base + n, "NormalPRO")
  <2> DEFINE a == Fdt.base + n
  <2>1. a \in Bytes(Fdt) /\ (Fdt.base + KernelBase) + n = a + KernelBase
    BY <1>6, SpansAre
  <2>2. Arrives(a, a, "NormalPRO") /\ Arrives(a + KernelBase, a, "NormalPRO")
    BY <1>1, <1>3, <2>1, CallsAre, ImageAssumption
  <2>3. tree = Fdt.base \/ tree = Fdt.base + KernelBase
    BY DEF BootInv, Addresses, Moved
  <2> QED  BY <2>1, <2>2, <2>3
<1>8. ASSUME NEW d \in Device, NEW n \in 0 .. device[d].size - 1
      PROVE  Arrives(base[d] + n, device[d].base + n, "DevicePRW")
  <2> DEFINE s == device[d]
             a == s.base + n
  <2>1. InHalf(s, Tables!Half)
    BY DevicesInHalf DEF BootInv, MmuOn, D!Discovering
  <2>2. s \in [base : Nat, size : Nat \ {0}]
    BY <2>1 DEF InHalf
  <2>3. a \in Bytes(s) /\ (s.base + KernelBase) + n = a + KernelBase
    BY <1>6, <2>2
  <2>4. PICK i \in 1 .. 6 : Calls[i] = Call(s, "Id", "DevicePRW")
    BY CallsAre DEF Device
  <2>5. Calls[i] = Call(Shift(s, 0 * PageSize), "Id", "DevicePRW")
    BY <2>1, <2>4, NotShifted
  <2> HIDE DEF s
  <2>6. Arrives(a, a, "DevicePRW") /\ Arrives(a + KernelBase, a, "DevicePRW")
    BY <1>1, <1>3, <2>1, <2>3, <2>5
  <2>7. base[d] = s.base \/ base[d] = s.base + KernelBase
    BY DEF BootInv, Addresses, Moved, s
  <2> QED  BY <2>3, <2>6, <2>7 DEF s
<1> QED
  BY <1>4, <1>5, <1>7, <1>8

LEMMA BootInvReachesTables == BootInv => TablesReachable
<1> SUFFICES ASSUME BootInv, MmuOn PROVE
      /\ Arrives(l0, RootTable * PageSize, "NormalPRW")
      /\ \A t \in DOMAIN mem \ {RootTable} :
           Arrives(PhyBase + t * PageSize, t * PageSize, "NormalPRW")
  BY DEF TablesReachable
<1>1. /\ KernelBase \in Nat /\ Tables!Space \in Nat /\ Tables!Half \in Nat
      /\ PageSize \in Nat \ {0} /\ NRegions \in Nat
      /\ PhyBase = (Tables!Space + Tables!Half) * PageSize
      /\ "NormalPRW" \in Attributes
  BY Sizes, BankAssumption DEF Attributes
<1>2. \A t \in Nat : t * PageSize \in Nat /\ FrameOf(t * PageSize) = t
  BY <1>1, MulType, DivMul DEF FrameOf
<1>3. Arrives(l0, RootTable * PageSize, "NormalPRW")
  <2> DEFINE a == RootTable * PageSize
  <2>1. RootTable \in Nat /\ RootTable \in FramesOf(Data) /\ InHalf(Data, Tables!Half)
    BY <1>1, FramesIn, ImageAssumption
  <2>2. a \in Nat /\ FrameOf(a) \in FramesOf(Data)
    BY <1>2, <2>1
  <2>3. l0 \in {a, a + KernelBase}
    BY DEF BootInv, Addresses, Moved
  <2>4. 2 \in 1 .. Len(Calls)
    BY <1>1, CallsAre
  <2> HIDE DEF a
  <2>5. Arrives(l0, a, "NormalPRW")
    BY <1>1, <2>1, <2>2, <2>3, <2>4, CallsAre, Arrival
  <2> QED  BY <2>5 DEF a
<1>4. ASSUME NEW t \in DOMAIN mem \ {RootTable}
      PROVE  Arrives(PhyBase + t * PageSize, t * PageSize, "NormalPRW")
  <2> DEFINE k == Tables!Space + Tables!Half
             m == Tables!Half - Tables!Cover[0]
  <2>1. PICK p \in held["tables"] : t = FrameOf(p)
    BY DEF BootInv, TablesGiven, Given
  <2>2. p \in Phys!Page
    <3>1. held \in [{"tables"} -> SUBSET PP!Page]
      BY DEF BootInv, PP!IInv, PP!TypeOK
    <3> QED  BY <2>1, <3>1, SameLayout
  <2>3. PICK r \in 1 .. NRegions : \E j \in 0 .. PP!Pages(r) - 1 : p = PP!PageAddr(r, j)
    BY <2>2, SameLayout DEF PP!Page, PP!Regions
  <2>4. p \in Nat /\ Span[r].base <= p /\ p < Span[r].base + Span[r].size
    BY <2>2, <2>3, PageFrames, PP!PageInRegion, PhysAssumptions DEF PP!Regions, PP!End
  <2>5. t \in FramesOf(Span[r])
    <3>1. p \in Bytes(Span[r]) /\ Span[r] \in [base : Nat, size : Nat \ {0}]
      BY <2>4, SpansAre DEF Bytes
    <3> QED  BY <2>1, <3>1, PageOfByte
  <2>6. t \in Nat /\ t < Tables!Half
    BY <2>1, <2>2, PageFrames, Sizes
  <2>7. FrameOf(PhyBase + t * PageSize) = t + k /\ FrameOf(t * PageSize) = t
    <3>1. PhyBase + t * PageSize = (t + k) * PageSize /\ t + k \in Nat
      BY <1>1, <2>6
    <3> QED  BY <1>2, <2>6, <3>1
  <2>8. /\ InHalf(Span[r], m) /\ m \in Nat /\ m <= Tables!Half
        /\ k + m <= Tables!Top - Tables!Cover[0]
        /\ k \in {0, Tables!Space, Tables!Space + Tables!Half}
    BY Sizes, BankAssumption
  <2> DEFINE i == 6 + r
  <2>9. i \in 1 .. Len(Calls)
    BY <1>1, CallsAre
  <2>11. Calls[i] = Call(Shift(Span[r], k * PageSize), "Direct", "NormalPRW")
    BY CallsAre
  <2> HIDE DEF k, m, i
  <2>10. LET u == Tables!Translate((t + k) % Tables!Space)
         IN u.addr = t /\ u.attr = "NormalPRW"
    <3>1. "Direct" \in {"Id", "Direct"} /\ "NormalPRW" \in Attributes
      BY <1>1
    <3> DEFINE s == Span[r]
    <3>2. InHalf(s, m) /\ t \in FramesOf(s)
          /\ Calls[i] = Call(Shift(s, k * PageSize), "Direct", "NormalPRW")
      BY <2>5, <2>8, <2>11
    <3> HIDE DEF s
    <3> QED  BY <2>8, <2>9, <3>1, <3>2, Reached
  <2> QED  BY <2>7, <2>10 DEF Arrives
<1> QED
  BY <1>3, <1>4

-----------------------------------------------------------------------------
\* A page of a span that starts a page starts with one of its bytes.
LEMMA PageStart ==
  ASSUME NEW s \in [base : Nat, size : Nat], s.base % PageSize = 0, NEW f \in FramesOf(s)
  PROVE  /\ f \in Nat /\ f * PageSize \in Nat
         /\ s.base <= f * PageSize /\ f * PageSize < s.base + s.size
<1> DEFINE P == PageSize
           b == s.base
           e == s.base + s.size
<1>2. b \in Nat /\ P \in Nat \ {0} /\ b % P = 0
  BY Sizes
<1>8. b \div P \in Nat /\ f \in (b \div P) .. FrameOf(e) /\ f * P < e
  BY <1>2, DivDown DEF FramesOf, FrameOf
<1>1. f \in Nat
  BY <1>8
<1>3. b \div P <= f /\ f * P < e
  BY <1>8
<1> HIDE DEF b, e, P
<1>4. b \div P \in Nat /\ b = (b \div P) * P
  BY <1>2, ModDiv
<1> DEFINE q == b \div P
<1> HIDE DEF q
<1>5. q \in Nat /\ b = q * P /\ q <= f
  BY <1>3, <1>4 DEF q
<1>6. q * P <= f * P
  <2>1. q < f => q * P + P <= f * P
    BY <1>1, <1>2, <1>5, MulMono
  <2>2. q * P \in Nat /\ f * P \in Nat
    BY <1>1, <1>2, <1>5, MulType
  <2> QED  BY <1>1, <1>2, <1>5, <2>1, <2>2
<1>7. f * P \in Nat
  BY <1>1, <1>2, MulType
<1> QED
  BY <1>1, <1>3, <1>5, <1>6, <1>7 DEF b, e, P

LEMMA FdtPage ==
  ASSUME NEW f \in FramesOf(Fdt)
  PROVE  /\ f * PageSize \in Nat
         /\ Fdt.base <= f * PageSize /\ f * PageSize < Fdt.base + Fdt.size
  BY PageStart, SpansAre, ImageAssumption

\* A page given for tables is none of the device tree's: the tree is a reserved
\* span of its bank, or in no bank.
LEMMA GivenAvoidsFdt == BootInv => Given \cap FramesOf(Fdt) = {}
<1> SUFFICES ASSUME BootInv, NEW p \in held["tables"], FrameOf(p) \in FramesOf(Fdt)
             PROVE  FALSE
  BY DEF Given
<1>1. p \in PP!Page /\ p \in Phys!Page
  <2>1. held \in [{"tables"} -> SUBSET PP!Page]
    BY DEF BootInv, PP!IInv, PP!TypeOK
  <2> QED  BY <2>1, SameLayout
<1>2. p \in Nat /\ Fdt.base <= p /\ p < Fdt.base + Fdt.size
  BY <1>1, PageFrames, FdtPage
<1>3. Fdt.base \in Nat /\ Fdt.size \in Nat \ {0} /\ PageSize \in Nat \ {0}
  BY SpansAre, Sizes
<1>4. PP!Overlap(PP!PageSpan(p), Fdt)
  <2>1. PP!PageSpan(p).base = p
    BY DEF PP!PageSpan
  <2> QED  BY <1>2, <1>3, <2>1 DEF PP!Overlap, PP!End
<1>5. CASE \E r \in 1 .. NRegions : PP!PartOf(Fdt, Span[r])
  <2>1. PP!HeldAvoidsReserved
    BY PP!IInvAvoidsReserved, PhysAssumptions DEF BootInv
  <2>2. Fdt \in ReservedSpans /\ Fdt.size > 0
    BY <1>3 DEF ReservedSpans
  <2> QED  BY <1>4, <1>5, <2>1, <2>2 DEF PP!HeldAvoidsReserved, PP!Regions
<1>6. CASE ~ \E r \in 1 .. NRegions : PP!PartOf(Fdt, Span[r])
  <2>1. PICK r \in 1 .. NRegions : \E j \in 0 .. PP!Pages(r) - 1 : p = PP!PageAddr(r, j)
    BY <1>1 DEF PP!Page, PP!Regions
  <2>2. Span[r].base <= p /\ p < Span[r].base + Span[r].size
    BY <1>2, <2>1, PP!PageInRegion, PhysAssumptions DEF PP!Regions, PP!End
  <2>3. ~PP!Overlap(Fdt, Span[r])
    BY <1>6, ImageAssumption, SameLayout
  <2>4. Span[r].base \in Nat /\ Span[r].size \in Nat
    BY SpansAre
  <2> QED  BY <1>2, <1>3, <2>2, <2>3, <2>4 DEF PP!Overlap, PP!End
<1> QED
  BY <1>5, <1>6

\* Nor is one of a bitmap's, as Region<Bootstrap>::init looks for a place where
\* the bitmap overlaps no reserved span.
LEMMA BitmapsAvoidFdt == BootInv => BitmapFrames \cap FramesOf(Fdt) = {}
<1> SUFFICES ASSUME BootInv, NEW r \in 1 .. inited, Phys!HasBitmap(r),
                    NEW f \in FramesOf(Phys!BitmapSpan(r, Phys!BitmapPlace[r])),
                    f \in FramesOf(Fdt)
             PROVE  FALSE
  BY DEF BitmapFrames
<1> DEFINE a == Phys!BitmapPlace[r]
           n == Phys!BitmapBytes(r)
           s == Phys!BitmapSpan(r, a)
<1>1. r \in 1 .. NRegions
  BY BankAssumption DEF BootInv, PP!IInv, PP!TypeOK
<1>8. a % PageSize = 0
  <2>1. PICK i \in 0 .. PP!Pages(r) : a = Span[r].base + i * PageSize
    <3>1. a \in Phys!BitmapPlaces[r]
      BY <1>1, PP!BitmapPlaceIsPlace, PhysAssumptions, SameLayout DEF PP!Regions
    <3>2. PICK i \in 0 .. Phys!Pages(r) : a = Phys!PageAddr(r, i)
      BY <1>1, <3>1 DEF Phys!BitmapPlaces, Phys!Regions
    <3>3. a = Span[r].base + i * PageSize /\ i \in 0 .. PP!Pages(r)
      BY <3>2 DEF Phys!PageAddr, Phys!Pages, PP!Pages
    <3> QED  BY <3>3
  <2> DEFINE b == Span[r].base
             P == PageSize
             q == b \div P
  <2>2. b \in Nat /\ P \in Nat \ {0} /\ b % P = 0 /\ i \in Nat /\ a = b + i * P
    <3>1. PP!Pages(r) \in Nat
      BY <1>1, PP!LayoutType, PhysAssumptions DEF PP!Regions
    <3> QED  BY <1>1, <2>1, <3>1, SpansAre, Sizes, BankAssumption
  <2> HIDE DEF b, P, a
  <2>3. q \in Nat /\ b = q * P
    BY <2>2, ModDiv
  <2> HIDE DEF q
  <2>4. a = (q + i) * P /\ q + i \in Nat
    BY <2>2, <2>3
  <2>5. a % P = 0
    BY <2>2, <2>4, DivMul
  <2> QED  BY <2>5 DEF P
<1>2. a \in Phys!BitmapPlaces[r] /\ a \in Nat /\ n \in Nat
  <2>1. PP!HasBitmap(r) /\ r \in PP!Regions
    BY <1>1, SameLayout DEF PP!Regions
  <2>2. PP!BitmapPlace[r] \in Nat
    BY <2>1, PP!BitmapPlaceIsPlace, PhysAssumptions
  <2>4. a \in Phys!BitmapPlaces[r]
    BY <2>1, PP!BitmapPlaceIsPlace, PhysAssumptions, SameLayout
  <2>5. a = PP!BitmapPlace[r] /\ n = PP!BitmapBytes(r)
    BY SameLayout
  <2>3. PP!BitmapBytes(r) \in Nat
    BY <2>1, PP!LayoutType, PhysAssumptions
  <2> QED  BY <2>2, <2>3, <2>4, <2>5
<1>3. ~Phys!Overlap(s, Fdt)
  <2>1. Fdt \in ReservedSpans
    BY DEF ReservedSpans
  <2> QED  BY <1>1, <1>2, <2>1 DEF Phys!BitmapPlaces, Phys!Regions
<1>4. s.base = a /\ s.size = n
  BY DEF Phys!BitmapSpan
<1> HIDE DEF s, a, n
<1>5. /\ Fdt.base \in Nat /\ Fdt.size \in Nat /\ f * PageSize \in Nat
      /\ Fdt.base <= f * PageSize /\ f * PageSize < Fdt.base + Fdt.size
  BY FdtPage, SpansAre
<1>7. a <= f * PageSize /\ f * PageSize < a + n
  <2>1. s \in [base : Nat, size : Nat] /\ s.base % PageSize = 0
    BY <1>2, <1>4, <1>8 DEF s, Phys!BitmapSpan
  <2>2. f \in FramesOf(s)
    BY DEF s, a
  <2> QED  BY <1>4, <2>1, <2>2, PageStart
<1> QED
  BY <1>2, <1>3, <1>4, <1>5, <1>7 DEF Phys!Overlap, Phys!End

LEMMA BootInvSparesFdt == BootInv => FdtIntact
<1> SUFFICES ASSUME BootInv PROVE Written \cap FramesOf(Fdt) = {}
  BY DEF FdtIntact
<1>1. DOMAIN mem \ {RootTable} \subseteq Given
  BY DEF BootInv, TablesGiven
<1> QED
  BY <1>1, GivenAvoidsFdt, BitmapsAvoidFdt DEF Written

-----------------------------------------------------------------------------
\* Boot works with the devices and the RAM that the device tree describes, or
\* stops before the allocator sees any other: for every device tree that was
\* written from a machine, whatever it leaves out (kernel_boot.cpp:41-91).
THEOREM MachineIsFound == Spec => []FindsTheMachine
<1>1. Init => DiscoverInv
  BY DiscoverInit DEF Init
<1>2. DiscoverInv /\ [Next]_vars => DiscoverInv'
  <2> SUFFICES ASSUME DiscoverInv, [Next]_vars PROVE DiscoverInv'
    OBVIOUS
  <2>1. CASE Find
    BY <2>1, DiscoverKeeps DEF Find
  <2>2. CASE UNCHANGED vars
    BY <2>2, DiscoverStays DEF vars, highVars
  <2>3. CASE InitRegion
    <3>1. UNCHANGED foundVars /\ stage = "regions" /\ stage' \in {"regions", "map"}
      BY <2>3 DEF InitRegion, highVars
    <3> QED  BY <3>1, DiscoverStays DEF D!Discovering
  <2>4. CASE ReservePage \/ EnterMap \/ MapStep
    BY <2>4, DiscoverStays DEF ReservePage, EnterMap, MapStep, highVars
  <2>5. CASE EnableMmu \/ RelocateManager \/ RelocateDevices \/ EnterMain
    <3>1. /\ UNCHANGED foundVars
          /\ stage \in {"map", "mmu", "manager", "devices"}
          /\ stage' \in {"mmu", "manager", "devices", "main"}
      BY <2>5 DEF EnableMmu, RelocateManager, RelocateDevices, EnterMain, Mapped, Mapping,
                  highVars
    <3> QED  BY <3>1, DiscoverStays DEF D!Discovering
  <2> QED
    BY <2>1, <2>2, <2>3, <2>4, <2>5 DEF Next, Progress, Halt
<1> QED
  BY <1>1, <1>2, DiscoverFinds, PTL DEF Spec

(***************************************************************************)
(* The kernel's span is passed to PageAllocator::init in link addresses,   *)
(* where it meets no bank, so nothing in boot keeps the allocator from     *)
(* giving pages of the kernel away: that it does not come to it is a fact  *)
(* of the machine and the image.  The theorems below are about the         *)
(* behaviours in which it does not.  In the others the root table may be   *)
(* written over, and then nothing is known of any translation.             *)
(***************************************************************************)
THEOREM BootInductive == Spec /\ []KernelIntact => []BootInv
<1>1. Init => BootInv
  BY InitBootInv
<1>2. BootInv /\ KernelIntact' /\ [Next]_vars => BootInv'
  BY NextKeepsBootInv
<1> QED
  BY <1>1, <1>2, PTL DEF Spec

\* As long as the kernel is left alone, so is the device tree: for every layout
\* of memory no bitmap and no page table is put over it (kernel_boot.cpp:95).
THEOREM FdtIsSpared == Spec /\ []KernelIntact => []FdtIntact
  BY BootInductive, BootInvSparesFdt, PTL

\* From the moment the MMU is on, through every stage of the relocation, code,
\* stack, data, device tree and devices are reached through the address in use,
\* with the right memory type (kernel_boot.cpp:101-165).
THEOREM BootLosesNothing == Spec /\ []KernelIntact => []NothingLost
  BY BootInductive, BootInvLosesNothing, PTL

\* And the page tables can still be edited, through l0_table and phy2virt
\* (page.cpp:101-103, 152-155, 268).
THEOREM TablesAreReached == Spec /\ []KernelIntact => []TablesReachable
  BY BootInductive, BootInvReachesTables, PTL
=============================================================================
