--------------------------- MODULE PhysMem_proofs ---------------------------
(***************************************************************************)
(* The page allocator hands out every page to at most one owner, and never *)
(* one that holds a bitmap or a reserved byte, for every memory layout     *)
(* that satisfies the assumptions of PhysMem.                              *)
(***************************************************************************)
EXTENDS PhysMem, WellFoundedInduction, TLAPS

-----------------------------------------------------------------------------
\* Arithmetic.

\* The quotient and its remainder.
LEMMA DivLaw ==
  ASSUME NEW a \in Nat, NEW P \in Nat \ {0}
  PROVE  /\ a \div P \in Nat
         /\ (a \div P) * P <= a
         /\ a < (a \div P) * P + P
  OBVIOUS

\* Multiples of P are at least P apart.
LEMMA MulMono ==
  ASSUME NEW a \in Int, NEW b \in Int, NEW P \in Nat \ {0}, a < b
  PROVE  a * P + P <= b * P
  OBVIOUS

\* Multiples of P are ordered as their quotients.
LEMMA MulLess ==
  ASSUME NEW a \in Int, NEW b \in Int, NEW P \in Nat \ {0}, a * P < b * P
  PROVE  a < b
  OBVIOUS

\* Dividing a multiple of P.
LEMMA DivMul ==
  ASSUME NEW a \in Nat, NEW P \in Nat \ {0}
  PROVE  (a * P) \div P = a
  OBVIOUS

\* A number without remainder is a multiple.
LEMMA ModDiv ==
  ASSUME NEW a \in Nat, NEW P \in Nat \ {0}, a % P = 0
  PROVE  a = (a \div P) * P
  OBVIOUS

\* A multiple has no remainder.
LEMMA MulRest ==
  ASSUME NEW a \in Nat, NEW P \in Nat \ {0}
  PROVE  (a * P) % P = 0
  OBVIOUS

\* Zero has none.
LEMMA ZeroRest ==
  ASSUME NEW a \in Nat, NEW P \in Nat \ {0}, a % P # 0
  PROVE  a > 0
  OBVIOUS

\* A product of naturals is a natural.
LEMMA MulType ==
  ASSUME NEW a \in Nat, NEW b \in Nat
  PROVE  a * b \in Nat
  OBVIOUS

\* Multiplication distributes over subtraction.
LEMMA MulDiff ==
  ASSUME NEW a \in Int, NEW b \in Int, NEW P \in Int
  PROVE  (a - b) * P = a * P - b * P
  OBVIOUS

\* A multiple and a remainder are no multiple.
LEMMA RestOfSum ==
  ASSUME NEW a \in Nat, NEW b \in Nat, NEW c \in Nat, NEW P \in Nat \ {0},
         a % P = 0, b % P # 0, c % P = 0
  PROVE  c # a + b
<1> DEFINE x == a \div P
           z == c \div P
<1>1. x \in Nat /\ z \in Nat /\ a = x * P /\ c = z * P
  BY DivLaw, ModDiv
<1> SUFFICES ASSUME c = a + b PROVE FALSE
  OBVIOUS
<1> HIDE DEF x, z
<1>2. b = (z - x) * P
  BY <1>1, MulDiff
<1>3. z >= x
  <2>1. CASE z < x
    <3>1. z * P + P <= x * P
      BY <1>1, <2>1, MulMono
    <3>2. z * P \in Nat /\ x * P \in Nat
      BY <1>1
    <3> QED
      BY <1>1, <3>1, <3>2
  <2> QED
    BY <1>1, <2>1
<1>4. z - x \in Nat
  BY <1>1, <1>3
<1> QED
  BY <1>2, <1>4, MulRest

\* Every inhabited set of naturals has a least element.
LEMMA LeastElement ==
  ASSUME NEW T \in SUBSET Nat, T # {}
  PROVE  \E x \in T : \A y \in T : x <= y
<1>1. PICK x \in T : \A y \in T : ~ (<<y, x>> \in OpToRel(<, Nat))
  BY WFMin, NatLessThanWellFounded
<1>2. \A y \in T : ~ (y < x)
  BY <1>1 DEF OpToRel
<1> QED
  BY <1>2

-----------------------------------------------------------------------------
\* The layout of memory.

\* The sizes derived from a region's span.
LEMMA LayoutType ==
  ASSUME NEW r \in Regions
  PROVE  /\ Span[r].base \in Nat /\ Span[r].size \in Nat
         /\ Pages(r) \in Nat
         /\ BitmapBytes(r) \in Nat
         /\ Pages(r) * PageSize <= Span[r].size
         /\ PageSize * BitsPerByte \in Nat \ {0}
<1>1. Span[r] \in PhySpan
  BY SpanAssumption
<1>2. Span[r].base \in Nat /\ Span[r].size \in Nat
  BY <1>1 DEF PhySpan
<1>3. PageSize * BitsPerByte \in Nat \ {0}
  BY SizeAssumption
<1>4. Pages(r) \in Nat /\ Pages(r) * PageSize <= Span[r].size
  BY <1>2, DivLaw, SizeAssumption DEF Pages
<1>5. BitmapBytes(r) \in Nat
  BY <1>2, <1>3, DivLaw DEF BitmapBytes
<1> QED
  BY <1>2, <1>3, <1>4, <1>5

\* Bits that alloc_page() scans belong to whole pages of the region.
LEMMA ScannedBitsArePages ==
  ASSUME NEW r \in Regions, NEW i \in BitsIn(BitmapBytes(r))
  PROVE  i \in 0 .. Pages(r) - 1
<1> DEFINE n == BitmapBytes(r)
           PB == PageSize * BitsPerByte
<1>1. n \in Nat /\ Span[r].size \in Nat /\ Pages(r) \in Nat /\ PB \in Nat \ {0}
  BY LayoutType
<1>2. n * PB <= Span[r].size
  BY <1>1, DivLaw DEF BitmapBytes
<1>3. n * PB = (n * BitsPerByte) * PageSize
  BY <1>1, SizeAssumption
<1>4. Span[r].size < Pages(r) * PageSize + PageSize
  BY <1>1, DivLaw, SizeAssumption DEF Pages
<1>5. n * BitsPerByte \in Nat
  BY <1>1, SizeAssumption, MulType
<1>6. (n * BitsPerByte) * PageSize < (Pages(r) + 1) * PageSize
  BY <1>1, <1>2, <1>3, <1>4, <1>5, SizeAssumption
<1>7. n * BitsPerByte < Pages(r) + 1
  BY <1>1, <1>5, <1>6, MulLess, SizeAssumption
<1> QED
  BY <1>1, <1>5, <1>7 DEF BitsIn

\* Pages of a region lie inside it.
LEMMA PageInRegion ==
  ASSUME NEW r \in Regions, NEW i \in 0 .. Pages(r) - 1
  PROVE  /\ PageAddr(r, i) \in Nat
         /\ PageAddr(r, i) >= Span[r].base
         /\ PageAddr(r, i) + PageSize <= End(Span[r])
         /\ PageAddr(r, i) < End(Span[r])
         /\ PageAddr(r, i) \in Page
<1>1. Pages(r) * PageSize <= Span[r].size /\ Pages(r) \in Nat
        /\ Span[r].base \in Nat /\ Span[r].size \in Nat
  BY LayoutType
<1>2. i * PageSize \in Nat /\ i \in Nat
  BY <1>1, MulType, SizeAssumption
<1>3. i * PageSize + PageSize <= Pages(r) * PageSize
  BY <1>1, <1>2, MulMono, SizeAssumption
<1>4. Pages(r) * PageSize \in Nat
  BY <1>1, MulType, SizeAssumption
<1>5. PageAddr(r, i) \in Page
  BY DEF Page
<1> QED
  BY <1>1, <1>2, <1>3, <1>4, <1>5, SizeAssumption DEF PageAddr, End

\* A page of one region is no page of another.
LEMMA PageInOneRegion ==
  ASSUME NEW q \in Regions, NEW r \in Regions, NEW i \in 0 .. Pages(r) - 1,
         Include(q, PageAddr(r, i))
  PROVE  q = r
<1>1. /\ PageAddr(r, i) >= Span[r].base /\ PageAddr(r, i) < End(Span[r])
      /\ PageAddr(r, i) \in Nat
  BY PageInRegion
<1>2. /\ Span[q].base \in Nat /\ Span[q].size \in Nat
      /\ Span[r].base \in Nat /\ Span[r].size \in Nat
  BY LayoutType
<1>3. CASE q # r
  <2>1. End(Span[q]) <= Span[r].base \/ End(Span[r]) <= Span[q].base
    BY <1>3, SpanAssumption
  <2> QED
    BY <1>1, <1>2, <2>1 DEF Include, End
<1> QED
  BY <1>3

\* The bit of a page determines it, and it determines its bit and region.
LEMMA PageAddrInjective ==
  ASSUME NEW q \in Regions, NEW j \in 0 .. Pages(q) - 1,
         NEW r \in Regions, NEW i \in 0 .. Pages(r) - 1,
         PageAddr(q, j) = PageAddr(r, i)
  PROVE  q = r /\ i = j
<1>1. Include(q, PageAddr(q, j))
  BY PageInRegion DEF Include
<1>2. q = r
  BY <1>1, PageInOneRegion
<1>3. Span[r].base \in Nat /\ i \in Nat /\ j \in Nat
  BY <1>2, LayoutType
<1>4. i * PageSize \in Nat /\ j * PageSize \in Nat
  BY <1>3, MulType, SizeAssumption
<1>5. i * PageSize = j * PageSize
  BY <1>2, <1>3, <1>4 DEF PageAddr
<1>6. i = j
  BY <1>3, <1>5, DivMul, SizeAssumption
<1> QED
  BY <1>2, <1>6

\* BitOf inverts PageAddr.
LEMMA BitOfPageAddr ==
  ASSUME NEW r \in Regions, NEW i \in 0 .. Pages(r) - 1
  PROVE  BitOf(r, PageAddr(r, i)) = i /\ Include(r, PageAddr(r, i))
<1>1. Span[r].base \in Nat /\ i \in Nat
  BY LayoutType
<1>2. i * PageSize \in Nat
  BY <1>1, MulType, SizeAssumption
<1>3. PageAddr(r, i) - Span[r].base = i * PageSize
  BY <1>1, <1>2 DEF PageAddr
<1>4. BitOf(r, PageAddr(r, i)) = i
  BY <1>1, <1>3, DivMul, SizeAssumption DEF BitOf
<1> QED
  BY <1>4, PageInRegion DEF Include

\* A page-aligned address whose page is part of a region is one of its pages.
LEMMA NamedPage ==
  ASSUME NEW r \in Regions, NEW addr \in Nat,
         PartOf(PageSpan(AlignDown(addr)), Span[r])
  PROVE  /\ BitOf(r, AlignDown(addr)) \in 0 .. Pages(r) - 1
         /\ AlignDown(addr) = PageAddr(r, BitOf(r, AlignDown(addr)))
<1> DEFINE k == addr \div PageSize
           b == Span[r].base \div PageSize
<1>1. Span[r].base \in Nat /\ Span[r].size \in Nat /\ Pages(r) \in Nat
  BY LayoutType
<1>2. k \in Nat /\ b \in Nat /\ AlignDown(addr) = k * PageSize
  BY <1>1, DivLaw, SizeAssumption DEF AlignDown
<1>3. Span[r].base = b * PageSize
  BY <1>1, ModDiv, SizeAssumption, SpanAssumption
<1> HIDE DEF k, b
<1>4. k * PageSize \in Nat /\ b * PageSize \in Nat
  BY <1>2, MulType, SizeAssumption
<1>5. /\ k * PageSize >= b * PageSize
      /\ k * PageSize + PageSize <= b * PageSize + Span[r].size
  BY <1>2, <1>3 DEF PartOf, PageSpan, End
<1>6. k >= b
  BY <1>2, <1>5, MulLess, SizeAssumption, <1>4
<1>7. k - b \in Nat
  BY <1>2, <1>6
<1>8. (k - b) * PageSize = k * PageSize - b * PageSize
  <2>1. k \in Int /\ b \in Int /\ PageSize \in Int
    BY <1>2, SizeAssumption
  <2> QED
    BY <2>1, MulDiff
<1>9. AlignDown(addr) - Span[r].base = (k - b) * PageSize
  BY <1>2, <1>3, <1>8
<1>10. BitOf(r, AlignDown(addr)) = k - b
  BY <1>7, <1>9, DivMul, SizeAssumption DEF BitOf
<1>11. AlignDown(addr) = PageAddr(r, k - b)
  BY <1>2, <1>3, <1>4, <1>8 DEF PageAddr
<1>12. Span[r].size < Pages(r) * PageSize + PageSize
  BY <1>1, DivLaw, SizeAssumption DEF Pages
<1>13. (k - b) * PageSize < Pages(r) * PageSize
  <2>1. (k - b) * PageSize + PageSize <= Span[r].size
    BY <1>1, <1>4, <1>5, <1>8, SizeAssumption
  <2>2. Pages(r) * PageSize \in Nat /\ (k - b) * PageSize \in Nat
    BY <1>1, <1>7, MulType, SizeAssumption
  <2> QED
    BY <1>1, <1>12, <2>1, <2>2, SizeAssumption
<1>14. k - b < Pages(r)
  BY <1>1, <1>7, <1>13, MulLess, SizeAssumption
<1> QED
  BY <1>1, <1>7, <1>10, <1>11, <1>14

\* The bit of a page is in the bitmap or in the byte after it.
LEMMA PageBitStored ==
  ASSUME NEW r \in Regions, NEW i \in 0 .. Pages(r) - 1
  PROVE  i \in Bits(r) /\ i \div BitsPerByte \in 0 .. BitmapBytes(r)
<1> DEFINE n == BitmapBytes(r)
           PB == PageSize * BitsPerByte
<1>1. /\ n \in Nat /\ Span[r].size \in Nat /\ Pages(r) \in Nat /\ i \in Nat
      /\ PB \in Nat \ {0} /\ Pages(r) * PageSize <= Span[r].size
  BY LayoutType
<1>2. Span[r].size < n * PB + PB
  BY <1>1, DivLaw DEF BitmapBytes
<1>3. n * PB + PB = ((n + 1) * BitsPerByte) * PageSize
  BY <1>1, SizeAssumption
<1>4. (n + 1) * BitsPerByte \in Nat
  BY <1>1, MulType, SizeAssumption
<1> HIDE DEF n, PB
<1>5. Pages(r) * PageSize < ((n + 1) * BitsPerByte) * PageSize
  <2>1. Pages(r) * PageSize \in Nat /\ n * PB \in Nat
    BY <1>1, MulType, SizeAssumption
  <2> QED
    BY <1>1, <1>2, <1>3, <2>1
<1>6. Pages(r) < (n + 1) * BitsPerByte
  BY <1>1, <1>4, <1>5, MulLess, SizeAssumption
<1>7. i < (n + 1) * BitsPerByte
  BY <1>1, <1>4, <1>6
<1>8. i \in Bits(r)
  BY <1>1, <1>4, <1>7 DEF Bits, BitsIn, n
<1>9. /\ i \div BitsPerByte \in Nat
      /\ (i \div BitsPerByte) * BitsPerByte <= i
  BY <1>1, DivLaw, SizeAssumption
<1>10. (i \div BitsPerByte) * BitsPerByte < (n + 1) * BitsPerByte
  <2>1. (i \div BitsPerByte) * BitsPerByte \in Nat
    BY <1>9, MulType, SizeAssumption
  <2> QED
    BY <1>1, <1>4, <1>7, <1>9, <2>1
<1>11. i \div BitsPerByte < n + 1
  BY <1>1, <1>9, <1>10, MulLess, SizeAssumption
<1> QED
  BY <1>1, <1>8, <1>9, <1>11 DEF n

\* A page that overlaps a span of its region has its bit among the span's:
\* reserve_pages rounds outwards at both ends.
LEMMA OverlapMarked ==
  ASSUME NEW r \in Regions, NEW i \in 0 .. Pages(r) - 1, NEW s \in PhySpan,
         s.size > 0, PartOf(s, Span[r]), Overlap(PageSpan(PageAddr(r, i)), s)
  PROVE  i \in PageBits(r, s)
<1> DEFINE p == PageAddr(r, i)
           k == Span[r].base \div PageSize + i
           lo == s.base \div PageSize
           hi == (End(s) + PageSize - 1) \div PageSize
<1>1. s.base \in Nat /\ s.size \in Nat /\ i \in Nat /\ p \in Nat
        /\ Span[r].base \in Nat
  BY LayoutType, PageInRegion DEF PhySpan
<1>2. p < End(s) /\ s.base < p + PageSize
  BY <1>1, SizeAssumption DEF Overlap, PageSpan, End
<1>3. k \in Nat /\ p = k * PageSize
  <2> DEFINE b == Span[r].base \div PageSize
  <2>1. b \in Nat /\ Span[r].base = b * PageSize
    BY <1>1, DivLaw, ModDiv, SizeAssumption, SpanAssumption
  <2> HIDE DEF b
  <2>2. b * PageSize + i * PageSize = (b + i) * PageSize
    BY <1>1, <2>1, SizeAssumption
  <2> QED
    BY <1>1, <2>1, <2>2 DEF PageAddr, b
<1>4. /\ lo \in Nat /\ lo * PageSize <= s.base /\ AlignDown(s.base) = lo * PageSize
  BY <1>1, DivLaw, SizeAssumption DEF AlignDown
<1>5. End(s) + PageSize - 1 \in Nat /\ End(s) \in Nat
  BY <1>1, SizeAssumption DEF End
<1>6. /\ hi \in Nat /\ End(s) + PageSize - 1 < hi * PageSize + PageSize
      /\ AlignUp(End(s)) = hi * PageSize
  BY <1>5, DivLaw, SizeAssumption DEF AlignUp
<1> HIDE DEF p, k, lo, hi
<1>7. lo * PageSize \in Nat /\ k * PageSize \in Nat /\ hi * PageSize \in Nat
  BY <1>3, <1>4, <1>6, MulType, SizeAssumption
<1>8. lo <= k
  <2>1. lo * PageSize < k * PageSize + PageSize
    BY <1>1, <1>2, <1>3, <1>4, <1>7, SizeAssumption
  <2>2. CASE k < lo
    <3>1. k * PageSize + PageSize <= lo * PageSize
      BY <1>3, <1>4, <2>2, MulMono, SizeAssumption
    <3> QED
      BY <1>7, <2>1, <3>1, SizeAssumption
  <2> QED
    BY <1>3, <1>4, <2>2
<1>9. lo * PageSize <= k * PageSize
  <2>1. CASE lo = k
    BY <1>7, <2>1
  <2>2. CASE lo < k
    <3>1. lo * PageSize + PageSize <= k * PageSize
      BY <1>3, <1>4, <2>2, MulMono, SizeAssumption
    <3> QED
      BY <1>7, <3>1, SizeAssumption
  <2> QED
    BY <1>3, <1>4, <1>8, <2>1, <2>2
<1>10. k * PageSize < hi * PageSize
  BY <1>1, <1>2, <1>3, <1>5, <1>6, <1>7, SizeAssumption
<1> QED
  BY <1>3, <1>4, <1>6, <1>9, <1>10, PageBitStored DEF PageBits, p

\* A page of one region overlaps no span of another.
LEMMA OverlapSameRegion ==
  ASSUME NEW q \in Regions, NEW r \in Regions, NEW i \in 0 .. Pages(r) - 1,
         NEW s \in PhySpan, s.size > 0, PartOf(s, Span[q]),
         Overlap(PageSpan(PageAddr(r, i)), s)
  PROVE  q = r
<1>1. /\ PageAddr(r, i) \in Nat /\ PageAddr(r, i) >= Span[r].base
      /\ PageAddr(r, i) + PageSize <= End(Span[r])
  BY PageInRegion
<1>2. /\ Span[q].base \in Nat /\ Span[q].size \in Nat
      /\ Span[r].base \in Nat /\ Span[r].size \in Nat
  BY LayoutType
<1>3. s.base \in Nat /\ s.size \in Nat
  BY DEF PhySpan
<1>4. CASE q # r
  <2>1. End(Span[q]) <= Span[r].base \/ End(Span[r]) <= Span[q].base
    BY <1>4, SpanAssumption
  <2> QED
    BY <1>1, <1>2, <1>3, <2>1, SizeAssumption
       DEF Overlap, PageSpan, PartOf, End
<1> QED
  BY <1>4

-----------------------------------------------------------------------------
\* Where the bitmaps are.

\* The bitmap of a region that has one lies inside the region, on no reserved
\* span.
LEMMA BitmapPlaceIsPlace ==
  ASSUME NEW r \in Regions, HasBitmap(r)
  PROVE  /\ BitmapPlace[r] \in Nat /\ BitmapPlace[r] \in BitmapPlaces[r]
         /\ PartOf(BitmapSpan(r, BitmapPlace[r]), Span[r])
         /\ BitmapSpan(r, BitmapPlace[r]) \in PhySpan
<1>1. Span[r].base \in Nat /\ Pages(r) \in Nat /\ BitmapBytes(r) \in Nat
  BY LayoutType
<1>2. \A i \in 0 .. Pages(r) : PageAddr(r, i) \in Nat
  <2> TAKE i \in 0 .. Pages(r)
  <2>1. i * PageSize \in Nat
    BY <1>1, MulType, SizeAssumption
  <2> QED
    BY <1>1, <2>1 DEF PageAddr
<1>3. BitmapPlaces[r] \in SUBSET Nat /\ BitmapPlaces[r] # {}
  BY <1>2 DEF BitmapPlaces, HasBitmap
<1>4. \E a \in BitmapPlaces[r] : \A b \in BitmapPlaces[r] : a <= b
  BY <1>3, LeastElement
<1>5. BitmapPlace[r] \in BitmapPlaces[r]
  BY <1>4 DEF BitmapPlace
<1>6. PartOf(BitmapSpan(r, BitmapPlace[r]), Span[r])
  BY <1>5 DEF BitmapPlaces
<1> QED
  BY <1>1, <1>3, <1>5, <1>6 DEF BitmapSpan, PhySpan

\* Bit indices are naturals.
LEMMA BitsType ==
  ASSUME NEW r \in Regions
  PROVE  Bits(r) \subseteq Nat /\ FixedBits[r] \subseteq Bits(r)
<1>1. Bits(r) \subseteq Nat
  BY LayoutType, SizeAssumption DEF Bits, BitsIn
<1>2. \A s : PageBits(r, s) \subseteq Bits(r)
  BY DEF PageBits
<1> QED
  BY <1>1, <1>2 DEF FixedBits, ReservedBits

-----------------------------------------------------------------------------
\* What the calls read.

\* The first clear bit is one of the clear bits.
LEMMA FirstFreeIsFree ==
  ASSUME TypeOK, NEW r \in Regions, FreeBits(r) # {}
  PROVE  /\ FirstFree(r) \in FreeBits(r)
         /\ FirstFree(r) \in BitsIn(bitmapSize[r])
         /\ FirstFree(r) \in Nat
         /\ FirstFree(r) \notin used[r]
         /\ bitmap[r] # 0
<1>1. FreeBits(r) \in SUBSET Nat
  BY SizeAssumption DEF FreeBits, BitsIn, TypeOK
<1>2. \E i \in FreeBits(r) : \A j \in FreeBits(r) : i <= j
  BY <1>1, LeastElement
<1>3. FirstFree(r) \in FreeBits(r)
  BY <1>2 DEF FirstFree
<1> QED
  BY <1>1, <1>3 DEF FreeBits

\* The relocated pointer of a region without a bitmap reaches no mapped page.
LEMMA NullUnreachable ==
  ASSUME TypeOK, Pointers, NEW r \in 1 .. inited, ~HasBitmap(r), bitmap[r] # 0,
         NEW n \in 0 .. BitmapBytes(r)
  PROVE  ~Reachable(r, n)
<1>1. r \in Regions
  BY SizeAssumption DEF TypeOK, Regions
<1>2. phase = "Permanent" /\ bitmap[r] = KernelBase
  BY SizeAssumption DEF Pointers, TypeOK
<1>3. BitmapBytes(r) \in Nat
  BY <1>1, LayoutType
<1>4. bitmap[r] + n - KernelBase = n
  BY <1>2, <1>3, SizeAssumption
<1>5. AlignDown(n) \notin HighMapped
  BY <1>1, HighAssumption
<1> QED
  BY <1>2, <1>4, <1>5 DEF Reachable

\* A successful alloc_page() takes a whole page of a region with a bitmap.
LEMMA ScanFindsPage ==
  ASSUME TypeOK, Pointers, Ready, NEW r \in Regions, ~ScanFaults(r),
         FreeBits(r) # {}
  PROVE  HasBitmap(r) /\ FirstFree(r) \in 0 .. Pages(r) - 1
<1>1. r \in 1 .. inited
  BY DEF Ready, Regions
<1>2. FirstFree(r) \in Nat /\ bitmap[r] # 0
        /\ FirstFree(r) \in BitsIn(bitmapSize[r])
  BY FirstFreeIsFree
<1>3. HasBitmap(r)
  <2>1. 0 \in Scanned(r)
    <3>1. FirstFree(r) \div BitsPerByte \in Nat
      BY <1>2, DivLaw, SizeAssumption
    <3> QED
      BY <1>2, <3>1 DEF Scanned
  <2>2. 0 \in 0 .. BitmapBytes(r)
    BY LayoutType
  <2> QED
    BY <1>1, <1>2, <2>1, <2>2, NullUnreachable DEF ScanFaults
<1>4. bitmapSize[r] = BitmapBytes(r)
  BY <1>1, <1>3 DEF Pointers
<1> QED
  BY <1>2, <1>3, <1>4, ScannedBitsArePages

\* So does a call that names an address.
LEMMA NamedPageFound ==
  ASSUME TypeOK, Pointers, Ready, NEW r \in Regions, NEW addr \in Nat,
         Names(r, AlignDown(addr)),
         ~BitFaults(r, BitOf(r, AlignDown(addr)))
  PROVE  /\ HasBitmap(r)
         /\ BitOf(r, AlignDown(addr)) \in 0 .. Pages(r) - 1
         /\ BitOf(r, AlignDown(addr)) \in Nat
<1>1. r \in 1 .. inited
  BY DEF Ready, Regions
<1>2. bitmap[r] # 0 /\ PartOf(PageSpan(AlignDown(addr)), Span[r])
  BY DEF Names
<1>3. BitOf(r, AlignDown(addr)) \in 0 .. Pages(r) - 1
  BY <1>1, <1>2, NamedPage
<1>4. BitOf(r, AlignDown(addr)) \div BitsPerByte \in 0 .. BitmapBytes(r)
  BY <1>3, PageBitStored
<1>5. HasBitmap(r)
  BY <1>1, <1>2, <1>4, NullUnreachable DEF BitFaults
<1>6. BitOf(r, AlignDown(addr)) \in Nat
  BY <1>3, LayoutType
<1> QED
  BY <1>3, <1>5, <1>6

-----------------------------------------------------------------------------
\* The invariant holds at first, and every action preserves it.

\* At first no region is in place and nobody holds a page.
LEMMA InitIInv == Init => IInv
<1> SUFFICES ASSUME Init PROVE IInv
  OBVIOUS
<1> USE DEF Init
<1>1. TypeOK
  <2>1. held \in [Owner -> SUBSET Page]
    OBVIOUS
  <2>2. used \in [Regions -> SUBSET Nat]
    OBVIOUS
  <2>3. bitmap \in [Regions -> Nat] /\ bitmapSize \in [Regions -> Nat]
    OBVIOUS
  <2>4. inited \in 0 .. NRegions
    BY SizeAssumption
  <2>5. phase \in {"Bootstrap", "Permanent"} /\ fault \in BOOLEAN
    OBVIOUS
  <2> HIDE DEF Init
  <2> QED
    BY <2>1, <2>2, <2>3, <2>4, <2>5 DEF TypeOK
<1>2. 1 .. inited = {}
  OBVIOUS
<1>3. Pointers /\ FixedStaySet
  BY <1>2 DEF Pointers, FixedStaySet
<1>4. HeldAreMarked /\ OnePageOneOwner
  BY DEF HeldAreMarked, OnePageOneOwner
<1> QED
  BY <1>1, <1>3, <1>4 DEF IInv

\* The region initialised last keeps its fixed bits; nobody holds pages yet.
LEMMA InitRegionKeeps == IInv /\ InitRegion => IInv'
<1> SUFFICES ASSUME IInv, InitRegion PROVE IInv'
  OBVIOUS
<1> DEFINE r == inited + 1
<1> USE DEF IInv, InitRegion
<1>1. r \in Regions /\ inited \in Nat /\ inited < NRegions /\ inited' = r
  BY SizeAssumption DEF TypeOK, Regions
<1>2. TypeOK'
  <2>1. CASE HasBitmap(r)
    <3>1. BitmapPlace[r] \in Nat /\ BitmapBytes(r) \in Nat
      BY <1>1, <2>1, BitmapPlaceIsPlace, LayoutType
    <3>2. PICK ram \in RamBits :
            used' = [used EXCEPT ![r] = (ram \cap Bits(r)) \cup FixedBits[r]]
      BY <2>1
    <3>3. (ram \cap Bits(r)) \cup FixedBits[r] \subseteq Nat
      BY <1>1, BitsType
    <3> QED
      BY <1>1, <2>1, <3>1, <3>2, <3>3, SizeAssumption DEF TypeOK
  <2>2. CASE ~HasBitmap(r)
    BY <1>1, <2>2, InputAssumption, SizeAssumption DEF TypeOK
  <2> QED
    BY <2>1, <2>2
<1>3. phase = "Bootstrap" /\ phase' = phase
  BY <1>1 DEF TypeOK, Pointers
<1>4. \A q \in 1 .. inited' : q = r \/ (q \in 1 .. inited /\ q # r)
  BY <1>1
<1>5. \A q \in 1 .. inited' : q \in Regions
  BY <1>1, SizeAssumption DEF Regions
<1>6. Pointers'
  <2>1. BitmapPlace[r] \in Nat \/ ~HasBitmap(r)
    BY <1>1, BitmapPlaceIsPlace
  <2>2. ASSUME NEW q \in 1 .. inited'
        PROVE  /\ bitmap'[q] = (IF HasBitmap(q) THEN BitmapPlace[q] ELSE 0)
                     + (IF phase' = "Permanent" THEN KernelBase ELSE 0)
               /\ HasBitmap(q) => bitmapSize'[q] = BitmapBytes(q)
    <3>1. CASE q = r
      BY <1>1, <1>3, <2>1, <3>1 DEF TypeOK
    <3>2. CASE q \in 1 .. inited /\ q # r
      BY <1>1, <1>3, <1>5, <3>2 DEF TypeOK, Pointers
    <3> QED
      BY <1>4, <3>1, <3>2
  <2> QED
    BY <1>3, <2>2 DEF Pointers
<1>7. FixedStaySet'
  <2> SUFFICES ASSUME NEW q \in 1 .. inited', HasBitmap(q)
               PROVE  FixedBits[q] \subseteq used'[q]
    BY DEF FixedStaySet
  <2>1. CASE q = r
    BY <1>1, <2>1 DEF TypeOK
  <2>2. CASE q \in 1 .. inited /\ q # r
    BY <1>1, <1>5, <2>2 DEF TypeOK, FixedStaySet
  <2> QED
    BY <1>4, <2>1, <2>2
<1>8. HeldAreMarked' /\ OnePageOneOwner'
  BY <1>1 DEF HeldAreMarked, OnePageOneOwner
<1> QED
  BY <1>2, <1>6, <1>7, <1>8

\* A page whose bit is clear goes to one caller.
LEMMA GiveKeeps ==
  ASSUME IInv, Ready, NEW c \in Owner, NEW r \in Regions,
         NEW i \in 0 .. Pages(r) - 1, HasBitmap(r), bitmap[r] # 0,
         i \notin used[r], Give(c, r, i)
  PROVE  IInv'
<1> USE DEF IInv, Give
<1> DEFINE p == PageAddr(r, i)
<1>1. i \in Bits(r) /\ i \in Nat /\ p \in Page /\ inited = NRegions
        /\ r \in 1 .. inited
  BY PageBitStored, PageInRegion, BitsType DEF Ready, Regions
<1>2. i \notin FixedBits[r]
  BY <1>1 DEF FixedStaySet
<1>3. \A d \in Owner : p \notin held[d]
  <2> SUFFICES ASSUME NEW d \in Owner, p \in held[d] PROVE FALSE
    OBVIOUS
  <2>1. PICK q \in Regions : \E j \in Bits(q) : HeldBit(p, q, j)
    BY DEF HeldAreMarked
  <2>2. PICK j \in Bits(q) : HeldBit(p, q, j)
    BY <2>1
  <2>3. q = r /\ i = j
    BY <2>2, PageAddrInjective DEF HeldBit
  <2> QED
    BY <2>2, <2>3 DEF HeldBit
<1>4. \A q \in Regions : used[q] \subseteq used'[q]
  BY DEF TypeOK
<1>5. i \in used'[r]
  BY DEF TypeOK
<1>6. \A d \in Owner : held'[d] = IF d = c THEN held[d] \cup {p} ELSE held[d]
  BY DEF TypeOK
<1>7. TypeOK'
  BY <1>1 DEF TypeOK
<1>8. Pointers' /\ FixedStaySet'
  <2>1. 1 .. inited = Regions
    BY <1>1 DEF Regions
  <2> QED
    BY <1>4, <2>1 DEF Pointers, FixedStaySet
<1>9. HeldAreMarked'
  <2>1. ASSUME NEW d \in Owner, NEW x \in held'[d]
        PROVE  \E q \in Regions : \E j \in Bits(q) : HeldBit(x, q, j)'
    <3>1. CASE x = p
      <4>1. HeldBit(x, r, i)'
        BY <1>1, <1>2, <1>5, <3>1 DEF HeldBit
      <4> QED
        BY <1>1, <4>1
    <3>2. CASE x \in held[d]
      <4>1. PICK q \in Regions : \E j \in Bits(q) : HeldBit(x, q, j)
        BY <3>2 DEF HeldAreMarked
      <4>2. PICK j \in Bits(q) : HeldBit(x, q, j)
        BY <4>1
      <4>3. HeldBit(x, q, j)'
        BY <1>4, <4>2 DEF HeldBit
      <4> QED
        BY <4>3
    <3> QED
      BY <1>6, <2>1, <3>1, <3>2
  <2>2. ~(inited' < NRegions)
    BY <1>1, SizeAssumption
  <2> QED
    BY <2>1, <2>2 DEF HeldAreMarked
<1>10. OnePageOneOwner'
  BY <1>3, <1>6 DEF OnePageOneOwner
<1> QED
  BY <1>7, <1>8, <1>9, <1>10

\* A page of a region that is taken out of use was nobody's.
LEMMA ReserveKeeps ==
  ASSUME IInv, NEW addr \in Nat, ReservePageAt(addr)
  PROVE  IInv'
<1> USE DEF IInv
<1>1. \A q \in Regions : used[q] \subseteq used'[q]
  BY DEF TypeOK, ReservePageAt, Fault
<1>2. TypeOK'
  <2> DEFINE a == AlignDown(addr)
  <2>1. PICK r \in Regions :
          /\ Names(r, a)
          /\ \/ BitFaults(r, BitOf(r, a)) /\ Fault
             \/ /\ ~BitFaults(r, BitOf(r, a))
                /\ used' = [used EXCEPT ![r] = @ \cup {BitOf(r, a)}]
                /\ UNCHANGED <<phase, inited, bitmap, bitmapSize, held, fault>>
    BY DEF ReservePageAt
  <2>2. CASE Fault
    BY <2>2 DEF TypeOK, Fault
  <2>3. CASE ~Fault
    <3>1. BitOf(r, a) \in Nat
      BY <2>1, <2>3, NamedPageFound DEF ReservePageAt
    <3> QED
      BY <2>1, <2>3, <3>1 DEF TypeOK
  <2> QED
    BY <2>2, <2>3
<1>3. UNCHANGED <<phase, inited, bitmap, bitmapSize, held>>
  BY DEF ReservePageAt, Fault
<1>4. Pointers' /\ FixedStaySet'
  <2>1. \A q \in 1 .. inited : q \in Regions
    BY SizeAssumption DEF TypeOK, Regions
  <2> QED
    BY <1>1, <1>3, <2>1 DEF Pointers, FixedStaySet
<1>5. HeldAreMarked' /\ OnePageOneOwner'
  BY <1>1, <1>3 DEF HeldAreMarked, HeldBit, OnePageOneOwner
<1> QED
  BY <1>2, <1>4, <1>5

\* A page that its owner gives back: the one bit that is cleared is the
\* page's own, so the other held pages stay marked and no fixed bit is lost.
LEMMA FreeKeeps ==
  ASSUME IInv, NEW c \in Owner, NEW p \in Page, FreePage(c, p), ~Fault
  PROVE  /\ IInv'
         /\ \E r \in Regions : \E i \in Bits(r) :
              /\ HeldBit(p, r, i)
              /\ used' = [used EXCEPT ![r] = @ \ {i}]
<1> USE DEF IInv
<1>1. PICK r \in Regions : \E i \in Bits(r) : HeldBit(p, r, i)
  BY DEF HeldAreMarked, FreePage
<1>2. PICK i \in Bits(r) : HeldBit(p, r, i)
  BY <1>1
<1>3. i \in 0 .. Pages(r) - 1 /\ p = PageAddr(r, i) /\ HasBitmap(r)
        /\ i \notin FixedBits[r] /\ i \in used[r]
  BY <1>2 DEF HeldBit
<1>4. BitOf(r, p) = i /\ Include(r, p) /\ bitmap[r] # 0 /\ \A q \in Regions : Include(q,
   p) => q = r
  BY <1>2, <1>3, BitOfPageAddr, PageInOneRegion DEF HeldBit
<1>5. /\ p \in held[c]
      /\ used' = [q \in Regions |->
                    IF Include(q, p) /\ bitmap[q] # 0
                    THEN used[q] \ {BitOf(q, p)} ELSE used[q]]
      /\ held' = [held EXCEPT ![c] = @ \ {p}]
      /\ UNCHANGED <<phase, inited, bitmap, bitmapSize, fault>>
  BY DEF FreePage
<1>6. used' = [used EXCEPT ![r] = @ \ {i}]
  BY <1>4, <1>5 DEF TypeOK
<1>7. TypeOK'
  BY <1>5, <1>6 DEF TypeOK
<1>8. \A q \in Regions : FixedBits[q] \subseteq used[q] => FixedBits[q] \subseteq used'[q]
  BY <1>3, <1>6 DEF TypeOK
<1>9. Pointers' /\ FixedStaySet'
  <2>1. \A q \in 1 .. inited : q \in Regions
    BY SizeAssumption DEF TypeOK, Regions
  <2> QED
    BY <1>5, <1>8, <2>1 DEF Pointers, FixedStaySet
<1>10. \A d \in Owner : held'[d] = IF d = c THEN held[d] \ {p} ELSE held[d]
  BY <1>5 DEF TypeOK
<1>11. \A d \in Owner : p \notin held'[d]
  BY <1>5, <1>10 DEF OnePageOneOwner
<1>12. HeldAreMarked'
  <2>1. ASSUME NEW d \in Owner, NEW x \in held'[d]
        PROVE  \E q \in Regions : \E j \in Bits(q) : HeldBit(x, q, j)'
    <3>1. x \in held[d] /\ x # p
      BY <1>10, <1>11, <2>1
    <3>2. PICK q \in Regions : \E j \in Bits(q) : HeldBit(x, q, j)
      BY <3>1 DEF HeldAreMarked
    <3>3. PICK j \in Bits(q) : HeldBit(x, q, j)
      BY <3>2
    <3>4. ~(q = r /\ j = i)
      BY <1>3, <3>1, <3>3 DEF HeldBit
    <3>5. HeldBit(x, q, j)'
      BY <1>5, <1>6, <3>3, <3>4 DEF HeldBit, TypeOK
    <3> QED
      BY <3>5
  <2>2. inited' < NRegions => \A d \in Owner : held'[d] = {}
    BY <1>5, SizeAssumption DEF FreePage, Ready
  <2> QED
    BY <2>1, <2>2 DEF HeldAreMarked
<1>13. OnePageOneOwner'
  BY <1>10 DEF OnePageOneOwner
<1> QED
  BY <1>2, <1>6, <1>7, <1>9, <1>12, <1>13

\* Relocation moves the pointers and nothing else.
LEMMA RelocateKeeps == IInv /\ Relocate => IInv'
<1> SUFFICES ASSUME IInv, Relocate PROVE IInv'
  OBVIOUS
<1> USE DEF IInv, Relocate
<1>1. TypeOK'
  BY SizeAssumption DEF TypeOK
<1>2. \A r \in 1 .. inited : r \in Regions
  BY SizeAssumption DEF TypeOK, Regions
<1>3. Pointers'
  <2>1. ASSUME NEW r \in 1 .. inited
        PROVE  bitmap'[r] = (IF HasBitmap(r) THEN BitmapPlace[r] ELSE 0) + KernelBase
    <3>1. bitmap[r] \in Nat
      BY <1>2 DEF TypeOK
    <3>2. bitmap[r] = (IF HasBitmap(r) THEN BitmapPlace[r] ELSE 0) + 0
      BY DEF Pointers
    <3>3. (IF HasBitmap(r) THEN BitmapPlace[r] ELSE 0) \in Nat
      BY <1>2, BitmapPlaceIsPlace
    <3> QED
      BY <1>2, <3>1, <3>2, <3>3
  <2> QED
    BY <1>2, <2>1 DEF Pointers, Ready
<1>4. FixedStaySet' /\ OnePageOneOwner'
  BY DEF FixedStaySet, OnePageOneOwner
<1>5. \A r \in Regions : bitmap'[r] # 0
  BY SizeAssumption DEF TypeOK
<1>6. HeldAreMarked'
  <2>1. ASSUME NEW x, NEW q \in Regions, NEW j \in Bits(q), HeldBit(x, q, j)
        PROVE  HeldBit(x, q, j)'
    BY <1>5, <2>1 DEF HeldBit
  <2> QED
    BY <2>1 DEF HeldAreMarked
<1> QED
  BY <1>1, <1>3, <1>4, <1>6

\* A fault changes nothing the invariant speaks of.
LEMMA FaultKeeps == IInv /\ Fault => IInv'
  BY DEF IInv, Fault, TypeOK, Pointers, FixedStaySet, HeldAreMarked, HeldBit,
         OnePageOneOwner

\* What a call that hands out a page does: nothing but faulting, or giving a
\* page whose bit is clear.
Gives(c) ==
  \E r \in Regions : \E i \in 0 .. Pages(r) - 1 :
    HasBitmap(r) /\ bitmap[r] # 0 /\ i \notin used[r] /\ Give(c, r, i)

\* alloc_page() faults or gives such a page.
LEMMA AllocPageGives ==
  ASSUME IInv, NEW c \in Owner, AllocPage(c)
  PROVE  Ready /\ (Fault \/ Gives(c))
<1> USE DEF IInv
<1>1. PICK r \in Regions :
        \/ ScanFaults(r) /\ Fault
        \/ ~ScanFaults(r) /\ FreeBits(r) # {} /\ Give(c, r, FirstFree(r))
  BY DEF AllocPage
<1>2. Ready
  BY DEF AllocPage
<1>3. CASE ~ScanFaults(r) /\ FreeBits(r) # {} /\ Give(c, r, FirstFree(r))
  <2>1. HasBitmap(r) /\ FirstFree(r) \in 0 .. Pages(r) - 1
    BY <1>2, <1>3, ScanFindsPage
  <2>2. FirstFree(r) \notin used[r] /\ bitmap[r] # 0
    BY <1>3, FirstFreeIsFree
  <2> QED
    BY <1>2, <1>3, <2>1, <2>2 DEF Gives
<1> QED
  BY <1>1, <1>2, <1>3

\* So does alloc_page(addr).
LEMMA AllocPageAtGives ==
  ASSUME IInv, NEW c \in Owner, NEW addr \in Nat, AllocPageAt(c, addr)
  PROVE  Ready /\ (Fault \/ Gives(c))
<1> DEFINE a == AlignDown(addr)
<1> USE DEF IInv
<1>1. PICK r \in Regions :
        /\ Names(r, a)
        /\ \/ BitFaults(r, BitOf(r, a)) /\ Fault
           \/ /\ ~BitFaults(r, BitOf(r, a))
              /\ BitOf(r, a) \notin used[r]
              /\ Give(c, r, BitOf(r, a))
  BY DEF AllocPageAt
<1>2. Ready
  BY DEF AllocPageAt
<1>3. CASE ~Fault
  <2>1. HasBitmap(r) /\ BitOf(r, a) \in 0 .. Pages(r) - 1
    BY <1>1, <1>2, <1>3, NamedPageFound
  <2>2. bitmap[r] # 0
    BY <1>1 DEF Names
  <2> QED
    BY <1>1, <1>2, <1>3, <2>1, <2>2 DEF Gives
<1> QED
  BY <1>2, <1>3

\* Giving such a page preserves the invariant.
LEMMA GivesKeeps ==
  ASSUME IInv, Ready, NEW c \in Owner, Gives(c)
  PROVE  IInv'
  BY GiveKeeps DEF Gives

\* Held pages avoid what is marked for good.
LEMMA HeldOverlapsNothingFixed ==
  ASSUME IInv, NEW c \in Owner, NEW p \in held[c], NEW q \in Regions,
         NEW s \in PhySpan, s.size > 0, PartOf(s, Span[q]),
         HasBitmap(q) => PageBits(q, s) \subseteq FixedBits[q]
  PROVE  ~Overlap(PageSpan(p), s)
<1>1. PICK r \in Regions : \E i \in Bits(r) : HeldBit(p, r, i)
  BY DEF IInv, HeldAreMarked
<1>2. PICK i \in Bits(r) : HeldBit(p, r, i)
  BY <1>1
<1> SUFFICES ASSUME Overlap(PageSpan(p), s) PROVE FALSE
  OBVIOUS
<1>3. i \in 0 .. Pages(r) - 1 /\ p = PageAddr(r, i) /\ HasBitmap(r)
        /\ i \notin FixedBits[r]
  BY <1>2 DEF HeldBit
<1>4. q = r
  BY <1>3, OverlapSameRegion
<1>5. i \in PageBits(r, s)
  BY <1>3, <1>4, OverlapMarked
<1> QED
  BY <1>3, <1>4, <1>5

\* A bitmap's own pages are among the fixed ones.
LEMMA IInvAvoidsBitmaps == IInv => HeldAvoidsBitmaps
<1> SUFFICES ASSUME IInv, NEW c \in Owner, NEW r \in Regions, NEW p \in held[c],
                    HasBitmap(r), BitmapBytes(r) > 0
             PROVE  ~Overlap(PageSpan(p), BitmapSpan(r, BitmapPlace[r]))
  BY DEF HeldAvoidsBitmaps
<1> DEFINE s == BitmapSpan(r, BitmapPlace[r])
<1>1. s \in PhySpan /\ PartOf(s, Span[r]) /\ s.size > 0
  BY BitmapPlaceIsPlace DEF BitmapSpan
<1>2. PageBits(r, s) \subseteq FixedBits[r]
  BY DEF FixedBits
<1> QED
  BY <1>1, <1>2, HeldOverlapsNothingFixed

\* So are the pages of a reserved span inside a region.
LEMMA IInvAvoidsReserved == IInv => HeldAvoidsReserved
<1> SUFFICES ASSUME IInv, NEW c \in Owner, NEW s \in Reserved, NEW p \in held[c],
                    s.size > 0, NEW r \in Regions, PartOf(s, Span[r])
             PROVE  ~Overlap(PageSpan(p), s)
  BY DEF HeldAvoidsReserved
<1>1. s \in PhySpan
  BY ReservedAssumption
<1>2. PageBits(r, s) \subseteq FixedBits[r]
  BY DEF FixedBits, ReservedBits
<1> QED
  BY <1>1, <1>2, HeldOverlapsNothingFixed

\* Pages start where nothing is left of the division by their size.
LEMMA PageAddrOnPage ==
  ASSUME NEW r \in Regions, NEW i \in Nat
  PROVE  PageAddr(r, i) \in Nat /\ PageAddr(r, i) % PageSize = 0
<1>1. Span[r].base \in Nat /\ Span[r].base % PageSize = 0
  BY LayoutType, SpanAssumption
<1> DEFINE b == Span[r].base
           q == b \div PageSize
<1>2. q \in Nat /\ b = q * PageSize
  BY <1>1, DivLaw, ModDiv, SizeAssumption
<1> HIDE DEF b, q
<1>3. q * PageSize + i * PageSize = (q + i) * PageSize
  BY <1>2, SizeAssumption
<1>4. (q + i) * PageSize \in Nat /\ ((q + i) * PageSize) % PageSize = 0
  BY <1>2, MulType, MulRest, SizeAssumption
<1> QED
  BY <1>2, <1>3, <1>4 DEF PageAddr, b

\* So do bitmaps.
LEMMA BitmapOnPage ==
  ASSUME NEW r \in Regions, HasBitmap(r)
  PROVE  BitmapPlace[r] % PageSize = 0
<1>1. PICK i \in 0 .. Pages(r) : BitmapPlace[r] = PageAddr(r, i)
  BY BitmapPlaceIsPlace DEF BitmapPlaces
<1> QED
  BY <1>1, LayoutType, PageAddrOnPage

\* And the pages callers hold.
LEMMA HeldOnPage ==
  ASSUME IInv, NEW c \in Owner, NEW p \in held[c]
  PROVE  p \in Nat /\ p % PageSize = 0
<1>1. PICK r \in Regions : \E i \in Bits(r) : HeldBit(p, r, i)
  BY DEF IInv, HeldAreMarked
<1>2. PICK i \in Bits(r) : HeldBit(p, r, i)
  BY <1>1
<1>3. i \in Nat /\ p = PageAddr(r, i)
  BY <1>2, LayoutType DEF HeldBit
<1> QED
  BY <1>3, PageAddrOnPage

\* A bit behind the bitmap means that the region ends in an incomplete byte.
LEMMA TailBit ==
  ASSUME NEW r \in Regions, NEW i \in 0 .. Pages(r) - 1,
         i \div BitsPerByte = BitmapBytes(r)
  PROVE  Span[r].size % (PageSize * BitsPerByte) # 0
<1> DEFINE n == BitmapBytes(r)
           PB == PageSize * BitsPerByte
           s == Span[r].size
<1>1. /\ n \in Nat /\ s \in Nat /\ Pages(r) \in Nat /\ i \in Nat
      /\ PB \in Nat \ {0} /\ Pages(r) * PageSize <= s
  BY LayoutType
<1>2. SUFFICES ASSUME s % PB = 0 PROVE FALSE
  OBVIOUS
<1>3. s = n * PB
  BY <1>1, <1>2, ModDiv DEF BitmapBytes
<1>4. n * PB = (n * BitsPerByte) * PageSize
  BY <1>1, SizeAssumption
<1>5. n * BitsPerByte \in Nat /\ n * BitsPerByte <= i
  BY <1>1, DivLaw, MulType, SizeAssumption
<1>6. (n * BitsPerByte) * PageSize + PageSize <= Pages(r) * PageSize
  <2>1. n * BitsPerByte < Pages(r)
    BY <1>1, <1>5
  <2> HIDE DEF n
  <2> QED
    BY <1>1, <1>5, <2>1, MulMono, SizeAssumption
<1>7. (n * BitsPerByte) * PageSize \in Nat /\ Pages(r) * PageSize \in Nat
  BY <1>1, <1>5, MulType, SizeAssumption
<1> HIDE DEF n, PB, s
<1> QED
  BY <1>1, <1>3, <1>4, <1>6, <1>7, SizeAssumption

\* The byte of a page's bit is one of the bitmap, or lies behind it in the page
\* that the bitmap fills in part.
LEMMA BitNearBitmap ==
  ASSUME NEW r \in Regions, HasBitmap(r), NEW i \in 0 .. Pages(r) - 1,
         NEW p \in Nat, p % PageSize = 0,
         p <= BitmapPlace[r] + i \div BitsPerByte,
         BitmapPlace[r] + i \div BitsPerByte < p + PageSize
  PROVE  /\ BitmapBytes(r) > 0
         /\ Overlap(PageSpan(p), BitmapSpan(r, BitmapPlace[r]))
<1> DEFINE n == BitmapBytes(r)
           b == BitmapPlace[r]
           k == i \div BitsPerByte
<1>1. /\ n \in Nat /\ b \in Nat /\ k \in 0 .. n /\ i \in Nat
      /\ PageSize \in Nat \ {0} /\ BitsPerByte \in Nat \ {0}
  BY LayoutType, BitmapPlaceIsPlace, PageBitStored, SizeAssumption
<1>2. p <= b + k /\ b + k < p + PageSize
  OBVIOUS
<1>3. CASE k < n
  <2> HIDE DEF n, b, k
  <2>1. n > 0 /\ p < b + n /\ b < p + PageSize
    BY <1>1, <1>2, <1>3
  <2> QED
    BY <1>1, <2>1 DEF Overlap, PageSpan, BitmapSpan, End, n, b
<1>4. CASE k = n
  <2>1. n % PageSize # 0
    BY <1>1, <1>4, TailBit, TailAssumption
  <2>2. b % PageSize = 0
    BY BitmapOnPage
  <2> HIDE DEF n, b, k
  <2>3. n > 0
    BY <1>1, <2>1, ZeroRest
  <2>4. p # b + n
    BY <1>1, <2>1, <2>2, RestOfSum
  <2>5. p < b + n /\ b < p + PageSize
    BY <1>1, <1>2, <1>4, <2>4
  <2> QED
    BY <1>1, <2>3, <2>5 DEF Overlap, PageSpan, BitmapSpan, End, n, b
<1> QED
  BY <1>1, <1>3, <1>4

\* So no page that somebody holds stores a bit.
LEMMA IInvAvoidsBits == IInv => HeldAvoidsBits
<1> SUFFICES ASSUME IInv, NEW c \in Owner, NEW r \in Regions, NEW p \in held[c],
                    NEW i \in StoredIn(r, p)
             PROVE  FALSE
  BY DEF HeldAvoidsBits
<1>1. /\ HasBitmap(r) /\ i \in 0 .. Pages(r) - 1
      /\ p <= BitmapPlace[r] + i \div BitsPerByte
      /\ BitmapPlace[r] + i \div BitsPerByte < p + PageSize
  BY DEF StoredIn
<1>2. p \in Nat /\ p % PageSize = 0
  BY HeldOnPage
<1>3. BitmapBytes(r) > 0 /\ Overlap(PageSpan(p), BitmapSpan(r, BitmapPlace[r]))
  BY <1>1, <1>2, BitNearBitmap
<1>4. r <= inited
  BY SizeAssumption DEF IInv, TypeOK, HeldAreMarked, Regions
<1> QED
  BY <1>1, <1>3, <1>4, IInvAvoidsBitmaps DEF HeldAvoidsBitmaps

\* And writing to it changes no bit.
LEMMA WriteChangesNothing ==
  ASSUME IInv, NEW c \in Owner, NEW p \in Page, WritePage(c, p)
  PROVE  UNCHANGED vars
<1>1. p \in held[c]
  BY DEF WritePage
<1>2. \A r \in Regions : StoredIn(r, p) = {}
  BY <1>1, IInvAvoidsBits DEF HeldAvoidsBits
<1>3. PICK ram \in RamBits :
        used' = [r \in Regions |-> (used[r] \ StoredIn(r, p)) \cup (ram \cap StoredIn(r, p))]
  BY DEF WritePage
<1>4. used' = [r \in Regions |-> used[r]]
  BY <1>2, <1>3
<1>5. used' = used
  BY <1>4 DEF IInv, TypeOK
<1> QED
  BY <1>5 DEF WritePage, vars

\* Every step preserves the invariant.
LEMMA NextKeepsIInv == IInv /\ [Next]_vars => IInv'
<1> SUFFICES ASSUME IInv, [Next]_vars PROVE IInv'
  OBVIOUS
<1>1. CASE InitRegion
  BY <1>1, InitRegionKeeps
<1>2. ASSUME NEW c \in Owner, AllocPage(c) PROVE IInv'
  BY <1>2, AllocPageGives, FaultKeeps, GivesKeeps
<1>3. ASSUME NEW c \in Owner, NEW a \in Addr, AllocPageAt(c, a) PROVE IInv'
  BY <1>3, AllocPageAtGives, FaultKeeps, GivesKeeps, InputAssumption
<1>4. ASSUME NEW a \in Addr, ReservePageAt(a) PROVE IInv'
  BY <1>4, ReserveKeeps, InputAssumption
<1>5. ASSUME NEW c \in Owner, NEW p \in Page, FreePage(c, p) PROVE IInv'
  BY <1>5, FreeKeeps, FaultKeeps
<1>6. CASE Relocate
  BY <1>6, RelocateKeeps
<1>7. ASSUME UNCHANGED vars PROVE IInv'
  BY <1>7 DEF vars, IInv, TypeOK, Pointers, FixedStaySet, HeldAreMarked,
              HeldBit, OnePageOneOwner
<1>8. ASSUME NEW c \in Owner, NEW p \in Page, WritePage(c, p) PROVE IInv'
  BY <1>7, <1>8, WriteChangesNothing
<1> QED
  BY <1>1, <1>2, <1>3, <1>4, <1>5, <1>6, <1>7, <1>8 DEF Next, Halted

-----------------------------------------------------------------------------
\* The state always has the shape TypeOK says (region.hpp:28-64).
THEOREM TypeCorrect == Spec => []TypeOK
<1>1. IInv => TypeOK
  BY DEF IInv
<1> QED
  BY <1>1, InitIInv, NextKeepsIInv, PTL DEF Spec

\* No page ever has two owners, for any number of regions, any layout and any
\* sequence of calls (region.cpp:24-49, allocator.hpp:73-88).
THEOREM NeverTwoOwners == Spec => []OnePageOneOwner
<1>1. IInv => OnePageOneOwner
  BY DEF IInv
<1> QED
  BY <1>1, InitIInv, NextKeepsIInv, PTL DEF Spec

\* No owner ever holds a page with a byte of a bitmap in it (region.cpp:60-65).
THEOREM BitmapsAreNeverHeld == Spec => []HeldAvoidsBitmaps
  BY IInvAvoidsBitmaps, InitIInv, NextKeepsIInv, PTL DEF Spec

\* No owner ever holds a page with a byte of a reserved span that is part of
\* a region (region.cpp:84-92).
THEOREM ReservedIsNeverHeld == Spec => []HeldAvoidsReserved
  BY IInvAvoidsReserved, InitIInv, NextKeepsIInv, PTL DEF Spec

\* No page anybody holds and writes to stores the bit of a page, the byte behind
\* the bitmap included (region.cpp:40-58, region.hpp:96).
THEOREM BitsAreNeverHeld == Spec => []HeldAvoidsBits
  BY IInvAvoidsBits, InitIInv, NextKeepsIInv, PTL DEF Spec

-----------------------------------------------------------------------------
\* Refinement.

\* What a free page is: one of a region with a bitmap whose bit is clear.
IsFreePage(p) ==
  \E r \in 1 .. inited : \E i \in (0 .. Pages(r) - 1) \ used[r] :
    HasBitmap(r) /\ p = PageAddr(r, i)

\* Membership in the free pages, spelled out.
LEMMA FreePagesMember == \A p : p \in FreePages <=> IsFreePage(p)
  BY DEF FreePages, IsFreePage

\* The same in the next state.
LEMMA FreePagesMemberNext == (\A p : p \in FreePages <=> IsFreePage(p))'
  BY FreePagesMember, PTL

\* Setting one clear bit takes exactly its page out of the free pages.
LEMMA SetBitTakesPage ==
  ASSUME IInv, Ready, NEW r \in Regions, NEW i \in 0 .. Pages(r) - 1,
         HasBitmap(r), i \notin used[r], inited' = inited,
         used' = [used EXCEPT ![r] = @ \cup {i}]
  PROVE  PageAddr(r, i) \in FreePages /\ FreePages' = FreePages \ {PageAddr(r, i)}
<1>1. 1 .. inited = Regions /\ inited' = inited
  BY DEF Ready, Regions
<1>2. PageAddr(r, i) \in FreePages
  BY <1>1, FreePagesMember DEF IsFreePage
<1>3. ASSUME NEW x
      PROVE  x \in FreePages' <=> x \in FreePages /\ x # PageAddr(r, i)
  <2>1. x \in FreePages' <=>
           \E q \in Regions : \E j \in (0 .. Pages(q) - 1) \ used'[q] :
             HasBitmap(q) /\ x = PageAddr(q, j)
    BY <1>1, FreePagesMemberNext DEF IsFreePage
  <2>2. x \in FreePages <=>
           \E q \in Regions : \E j \in (0 .. Pages(q) - 1) \ used[q] :
             HasBitmap(q) /\ x = PageAddr(q, j)
    BY <1>1, FreePagesMember DEF IsFreePage
  <2>3. \A q \in Regions : \A j \in 0 .. Pages(q) - 1 :
          j \notin used'[q] <=> j \notin used[q] /\ ~(q = r /\ j = i)
    BY DEF IInv, TypeOK
  <2>4. \A q \in Regions : \A j \in 0 .. Pages(q) - 1 :
          PageAddr(q, j) = PageAddr(r, i) <=> q = r /\ j = i
    BY PageAddrInjective
  <2>5. ASSUME x \in FreePages' PROVE x \in FreePages /\ x # PageAddr(r, i)
    <3>1. PICK q \in Regions : \E j \in (0 .. Pages(q) - 1) \ used'[q] :
             HasBitmap(q) /\ x = PageAddr(q, j)
      BY <2>1, <2>5
    <3>2. PICK j \in (0 .. Pages(q) - 1) \ used'[q] : HasBitmap(q) /\ x = PageAddr(q, j)
      BY <3>1
    <3> QED
      BY <2>2, <2>3, <2>4, <3>2
  <2>6. ASSUME x \in FreePages, x # PageAddr(r, i) PROVE x \in FreePages'
    <3>1. PICK q \in Regions : \E j \in (0 .. Pages(q) - 1) \ used[q] :
             HasBitmap(q) /\ x = PageAddr(q, j)
      BY <2>2, <2>6
    <3>2. PICK j \in (0 .. Pages(q) - 1) \ used[q] : HasBitmap(q) /\ x = PageAddr(q, j)
      BY <3>1
    <3>3. j \notin used'[q]
      BY <2>3, <2>6, <3>2
    <3> QED
      BY <2>1, <3>2, <3>3
  <2> QED
    BY <2>5, <2>6
<1> QED
  BY <1>2, <1>3

\* Clearing the bit of a held page adds exactly its page to the free pages.
LEMMA ClearBitFreesPage ==
  ASSUME IInv, Ready, NEW r \in Regions, NEW i \in 0 .. Pages(r) - 1,
         HasBitmap(r), inited' = inited, used' = [used EXCEPT ![r] = @ \ {i}]
  PROVE  FreePages' = FreePages \cup {PageAddr(r, i)}
<1>1. 1 .. inited = Regions /\ inited' = inited
  BY DEF Ready, Regions
<1>2. ASSUME NEW x
      PROVE  x \in FreePages' <=> x \in FreePages \/ x = PageAddr(r, i)
  <2>1. x \in FreePages' <=>
           \E q \in Regions : \E j \in (0 .. Pages(q) - 1) \ used'[q] :
             HasBitmap(q) /\ x = PageAddr(q, j)
    BY <1>1, FreePagesMemberNext DEF IsFreePage
  <2>2. x \in FreePages <=>
           \E q \in Regions : \E j \in (0 .. Pages(q) - 1) \ used[q] :
             HasBitmap(q) /\ x = PageAddr(q, j)
    BY <1>1, FreePagesMember DEF IsFreePage
  <2>3. \A q \in Regions : \A j \in 0 .. Pages(q) - 1 :
          j \notin used'[q] <=> j \notin used[q] \/ (q = r /\ j = i)
    BY DEF IInv, TypeOK
  <2>4. ASSUME x \in FreePages' PROVE x \in FreePages \/ x = PageAddr(r, i)
    <3>1. PICK q \in Regions : \E j \in (0 .. Pages(q) - 1) \ used'[q] :
             HasBitmap(q) /\ x = PageAddr(q, j)
      BY <2>1, <2>4
    <3>2. PICK j \in (0 .. Pages(q) - 1) \ used'[q] : HasBitmap(q) /\ x = PageAddr(q, j)
      BY <3>1
    <3> QED
      BY <2>2, <2>3, <3>2
  <2>5. ASSUME x \in FreePages PROVE x \in FreePages'
    <3>1. PICK q \in Regions : \E j \in (0 .. Pages(q) - 1) \ used[q] :
             HasBitmap(q) /\ x = PageAddr(q, j)
      BY <2>2, <2>5
    <3>2. PICK j \in (0 .. Pages(q) - 1) \ used[q] : HasBitmap(q) /\ x = PageAddr(q, j)
      BY <3>1
    <3>3. j \notin used'[q]
      BY <2>3, <3>2
    <3> QED
      BY <2>1, <3>2, <3>3
  <2>6. ASSUME x = PageAddr(r, i) PROVE x \in FreePages'
    <3>1. i \notin used'[r]
      BY <2>3
    <3> QED
      BY <2>1, <2>6, <3>1
  <2> QED
    BY <2>4, <2>5, <2>6
<1> QED
  BY <1>2

\* The free pages are pages.
LEMMA FreePagesArePages == TypeOK => FreePages \subseteq Page
<1> SUFFICES ASSUME TypeOK, NEW p \in FreePages PROVE p \in Page
  OBVIOUS
<1>1. PICK r \in 1 .. inited : \E i \in (0 .. Pages(r) - 1) \ used[r] :
         HasBitmap(r) /\ p = PageAddr(r, i)
  BY FreePagesMember DEF IsFreePage
<1>2. r \in Regions
  BY SizeAssumption DEF TypeOK, Regions
<1> QED
  BY <1>1, <1>2, PageInRegion

\* Steps that change nothing the abstraction sees.
LEMMA StutterRefines ==
  ASSUME UNCHANGED <<inited, used, held>>
  PROVE  UNCHANGED Abstract!vars
  BY DEF Abstract!vars, FreePages

\* Initialising a region opens pages, and takes none from anybody.
LEMMA InitRegionRefines == IInv /\ InitRegion => Abstract!Open
<1> SUFFICES ASSUME IInv, InitRegion PROVE Abstract!Open
  OBVIOUS
<1>1. /\ inited \in Nat /\ inited < NRegions /\ inited' = inited + 1
      /\ UNCHANGED held
  BY SizeAssumption DEF InitRegion, IInv, TypeOK
<1>2. \A r \in 1 .. inited : used'[r] = used[r] /\ r \in 1 .. inited'
  <2>1. \A r \in 1 .. inited : r # inited + 1 /\ r \in Regions
    BY <1>1, SizeAssumption DEF Regions
  <2> QED
    BY <1>1, <2>1 DEF InitRegion, IInv, TypeOK
<1>3. FreePages \subseteq FreePages'
  BY <1>2 DEF FreePages
<1>4. TypeOK'
  BY InitRegionKeeps DEF IInv
<1>5. FreePages' \subseteq Page
  <2>1. (TypeOK => FreePages \subseteq Page)'
    BY FreePagesArePages, PTL
  <2> QED
    BY <1>4, <2>1
<1> QED
  BY <1>1, <1>3, <1>5 DEF Abstract!Open

\* A page given is a page acquired.
LEMMA GivesRefines ==
  ASSUME IInv, Ready, NEW c \in Owner, Gives(c)
  PROVE  \E p \in FreePages : Abstract!Acquire(c, p)
<1>1. PICK r \in Regions : \E i \in 0 .. Pages(r) - 1 :
        HasBitmap(r) /\ i \notin used[r] /\ Give(c, r, i)
  BY DEF Gives
<1>2. PICK i \in 0 .. Pages(r) - 1 : HasBitmap(r) /\ i \notin used[r] /\ Give(c, r, i)
  BY <1>1
<1> DEFINE p == PageAddr(r, i)
<1>3. p \in FreePages /\ FreePages' = FreePages \ {p}
  BY <1>2, SetBitTakesPage DEF Give
<1>4. Abstract!Acquire(c, p)
  BY <1>2, <1>3 DEF Abstract!Acquire, Give, Ready
<1> QED
  BY <1>3, <1>4

\* reserve_page_at withdraws a free page or changes nothing that shows.
LEMMA ReserveRefines ==
  ASSUME IInv, NEW addr \in Nat, ReservePageAt(addr)
  PROVE  \/ \E p \in FreePages : Abstract!Withdraw(p)
         \/ UNCHANGED Abstract!vars
<1> DEFINE a == AlignDown(addr)
<1> USE DEF IInv
<1>1. PICK r \in Regions :
        /\ Names(r, a)
        /\ \/ BitFaults(r, BitOf(r, a)) /\ Fault
           \/ /\ ~BitFaults(r, BitOf(r, a)) /\ BitOf(r, a) \notin used[r]
              /\ used' = [used EXCEPT ![r] = @ \cup {BitOf(r, a)}]
              /\ UNCHANGED <<phase, inited, bitmap, bitmapSize, held, fault>>
  BY DEF ReservePageAt
<1>2. Ready
  BY DEF ReservePageAt
<1>3. CASE Fault
  BY <1>3, StutterRefines DEF Fault
<1>4. CASE ~Fault
  <2> DEFINE i == BitOf(r, a)
  <2>1. HasBitmap(r) /\ i \in 0 .. Pages(r) - 1
    BY <1>1, <1>2, <1>4, NamedPageFound
  <2>2. PageAddr(r, i) \in FreePages /\ FreePages' = FreePages \ {PageAddr(r, i)}
    BY <1>1, <1>2, <1>4, <2>1, SetBitTakesPage
  <2>3. Abstract!Withdraw(PageAddr(r, i))
    BY <1>1, <1>2, <1>4, <2>2 DEF Abstract!Withdraw, Ready
  <2> QED
    BY <2>2, <2>3
<1> QED
  BY <1>3, <1>4

\* free_page releases the page.
LEMMA FreeRefines ==
  ASSUME IInv, NEW c \in Owner, NEW p \in Page, FreePage(c, p)
  PROVE  Abstract!Next \/ UNCHANGED Abstract!vars
<1>1. CASE Fault
  BY <1>1, StutterRefines DEF Fault
<1>2. CASE ~Fault
  <2>1. PICK r \in Regions : \E i \in Bits(r) :
          HeldBit(p, r, i) /\ used' = [used EXCEPT ![r] = @ \ {i}]
    BY <1>2, FreeKeeps
  <2>2. PICK i \in Bits(r) :
          HeldBit(p, r, i) /\ used' = [used EXCEPT ![r] = @ \ {i}]
    BY <2>1
  <2>3. /\ Ready /\ p \in held[c]
        /\ held' = [held EXCEPT ![c] = @ \ {p}] /\ inited' = inited
    BY <1>2 DEF FreePage
  <2>4. FreePages' = FreePages \cup {p}
    BY <2>2, <2>3, ClearBitFreesPage DEF HeldBit
  <2>5. Abstract!Release(c, p)
    BY <2>3, <2>4 DEF Abstract!Release, Ready
  <2> QED
    BY <2>3, <2>5 DEF Abstract!Next
<1> QED
  BY <1>1, <1>2

\* The bitmap allocator implements PageOwner: pages go from free to owned and
\* back, or from free to out of use, and no other way
\* (include/kernel/mem/allocator.hpp:73-103).
THEOREM BitmapsImplementPageOwner == Spec => ImplementsPageOwner
<1>1. Init => Abstract!Init
  <2>1. Init => FreePages = {}
    <3>1. 1 .. 0 = {}
      OBVIOUS
    <3> QED
      BY <3>1 DEF Init, FreePages
  <2> QED
    BY <2>1 DEF Init, Abstract!Init
<1>2. IInv /\ [Next]_vars => [Abstract!Next]_(Abstract!vars)
  <2> SUFFICES ASSUME IInv, [Next]_vars
               PROVE  Abstract!Next \/ UNCHANGED Abstract!vars
    OBVIOUS
  <2>1. CASE InitRegion
    BY <2>1, InitRegionRefines DEF Abstract!Next
  <2>2. ASSUME NEW c \in Owner, AllocPage(c)
        PROVE  Abstract!Next \/ UNCHANGED Abstract!vars
    BY <2>2, AllocPageGives, GivesRefines, StutterRefines DEF Fault, Abstract!Next
  <2>3. ASSUME NEW c \in Owner, NEW a \in Addr, AllocPageAt(c, a)
        PROVE  Abstract!Next \/ UNCHANGED Abstract!vars
    BY <2>3, AllocPageAtGives, GivesRefines, StutterRefines, InputAssumption
       DEF Fault, Abstract!Next
  <2>4. ASSUME NEW a \in Addr, ReservePageAt(a)
        PROVE  Abstract!Next \/ UNCHANGED Abstract!vars
    BY <2>4, ReserveRefines, InputAssumption DEF Abstract!Next
  <2>5. ASSUME NEW c \in Owner, NEW p \in Page, FreePage(c, p)
        PROVE  Abstract!Next \/ UNCHANGED Abstract!vars
    BY <2>5, FreeRefines
  <2>6. CASE Relocate
    BY <2>6, StutterRefines DEF Relocate
  <2>7. ASSUME UNCHANGED vars PROVE UNCHANGED Abstract!vars
    BY <2>7, StutterRefines DEF vars
  <2>8. ASSUME NEW c \in Owner, NEW p \in Page, WritePage(c, p)
        PROVE  UNCHANGED Abstract!vars
    BY <2>7, <2>8, WriteChangesNothing
  <2> QED
    BY <2>1, <2>2, <2>3, <2>4, <2>5, <2>6, <2>7, <2>8 DEF Next, Halted
<1> QED
  BY <1>1, <1>2, InitIInv, NextKeepsIInv, PTL
     DEF Spec, ImplementsPageOwner, Abstract!Spec
=============================================================================
