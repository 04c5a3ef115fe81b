----------------------------- MODULE PageTables -----------------------------
(***************************************************************************)
(* PageTablesManager::map and the four nested loops map_l0 .. map_l3       *)
(* (kernel/mem/page.cpp, include/kernel/mem/page.hpp).                     *)
(*                                                                         *)
(* map takes bytes; from there on addresses are numbers of pages.  A table *)
(* has R entries (512 in the kernel), so an entry of level 3, 2, 1, 0      *)
(* covers 1, R, R^2, R^3 pages, and the four levels cover Space pages      *)
(* (48 bits).  Both translation base registers hold the same level-0       *)
(* table, so the higher half is translated like the lower one.  Virtual    *)
(* addresses wrap at Top, physical ones have Half pages, the width of the  *)
(* address field of a descriptor.                                          *)
(*                                                                         *)
(* The loops are nested calls; stack holds their activations, innermost    *)
(* last.  One step of the model is one turn of the innermost loop.         *)
(***************************************************************************)
EXTENDS Integers, SequencesExt

CONSTANTS
  R,            \* entries per table
  PageSize,     \* bytes per page
  RootTable,    \* physical page of l0_table
  Ram,          \* pages the allocator can hand out at first
  StaleRow,     \* the entries a page of RAM reads as before it is written
  Attr,         \* memory types and permissions callers name
  Requests,     \* the calls of map: [base, size, mode, attr]
  MaxMaps       \* bound on the number of calls

Space == R * R * R * R
Half  == Space \div 2
Top   == 2 * Space

Levels == 0 .. 3
Cover  == [l \in Levels |-> CASE l = 0 -> R * R * R [] l = 1 -> R * R
                              [] l = 2 -> R [] l = 3 -> 1]

Modes == {"Id", "Direct", "DirectKernel", "New"}
NoAttr == "none"

ASSUME PageTablesAssumption ==
  /\ R \in Nat /\ R > 1 /\ R % 2 = 0
  /\ PageSize \in Nat \ {0}
  /\ Ram \subseteq 0 .. Half - 1
  /\ RootTable \in 0 .. Half - 1
  /\ MaxMaps \in Nat
  /\ NoAttr \notin Attr

-----------------------------------------------------------------------------
(***************************************************************************)
(* Descriptors.  Tables and level-3 pages share the encoding 0b11, here    *)
(* "next"; 0b01 is a block.                                                *)
(***************************************************************************)
Invalid == [kind |-> "fault", addr |-> 0, attr |-> NoAttr]

make_table(a)       == [kind |-> "next", addr |-> a % Half, attr |-> NoAttr]
make_page(a, attr)  == [kind |-> "next", addr |-> a % Half, attr |-> attr]
make_block(a, attr) == [kind |-> "block", addr |-> a % Half, attr |-> attr]

\* Seeded fault: is_block in place of is_valid.
IsValid_blocksOnly(d) == d.kind = "block"
IsValid(d) == d.kind # "fault"

\* align_down and align by the page size, from bytes to pages.
FirstPage(q) == q.base \div PageSize
\* Seeded fault: align_down in place of align.
EndPage_truncating(q) == (q.base + q.size) \div PageSize
EndPage(q) == (q.base + q.size + PageSize - 1) \div PageSize

PagesOf(q) == FirstPage(q) .. EndPage(q) - 1

\* The calls the loops are made for.  A range that came into the last chunk
\* of level 0 would never end, as the end of that chunk wraps to zero; an empty
\* range that starts inside a page is rounded to that page.
Callable(q) ==
  /\ q.base \in Nat /\ q.size \in Nat \ {0}
  /\ q.mode \in Modes /\ q.attr \in Attr
  /\ EndPage(q) <= Top - Cover[0]
  /\ EndPage(q) - FirstPage(q) <= Space

ASSUME CallsAssumption == \A q \in Requests : Callable(q)

\* The pages that hold a byte of the range a call names.
Touched(q) ==
  {v \in 0 .. Top - 1 : v * PageSize < q.base + q.size /\ q.base < (v + 1) * PageSize}

\* Index of a virtual page in a table of a level.
Index(l, v) == (v \div Cover[l]) % R

\* Seeded fault: align<...>(base) instead of align<...>(base + 1).
NextChunk_stuck(l, v) == ((v + Cover[l] - 1) \div Cover[l]) * Cover[l]
\* align<...>(base + 1): the end of the chunk of v, which wraps at the top.
NextChunk(l, v) == ((v \div Cover[l] + 1) * Cover[l]) % Top

\* Seeded fault: the direct map of the kernel half keeps one bit too few.
PhysOf_short(mode, v) == IF mode = "DirectKernel" THEN v % (Half \div 8) ELSE v
\* The address that goes into a leaf: virt2phy clears the bits from 47 up,
\* kvirt2phy those from 48 up.
PhysOf(mode, v) ==
  CASE mode = "Direct"       -> v % Half
    [] mode = "DirectKernel" -> v % Space
    [] OTHER                 -> v

-----------------------------------------------------------------------------
VARIABLES
  mem,     \* the entries of every page written as a table
  free,    \* pages the allocator can hand out
  stack,   \* activations of map_l0 .. map_l3
  cur,     \* the call being served
  want,    \* what the calls made so far ask each virtual page to map to
  count,   \* number of calls made
  panicked \* alloc_page().take() found nothing

vars == <<mem, free, stack, cur, want, count, panicked>>

Row(p) == IF p \in DOMAIN mem THEN mem[p] ELSE StaleRow
Entry(p, i) == Row(p)[i]

\* What the processor's table walk (external) finds for virtual page v.
Unmapped == [addr |-> -1, attr |-> NoAttr]

Leaf(d, l, v) ==
  [addr |-> (d.addr - (d.addr % Cover[l])) + (v % Cover[l]), attr |-> d.attr]

Translate(v) ==
  LET d0 == Entry(RootTable, Index(0, v))
      d1 == Entry(d0.addr, Index(1, v))
      d2 == Entry(d1.addr, Index(2, v))
      d3 == Entry(d2.addr, Index(3, v))
  IN IF d0.kind # "next" \/ d1.kind = "fault" THEN Unmapped
     ELSE IF d1.kind = "block" THEN Leaf(d1, 1, v)
     ELSE IF d2.kind = "fault" THEN Unmapped
     ELSE IF d2.kind = "block" THEN Leaf(d2, 2, v)
     ELSE IF d3.kind = "next"  THEN Leaf(d3, 3, v)
     ELSE Unmapped

\* The translation a call asks for: the physical page is what the virtual
\* address says below bit 47, in every mode but New, which takes any page.
Anywhere == -2
Wanted(q, v) ==
  [addr |-> IF q.mode = "New" THEN Anywhere ELSE v % Half, attr |-> q.attr]

-----------------------------------------------------------------------------
Init ==
  /\ mem = [p \in {RootTable} |-> [i \in 0 .. R - 1 |-> Invalid]]
  /\ free = Ram
  /\ stack = <<>>
  /\ cur = [base |-> 0, size |-> 0, mode |-> "Id", attr |-> NoAttr]
  /\ want = [v \in 0 .. Space - 1 |-> Unmapped]
  /\ count = 0
  /\ panicked = FALSE

Idle == stack = <<>> /\ ~panicked

Frame(l, t, b, e) == [level |-> l, table |-> t, base |-> b, end |-> e]

(***************************************************************************)
(* map: rounds the range outwards to pages, takes the pages of an identity *)
(* map out of the allocator, and enters map_l0.  The code does not check   *)
(* that the range is unmapped (page.cpp:217); the calls of                 *)
(* kernel_bootstrap, the only ones there are, name disjoint ranges.        *)
(***************************************************************************)
Map(q) ==
  /\ Idle
  /\ count < MaxMaps
  /\ \A v \in PagesOf(q) : want[v % Space] = Unmapped
  /\ count' = count + 1
  /\ cur' = q
  /\ free' = IF q.mode = "Id" THEN free \ PagesOf(q) ELSE free
  /\ stack' = <<Frame(0, RootTable, FirstPage(q), EndPage(q) % Top)>>
  /\ want' = [v \in 0 .. Space - 1 |->
                IF \E u \in Touched(q) : u % Space = v THEN Wanted(q, v) ELSE want[v]]
  /\ UNCHANGED <<mem, panicked>>

-----------------------------------------------------------------------------
\* One turn of the innermost loop.
Callers == Front(stack)
Active  == Last(stack)
Here    == Entry(Active.table, Index(Active.level, Active.base))

\* std::min of the chunk's end and the range's; map_l3 goes page by page.
ChunkEnd ==
  IF Active.level = 3 THEN NextChunk(3, Active.base)
  ELSE Min({NextChunk(Active.level, Active.base), Active.end})

InLoop == stack # <<>> /\ ~panicked /\ Active.base < Active.end

\* Writes this turn's entry.
WriteEntry(d) ==
  mem' = [p \in DOMAIN mem \cup {Active.table} |->
            IF p = Active.table
            THEN [Row(p) EXCEPT ![Index(Active.level, Active.base)] = d] ELSE mem[p]]

\* base = chunk_end, in the same loop.
Advance == Append(Callers, [Active EXCEPT !.base = ChunkEnd])

\* The same, after the call of the next level's loop on table t.
Descend(t) == Append(Advance, Frame(Active.level + 1, t, Active.base, ChunkEnd))

\* Seeded fault: alloc_page does not set the bit of the page it returns.
Taken_unmarked == free
\* alloc_page gives the first free page and takes it out of the allocator.
Taken == free \ {Min(free)}

\* A block descriptor can stand for the whole chunk.
BlockFits ==
  /\ Active.level \in {1, 2}
  /\ cur.mode # "New"
  /\ ChunkEnd - Active.base = Cover[Active.level]
  /\ Active.base % Cover[Active.level] = 0
  /\ ~IsValid(Here)

MapBlock ==
  /\ InLoop
  /\ BlockFits
  /\ WriteEntry(make_block(PhysOf(cur.mode, Active.base), cur.attr))
  /\ stack' = Advance
  /\ UNCHANGED <<free, cur, want, count, panicked>>

\* memset as it is: the page keeps what it held, except that the low byte of
\* its first word may be cleared (arch/string.S:67-75).
Memset(row) == {row, [row EXCEPT ![0] = Invalid]}

\* The entry is invalid: a page from the allocator becomes the next table.
NewTable ==
  /\ InLoop
  /\ Active.level < 3
  /\ ~BlockFits
  /\ ~IsValid(Here)
  /\ free # {}
  /\ LET t == Min(free)
         i == Index(Active.level, Active.base)
     IN \E row \in Memset(Row(t)) :
          /\ mem' = [p \in DOMAIN mem \cup {Active.table, t} |->
                       IF p = Active.table
                       THEN [Row(p) EXCEPT ![i] = make_table(t)]
                       ELSE IF p = t THEN row ELSE mem[p]]
          /\ free' = Taken
          /\ stack' = Descend(t)
  /\ UNCHANGED <<cur, want, count, panicked>>

\* A valid entry is followed, whatever it is: a block is taken for a table.
FollowEntry ==
  /\ InLoop
  /\ Active.level < 3
  /\ IsValid(Here)
  /\ stack' = Descend(Here.addr)
  /\ UNCHANGED <<mem, free, cur, want, count, panicked>>

MapPage ==
  /\ InLoop
  /\ Active.level = 3
  /\ IF cur.mode = "New"
     THEN /\ free # {}
          /\ free' = Taken
          /\ WriteEntry(make_page(Min(free), cur.attr))
     ELSE /\ WriteEntry(make_page(PhysOf(cur.mode, Active.base), cur.attr))
          /\ UNCHANGED free
  /\ stack' = Advance
  /\ UNCHANGED <<cur, want, count, panicked>>

\* alloc_page().take() on an exhausted allocator stops the machine in the
\* middle of the call.
NeedsPage ==
  \/ Active.level < 3 /\ ~BlockFits /\ ~IsValid(Here)
  \/ Active.level = 3 /\ cur.mode = "New"

Panic ==
  /\ InLoop
  /\ NeedsPage
  /\ free = {}
  /\ panicked' = TRUE
  /\ UNCHANGED <<mem, free, stack, cur, want, count>>

Return ==
  /\ stack # <<>> /\ ~panicked
  /\ Active.base >= Active.end
  /\ stack' = Callers
  /\ UNCHANGED <<mem, free, cur, want, count, panicked>>

Step == MapBlock \/ NewTable \/ FollowEntry \/ MapPage \/ Panic \/ Return

\* After a panic, or when nothing is left to map.
Rest == (panicked \/ stack = <<>>) /\ UNCHANGED vars

Next == (\E q \in Requests : Map(q)) \/ Step \/ Rest

\* map runs with interrupts masked on the only processor: it is never left.
Spec == Init /\ [][Next]_vars /\ WF_vars(Step)

-----------------------------------------------------------------------------
\* The walk keeps its shape: the pending calls are map_l0..map_l3 in this order
\* and no deeper, and tables are whole pages of RAM (page.cpp:77-236).
TypeOK ==
  /\ \A p \in DOMAIN mem : DOMAIN mem[p] = 0 .. R - 1
  /\ free \subseteq Ram
  /\ \A k \in 1 .. Len(stack) :
       stack[k].level = k - 1 /\ stack[k].base \in 0 .. Top - 1
  /\ Len(stack) <= 4
  /\ count \in 0 .. MaxMaps
  /\ panicked \in BOOLEAN

Matches(t, w) ==
  /\ t.attr = w.attr
  /\ IF w.addr = Anywhere THEN t.addr \in Ram \ free ELSE t.addr = w.addr

\* At every moment, in the middle of a call and after a panic too, a virtual
\* page is either unmapped or maps to exactly what was asked for it, with the
\* attributes asked for: no mapping leaks outside the requested range
\* (page.cpp:76-236).
NoStrayMapping ==
  \A v \in 0 .. Space - 1 :
    LET t == Translate(v) IN t = Unmapped \/ Matches(t, want[v])

\* When map has returned, every page of every range asked for is mapped,
\* whichever mixture of blocks and pages was chosen and in whatever order the
\* calls came (page.cpp:76-236).
AllMappedWhenDone ==
  Idle => \A v \in 0 .. Space - 1 : want[v] # Unmapped => Translate(v) # Unmapped

\* Every page has one use: as the table below one entry, or behind one page of
\* a New mapping.  Two uses of a page would let one mapping edit another
\* (page.cpp:98-111, 230-231).
TableLinks ==
  {l \in (DOMAIN mem) \X (0 .. R - 1) :
     mem[l[1]][l[2]].kind = "next" /\ mem[l[1]][l[2]].attr = NoAttr}
NewPages == {v \in 0 .. Space - 1 : want[v].addr = Anywhere /\ Translate(v) # Unmapped}

PagesHaveOneUse ==
  /\ TypeOK
  /\ \A k, l \in TableLinks : mem[k[1]][k[2]].addr = mem[l[1]][l[2]].addr => k = l
  /\ \A v \in NewPages : Translate(v).addr \notin DOMAIN mem
  /\ \A u, v \in NewPages : Translate(u).addr = Translate(v).addr => u = v

\* No step of any call changes what an already mapped page maps to, not even
\* while tables are being inserted above or beside it (page.cpp:98-111,
\* 126-159, 172-205).
MappingsStay ==
  [][\A v \in 0 .. Space - 1 :
       Translate(v) # Unmapped => Translate(v)' = Translate(v)]_vars

\* Every call of map comes to an end (page.cpp:88-236).
MapEnds == stack # <<>> ~> (stack = <<>> \/ panicked)
=============================================================================
