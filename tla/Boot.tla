-------------------------------- MODULE Boot --------------------------------
(***************************************************************************)
(* kernel_bootstrap (kernel/kernel_boot.cpp 33-166): Discover reads the    *)
(* machine from the device tree, the allocator of PhysMem feeds the page   *)
(* tables of PageTables, then the MMU is switched on and every pointer the *)
(* kernel goes on using is moved to the higher half.                       *)
(*                                                                         *)
(* PhysMem counts bytes, PageTables pages; a frame is a physical page's    *)
(* number.  The pages PageTables may take are those whose bit is clear in  *)
(* PhysMem's bitmaps.  PhysMem's regions are constants: boot is followed   *)
(* past Discover where these are the regions found.                        *)
(***************************************************************************)
EXTENDS Integers, Sequences, FiniteSets

CONSTANTS
  R,            \* entries per table
  PageSize,     \* bytes per page
  BitsPerByte,  \* pages per byte of a bitmap
  NRegions,     \* banks of RAM
  Span,         \* their spans
  Text,         \* the physical span of the kernel's text and rodata
  Data,         \* the physical span of its data, bss and stack
  RootTable,    \* the frame of l0_table, in Data
  Fdt,          \* the span of the device tree blob
  Byte, CellBytes, MaxRegions, Blobs, Magic,  \* see Discover
  RamBits       \* what the memory of a bitmap may hold after memset

KernelBase == R * R * R * R * PageSize
PhyBase    == KernelBase + (KernelBase \div 2)

Device == {"uart", "gicd", "gicr"}

Shift(s, off) == [base |-> s.base + off, size |-> s.size]

FrameOf(a) == a \div PageSize
FramesOf(s) == {p \in FrameOf(s.base) .. FrameOf(s.base + s.size) :
                  p * PageSize < s.base + s.size}

\* Seeded fault: the device tree is not handed to PageAllocator::init.
ReservedSpans_noFdt == {Shift([base |-> Text.base, size |-> Text.size + Data.size], KernelBase)}
\* The spans passed to PageAllocator::init.  The kernel's is in link addresses.
ReservedSpans ==
  {Shift([base |-> Text.base, size |-> Text.size + Data.size], KernelBase), Fdt}

VARIABLES
  phase, inited, bitmap, bitmapSize, used, held, fault,  \* see PhysMem
  mem, stack, cur, want, count, panicked,                \* see PageTables
  fdt, stage, device, cells, num, regions,    \* see Discover
  call,    \* index of the next page_manager.map call
  next,    \* the next page reserve_page_at is called for
  base,    \* uart_base, gicd_base, gicr_base
  tree,    \* FDT::base_ptr
  l0,      \* PageTablesManager::l0_table
  code,    \* what is added to the physical address of the code by the pc
  sp       \* and of the stack by the stack pointer

physVars  == <<phase, inited, bitmap, bitmapSize, used, held, fault>>
tableVars == <<mem, stack, cur, want, count, panicked>>
foundVars == <<fdt, device, cells, num, regions>>
highVars  == <<foundVars, base, tree, l0, code, sp>>
vars == <<physVars, tableVars, stage, call, next, highVars>>

D == INSTANCE Discover

Phys == INSTANCE PhysMem WITH
  Reserved <- ReservedSpans, HighMapped <- {}, StaleSize <- {0},
  Owner <- {"tables"}, Addr <- {}

FreeFrames == {FrameOf(p) : p \in Phys!FreePages}

Tables == INSTANCE PageTables WITH
  free <- FreeFrames, Ram <- {FrameOf(p) : p \in Phys!Page},
  StaleRow <- [i \in 0 .. R - 1 |-> [kind |-> "fault", addr |-> 0, attr |-> "none"]],
  Attr <- {"NormalPRO", "NormalPRW", "DevicePRW"}, Requests <- {}, MaxMaps <- 6 + NRegions

-----------------------------------------------------------------------------
(***************************************************************************)
(* SizeAssumption: 512 entries in a table, 4096 bytes in a page, 8 bits in *)
(* a byte.                                                                 *)
(* BankAssumption: a bank holds whole pages and whole bytes of bitmap.     *)
(* Banks come in ascending order, so that PhysMem and PageTables mean the  *)
(* same page by the first free one, and end before the last chunk of level *)
(* 0 of the direct map.                                                    *)
(* ImageAssumption: where the kernel and the device tree are.  The tree    *)
(* starts a page, and lies in a bank or apart from all.                    *)
(* BlobAssumption: a device tree tells of a machine, whose devices are in  *)
(* the lower half.                                                         *)
(***************************************************************************)
ASSUME SizeAssumption ==
  /\ R \in Nat /\ R > 1 /\ R % 2 = 0
  /\ PageSize \in Nat \ {0} /\ BitsPerByte \in Nat \ {0}
  /\ CellBytes \in Nat \ {0} /\ MaxRegions \in Nat \ {0}
  /\ RamBits \subseteq SUBSET Nat

\* The physical spans that a map in either half can name.
InHalf(s, pages) ==
  s \in [base : Nat, size : Nat \ {0}] /\ s.base + s.size <= pages * PageSize

ASSUME BankAssumption ==
  /\ NRegions \in Nat \ {0}
  /\ Span \in [1 .. NRegions -> [base : Nat, size : Nat]]
  /\ \A r \in 1 .. NRegions :
       /\ InHalf(Span[r], Tables!Half - R * R * R)
       /\ Span[r].base % PageSize = 0
       /\ Span[r].size % (PageSize * BitsPerByte) = 0
  /\ \A q, r \in 1 .. NRegions : q < r => Span[q].base + Span[q].size <= Span[r].base

ASSUME ImageAssumption ==
  /\ InHalf(Text, Tables!Half) /\ InHalf(Data, Tables!Half) /\ InHalf(Fdt, Tables!Half)
  /\ Text.base % PageSize = 0
  /\ Data.base = Text.base + Text.size
  /\ RootTable \in FramesOf(Data)
  /\ Fdt.base % PageSize = 0
  /\ \A r \in 1 .. NRegions : Phys!PartOf(Fdt, Span[r]) \/ ~Phys!Overlap(Fdt, Span[r])

ASSUME BlobAssumption ==
  \A b \in Blobs :
    D!Written(b) /\ \A d \in Device : InHalf(b.machine.device[d], Tables!Half)

-----------------------------------------------------------------------------
Call(s, mode, attr) == [base |-> s.base, size |-> s.size, mode |-> mode, attr |-> attr]

\* Seeded fault: the loop starts at the second bank.
DirectCalls_skipsFirst ==
  [r \in 1 .. NRegions - 1 |->
     Call(Shift(Span[r + 1], PhyBase), "Direct", "NormalPRW")]
\* One direct map for every bank.
DirectCalls ==
  [r \in 1 .. NRegions |-> Call(Shift(Span[r], PhyBase), "Direct", "NormalPRW")]

\* Seeded fault: no map of the data, bss and stack.
Calls_noData ==
  << Call(Shift(Text, KernelBase), "Id", "NormalPRO"),
     Call(Fdt, "Id", "NormalPRO"),
     Call(device["uart"], "Id", "DevicePRW"),
     Call(device["gicd"], "Id", "DevicePRW"),
     Call(device["gicr"], "Id", "DevicePRW") >> \o DirectCalls
\* The calls of page_manager.map, in order.
Calls ==
  << Call(Shift(Text, KernelBase), "Id", "NormalPRO"),
     Call(Shift(Data, KernelBase), "Id", "NormalPRW"),
     Call(Fdt, "Id", "NormalPRO"),
     Call(device["uart"], "Id", "DevicePRW"),
     Call(device["gicd"], "Id", "DevicePRW"),
     Call(device["gicr"], "Id", "DevicePRW") >> \o DirectCalls

Init ==
  /\ Phys!Init
  /\ mem = [p \in {RootTable} |-> [i \in 0 .. R - 1 |-> Tables!Invalid]]
  /\ stack = <<>>
  /\ cur = Call([base |-> 0, size |-> 0], "Id", "none")
  /\ want = [v \in 0 .. Tables!Space - 1 |-> Tables!Unmapped]
  /\ count = 0
  /\ D!Init
  /\ call = 1
  /\ next = FrameOf(Shift(Text, KernelBase).base)
  /\ base = [d \in Device |-> device[d].base]
  /\ tree = Fdt.base
  /\ l0 = RootTable * PageSize
  /\ code = 0
  /\ sp = 0

\* A step of Discover.  What is read of a device is its uart_base or gic._base.
Find ==
  /\ D!Next
  /\ base' = [d \in Device |-> device'[d].base]
  /\ UNCHANGED <<physVars, mem, stack, cur, want, count, call, next, tree, l0, code, sp>>

\* The tree gives other regions than those of this instance of PhysMem.
Elsewhere == stage = "regions" /\ regions # Span

\* PageAllocator::init, region after region; then page_manager.init.
InitRegion ==
  /\ stage = "regions" /\ ~Elsewhere
  /\ Phys!InitRegion
  /\ stage' = IF inited' = NRegions THEN "map" ELSE "regions"
  /\ UNCHANGED <<tableVars, call, next, highVars>>

Mapping == stage = "map" /\ Tables!Idle
Mapped  == Mapping /\ call > Len(Calls)

\* Some bank has the page, and its bit is clear.
CanReserve(a) ==
  \E r \in 1 .. NRegions : Phys!Names(r, a) /\ Phys!BitOf(r, a) \notin used[r]

LeftToReserve(q) == q.mode = "Id" /\ next < Tables!EndPage(q)

\* Seeded fault: off is not incremented.
NextPage_stuck == next
\* off += page_size
NextPage == next + 1

\* One turn of the loop of map that reserves the pages of an identity map.
ReservePage ==
  /\ Mapping /\ ~Mapped
  /\ LeftToReserve(Calls[call])
  /\ IF CanReserve(next * PageSize)
     THEN Phys!ReservePageAt(next * PageSize)
     ELSE UNCHANGED physVars
  /\ next' = NextPage
  /\ UNCHANGED <<tableVars, stage, call, highVars>>

\* map_l0 is entered; the next call starts at its own first page.
EnterMap ==
  /\ Mapping /\ ~Mapped
  /\ ~LeftToReserve(Calls[call])
  /\ UNCHANGED physVars
  /\ Tables!Map(Calls[call])
  /\ call' = call + 1
  /\ next' = IF call < Len(Calls) THEN Tables!FirstPage(Calls[call + 1]) ELSE 0
  /\ UNCHANGED <<stage, highVars>>

\* A turn of map_l0 .. map_l3; a new table comes from alloc_page().
MapStep ==
  /\ stage = "map"
  /\ \/ Phys!AllocPage("tables") /\ Tables!NewTable
     \/ /\ UNCHANGED physVars
        /\ Tables!MapBlock \/ Tables!FollowEntry \/ Tables!MapPage
             \/ Tables!Panic \/ Tables!Return
  /\ UNCHANGED <<stage, call, next, highVars>>

\* enable_mmu: both TTBRs get l0_table, and the processor goes on at the same
\* low addresses.
EnableMmu ==
  /\ Mapped
  /\ stage' = "mmu"
  /\ UNCHANGED <<physVars, tableVars, call, next, highVars>>

\* PageManager<Bootstrap>::relocate
RelocateManager ==
  /\ stage = "mmu"
  /\ Phys!Relocate
  /\ l0' = l0 + KernelBase
  /\ stage' = "manager"
  /\ UNCHANGED <<tableVars, call, next, foundVars, base, tree, code, sp>>

\* The devices' addresses, and the device tree's.
RelocateDevices ==
  /\ stage = "manager"
  /\ base' = [d \in Device |-> base[d] + KernelBase]
  /\ tree' = tree + KernelBase
  /\ stage' = "devices"
  /\ UNCHANGED <<physVars, tableVars, call, next, foundVars, l0, code, sp>>

\* The stack pointer moves and kernel_main is entered at its high address.
EnterMain ==
  /\ stage = "devices"
  /\ sp' = sp + KernelBase
  /\ code' = code + KernelBase
  /\ stage' = "main"
  /\ UNCHANGED <<physVars, tableVars, call, next, foundVars, base, tree, l0>>

Halt == (stage = "main" \/ panicked \/ Elsewhere) /\ UNCHANGED vars

Progress ==
  \/ Find \/ InitRegion \/ ReservePage \/ EnterMap \/ MapStep
  \/ EnableMmu \/ RelocateManager \/ RelocateDevices \/ EnterMain

Next == Progress \/ Halt

\* One processor, interrupts masked (boot.S:66, 156-159): boot goes on.
Spec == Init /\ [][Next]_vars /\ WF_vars(Progress)

-----------------------------------------------------------------------------
MmuOn == stage \in {"mmu", "manager", "devices", "main"}

\* An access through address a, meant for physical address p, arrives there
\* with the attributes attr.
Arrives(a, p, attr) ==
  LET t == Tables!Translate(FrameOf(a) % Tables!Space)
  IN t.addr = FrameOf(p) /\ t.attr = attr

Bytes(s) == s.base .. s.base + s.size - 1

\* From the moment the MMU is on, in every stage of the relocation, the code
\* the processor runs, its stack and data, the device tree and the device
\* registers are all reached through the address in use at that stage, with
\* the right memory type (kernel_boot.cpp:101-119 against 122-165).
NothingLost ==
  MmuOn =>
    /\ \A p \in Bytes(Text) : Arrives(code + p, p, "NormalPRO")
    /\ \A p \in Bytes(Data) : Arrives(sp + p, p, "NormalPRW")
    /\ \A n \in 0 .. Fdt.size - 1 : Arrives(tree + n, Fdt.base + n, "NormalPRO")
    /\ \A d \in Device : \A n \in 0 .. device[d].size - 1 :
         Arrives(base[d] + n, device[d].base + n, "DevicePRW")

\* With the MMU on, the page tables can still be edited: l0_table is reached
\* through its pointer, and every other table through phy2virt
\* (page.cpp:101-103, 152-155, 268).
TablesReachable ==
  MmuOn =>
    /\ Arrives(l0, RootTable * PageSize, "NormalPRW")
    /\ \A t \in DOMAIN mem \ {RootTable} :
         Arrives(PhyBase + t * PageSize, t * PageSize, "NormalPRW")

\* Pages that the allocator keeps, or gave for tables, and the tables.
BitmapFrames == UNION {FramesOf(Phys!BitmapSpan(r, Phys!BitmapPlace[r])) :
                         r \in {q \in 1 .. inited : Phys!HasBitmap(q)}}
Given == {FrameOf(p) : p \in held["tables"]}
Written == BitmapFrames \cup Given \cup (DOMAIN mem \ {RootTable})

\* Neither a bitmap nor a page table is ever put over the device tree, whose
\* strings and cells boot goes on reading (kernel_boot.cpp:95).
FdtIntact == Written \cap FramesOf(Fdt) = {}

\* Nor over the running kernel, which is passed as a reserved span too
\* (kernel_boot.cpp:94).
KernelIntact == Written \cap (FramesOf(Text) \cup FramesOf(Data)) = {}

\* Once the page allocator is relocated its bitmaps are reached through their
\* pointers: "from now, everything that needs the higher half address works"
\* (kernel_boot.cpp:127).
BitmapsReachable ==
  stage \in {"manager", "devices", "main"} =>
    \A r \in 1 .. NRegions : Phys!HasBitmap(r) =>
      Arrives(bitmap[r], Phys!BitmapPlace[r], "NormalPRW")

\* Boot works with the machine the device tree describes, or stops before the
\* allocator sees any other (kernel_boot.cpp:41-91).
FindsTheMachine == D!FindsTheMachine

\* Boot reaches kernel_main, or stops for want of memory or of something in
\* the device tree (kernel_boot.cpp:41-165).
BootEnds == <>(stage = "main" \/ panicked \/ Elsewhere)
=============================================================================
