------------------------------ MODULE Discover ------------------------------
(***************************************************************************)
(* kernel_bootstrap up to the page allocator (kernel/kernel_boot.cpp       *)
(* 40-91): the device tree blob is recognised, the nodes of the memory and *)
(* of the devices are found, and their properties are turned into the spans*)
(* that boot works with.  What cannot be found or read stops the kernel.   *)
(*                                                                         *)
(* How a node is found is DeviceTree's matter.  Here a blob is what there  *)
(* is to find: the nodes it has, and the bytes of their properties, in big-*)
(* endian cells.  fdt.machine is what these bytes were written from.       *)
(***************************************************************************)
EXTENDS Integers, Sequences, SequencesExt

CONSTANTS
  Byte,         \* values of a byte
  CellBytes,    \* bytes of a cell, 4 in the code
  MaxRegions,   \* regions there is room for, 8 in the code
  Blobs,        \* the device trees the kernel may be given
  Magic         \* FDT::magic_number

VARIABLES
  fdt,      \* [magic, nodes, prop, machine]
  stage,    \* how far kernel_bootstrap has come
  device,   \* uart_base and uart_size, gicd_*, gicr_*
  cells,    \* #address-cells and #size-cells of the root
  num,      \* regions.num
  regions,  \* the spans of the regions set so far
  panicked  \* the kernel has stopped

found == <<device, cells, num, regions>>
vars == <<fdt, stage, found, panicked>>

Device == {"uart", "gicd", "gicr"}
Nowhere == [base |-> 0, size |-> 0]

Init ==
  /\ fdt \in Blobs
  /\ stage = "fdt"
  /\ device = [d \in Device |-> Nowhere]
  /\ cells = [addr |-> 0, size |-> 0]
  /\ num = 0
  /\ regions = <<>>
  /\ panicked = FALSE

-----------------------------------------------------------------------------
\* Seeded fault: the last byte is the highest.
read_be_32_little(bytes) == FoldRight(LAMBDA b, v : v * Byte + b, bytes, 0)
\* The value of a cell: its first byte is the highest.
read_be_32(bytes) == FoldLeft(LAMBDA v, b : v * Byte + b, 0, bytes)

CellRange == Byte ^ CellBytes

\* FDTProperty::u32_at, where it finds something
u32_at(data, off) == read_be_32(SubSeq(data, off + 1, off + CellBytes))

\* The property is there and n cells of it from off on: otherwise u32_at finds
\* nothing, and take() stops the kernel.
HasCells(b, name, off, n) ==
  /\ name \in DOMAIN b.prop
  /\ off + n * CellBytes <= Len(b.prop[name])

\* Two cells as one number: u32_at(off) << 32 | u32_at(off + 4)
PairAt(data, off) ==
  u32_at(data, off) * CellRange + u32_at(data, off + CellBytes)

SpanAt(data, off) ==
  [base |-> PairAt(data, off), size |-> PairAt(data, off + 2 * CellBytes)]

\* Boot goes on with the next stage, or the kernel stops.
Proceed(ok, next) ==
  IF ok THEN stage' = next /\ UNCHANGED panicked
        ELSE panicked' = TRUE /\ UNCHANGED stage

\* try_read_fdt(dtb).take(...)
ReadFdt ==
  /\ stage = "fdt"
  /\ Proceed(fdt.magic = Magic, "nodes")
  /\ UNCHANGED <<fdt, found>>

\* find_node_prefix("memory") and the three find_compatible, each with take.
FindNodes ==
  /\ stage = "nodes"
  /\ Proceed({"memory", "gic", "uart", "virtio"} \subseteq fdt.nodes, "uart")
  /\ UNCHANGED <<fdt, found>>

\* What the kernel leaves half set when it stops, nobody reads.
ReadUart ==
  /\ stage = "uart"
  /\ LET ok == HasCells(fdt, "uart", 0, 4)
     IN /\ Proceed(ok, "gic")
        /\ device' = IF ok THEN [device EXCEPT !["uart"] = SpanAt(fdt.prop["uart"], 0)]
                           ELSE device
  /\ UNCHANGED <<fdt, cells, num, regions>>

ReadGic ==
  /\ stage = "gic"
  /\ LET ok == HasCells(fdt, "gic", 0, 8)
         gic == fdt.prop["gic"]
     IN /\ Proceed(ok, "cells")
        /\ device' =
             IF ok THEN [device EXCEPT !["gicd"] = SpanAt(gic, 0),
                                       !["gicr"] = SpanAt(gic, 4 * CellBytes)]
                   ELSE device
  /\ UNCHANGED <<fdt, cells, num, regions>>

\* Seeded fault: a bank is taken to be its address.
entry_size_address(c) == c.addr * CellBytes
entry_size(c) == (c.addr + c.size) * CellBytes

\* Seeded fault: as many regions as the property has entries.
Capped_not(n) == n
\* regions.num < 8 ? regions.num : 8
Capped(n) == IF n < MaxRegions THEN n ELSE MaxRegions

HasBanks(b) ==
  /\ HasCells(b, "size-cells", 0, 1) /\ HasCells(b, "address-cells", 0, 1)
  /\ "memory" \in DOMAIN b.prop
CellsOf(b) == [addr |-> u32_at(b.prop["address-cells"], 0),
               size |-> u32_at(b.prop["size-cells"], 0)]

ReadCells ==
  /\ stage = "cells"
  /\ LET ok == HasBanks(fdt)
         c == CellsOf(fdt)
     IN /\ Proceed(ok, "banks")
        /\ cells' = IF ok THEN c ELSE cells
        /\ num' = IF ok
                  THEN Capped(Len(fdt.prop["memory"]) \div entry_size(c))
                  ELSE num
  /\ UNCHANGED <<fdt, device, regions>>

\* One turn of the loop over the banks: always four cells.
ReadBank ==
  /\ stage = "banks"
  /\ Len(regions) < num
  /\ LET off == Len(regions) * entry_size(cells)
         ok == HasCells(fdt, "memory", off, 4)
     IN /\ Proceed(ok, "banks")
        /\ regions' = IF ok THEN Append(regions, SpanAt(fdt.prop["memory"], off))
                            ELSE regions
  /\ UNCHANGED <<fdt, device, cells, num>>

EndBanks ==
  /\ stage = "banks"
  /\ Len(regions) = num
  /\ stage' = "regions"
  /\ UNCHANGED <<fdt, found, panicked>>

Next ==
  /\ ~panicked
  /\ \/ ReadFdt \/ FindNodes \/ ReadUart \/ ReadGic
     \/ ReadCells \/ ReadBank \/ EndBanks

Discovering == stage \in {"fdt", "nodes", "uart", "gic", "cells", "banks"}

-----------------------------------------------------------------------------
(***************************************************************************)
(* What it means that a blob was written from its machine: the cells of    *)
(* its properties, as far as they are there, are the machine's numbers.  A *)
(* bank has one or two cells of address and of size, as the root node says.*)
(***************************************************************************)
Spans == [base : Nat, size : Nat]

BigEndian(bytes) == FoldLeft(LAMBDA v, b : v * Byte + b, 0, bytes)
CellAt(data, off) == BigEndian(SubSeq(data, off + 1, off + CellBytes))

\* The number in one or two cells.
NumberAt(data, off, n) ==
  IF n = 1 THEN CellAt(data, off)
  ELSE CellAt(data, off) * CellRange + CellAt(data, off + CellBytes)

\* A span with na cells of address and ns of size.
EntryAt(data, off, na, ns) ==
  [base |-> NumberAt(data, off, na), size |-> NumberAt(data, off + na * CellBytes, ns)]

BanksWritten(b) ==
  LET na == CellAt(b.prop["address-cells"], 0)
      ns == CellAt(b.prop["size-cells"], 0)
      width == (na + ns) * CellBytes
      banks == b.machine.banks
  IN /\ na \in 1 .. 2 /\ ns \in 1 .. 2
     /\ Len(b.prop["memory"]) = Len(banks) * width
     /\ \A i \in 1 .. Len(banks) :
          banks[i] = EntryAt(b.prop["memory"], (i - 1) * width, na, ns)

Written(b) ==
  /\ \A name \in DOMAIN b.prop : b.prop[name] \in Seq(0 .. Byte - 1)
  /\ b.machine.device \in [Device -> Spans] /\ b.machine.banks \in Seq(Spans)
  /\ HasCells(b, "uart", 0, 4) =>
       b.machine.device["uart"] = EntryAt(b.prop["uart"], 0, 2, 2)
  /\ HasCells(b, "gic", 0, 8) =>
       /\ b.machine.device["gicd"] = EntryAt(b.prop["gic"], 0, 2, 2)
       /\ b.machine.device["gicr"] = EntryAt(b.prop["gic"], 4 * CellBytes, 2, 2)
  /\ HasBanks(b) => BanksWritten(b)

\* The banks there is room for, as the machine has them.
Expected ==
  SubSeq(fdt.machine.banks, 1, Capped(Len(fdt.machine.banks)))

\* Boot works with the devices and the RAM the tree describes, in the form it
\* describes them, or stops: never with others.  The code reads every address
\* and size as two cells (kernel_boot.cpp:52, 62, 84); where a tree gives one,
\* the last read runs out of the property and the kernel stops.  That fails
\* where the entries after those there is room for are read instead, so such a
\* tree must not have more than MaxRegions banks.
FindsTheMachine ==
  ~Discovering =>
    /\ device = fdt.machine.device
    /\ Len(regions) <= MaxRegions
    /\ \/ regions = Expected
       \/ Len(fdt.machine.banks) > MaxRegions /\ cells # [addr |-> 2, size |-> 2]
=============================================================================
