------------------------------- MODULE MCBoot -------------------------------
(***************************************************************************)
(* The memory map of QEMU's virt machine in small: devices below page 16,  *)
(* RAM from there on.  Four entries per table, two-byte pages, two pages   *)
(* per byte of bitmap, so that the bitmap of the first bank takes several  *)
(* pages.                                                                  *)
(***************************************************************************)
EXTENDS Boot, SequencesExt, TLC

Pages(first, n) == [base |-> first * PageSize, size |-> n * PageSize]

MCSpan == << Pages(16, 32), Pages(48, 8) >>

MCText == Pages(40, 2)
MCData == Pages(42, 2)

\* At the start of RAM, ending inside a page.
MCFdt == [base |-> 16 * PageSize, size |-> 3]

\* Redistributors as one aligned block, and across two blocks.
MCDevices ==
  [uart |-> Pages(9, 1), gicd |-> Pages(2, 1), gicr |-> Pages(4, 4)]
MCDevicesAcross ==
  [uart |-> Pages(12, 1), gicd |-> Pages(1, 2), gicr |-> Pages(6, 5)]

MCRamBits == { {}, {1, 20} }

\* One large bank: the place before the kernel holds no more than its bitmap
\* (16 GiB on virt, where 0x80 pages lie before the kernel).
MCLargeSpan == << Pages(16, 48) >>
MCLargeText == Pages(28, 2)
MCLargeData == Pages(30, 2)

-----------------------------------------------------------------------------
(***************************************************************************)
(* Device trees: two-bit bytes, two bytes to a cell, room for two regions. *)
(***************************************************************************)
Cell(v) == [i \in 1 .. CellBytes |-> (v \div Byte ^ (CellBytes - i)) % Byte]
MCCellRange == Byte ^ CellBytes
Pair(v) == Cell(v \div MCCellRange) \o Cell(v % MCCellRange)

\* An entry of reg with na cells of address and ns of size.
Number(v, n) == IF n = 2 THEN Pair(v) ELSE Cell(v)
Entry(s, na, ns) == Number(s.base, na) \o Number(s.size, ns)

Entries(ss, na, ns) ==
  FoldLeft(LAMBDA es, s : es \o Entry(s, na, ns), <<>>, ss)

Blob(dev, banks, na, ns) ==
  [magic |-> Magic,
   nodes |-> {"memory", "gic", "uart", "virtio"},
   prop |-> [ uart |-> Entry(dev.uart, 2, 2),
              gic  |-> Entry(dev.gicd, 2, 2) \o Entry(dev.gicr, 2, 2),
              memory |-> Entries(banks, na, ns) ]
            @@ ("size-cells" :> Cell(ns)) @@ ("address-cells" :> Cell(na)),
   machine |-> [device |-> dev, banks |-> banks]]

\* The RAM of this instance; and with banks there is no room for.
Plain == Blob(MCDevices, Span, 2, 2)
TooMany ==
  Blob(MCDevicesAcross, Span \o << Pages(60, 2), Pages(62, 1) >>, 2, 2)

\* Other RAM, low enough for one cell: none, one bank, two, three.
LowRam(n) == [i \in 1 .. n |-> [base |-> 3 * i, size |-> 2]]
Other == {Blob(MCDevices, LowRam(n), na, ns) :
            n \in 0 .. 3, na \in 1 .. 2, ns \in 1 .. 2}

Without(name) ==
  [Plain EXCEPT !.prop = [q \in DOMAIN Plain.prop \ {name} |-> Plain.prop[q]]]

\* No device tree; a node or a property that is not there; devices behind a
\* bus with one cell; a controller with its first range only.
Flawed ==
  {[Plain EXCEPT !.magic = Magic + 1]}
  \cup {[Plain EXCEPT !.nodes = @ \ {n}] : n \in Plain.nodes}
  \cup {Without(name) : name \in DOMAIN Plain.prop}
  \cup {[Plain EXCEPT !.prop["uart"] = SubSeq(@, 1, n * CellBytes)] : n \in {2, 3}}
  \cup {[Plain EXCEPT !.prop["gic"] = SubSeq(@, 1, n * CellBytes)] : n \in {4, 6, 7}}

MCBlobs == {Plain, TooMany} \cup Other \cup Flawed
=============================================================================
