# A TLA+ development of M OS and mstd

M OS is an AArch64 kernel that boots on QEMU's `virt` machine, finds its
hardware in a device tree, manages physical pages, builds page tables, switches
the MMU on and continues in the higher half. It is written on top of `mstd`, a
freestanding C++ library. This directory holds TLA+ models of that code, the
TLC configurations that check them on small instances, and TLAPS proofs for
every instance.

Line numbers refer to files of the repository; `region.cpp` is
`kernel/mem/region.cpp`, `page.cpp` is `kernel/mem/page.cpp`, and so on.

## Inventory

Everything runs on one processor, and no interrupt arrives during boot: it
masks them (`boot.S:66`), although an entry at EL2 unmasks them again
(`boot.S:97`), and `init_gicd`, which enables the only one, `init_exception_vector`
and `unmask_interrupt` exist but are not called yet. The only concurrency is between the kernel and its own
timer handler; the rest of what is hard is state that several pieces of code
share under different addresses, arithmetic at boundaries, exhaustion in the
middle of an operation, and long sequences of calls.

| component | state | operations | what makes it correct |
| --- | --- | --- | --- |
| physical page allocator (`region.cpp`, `region.hpp`, `allocator.hpp`) | per bank of RAM: its span, a bitmap inside the bank, the bitmap's length | `init`, `alloc_page()`, `alloc_page(addr)`, `reserve_page_at`, `free_page`, `relocate` | a page has one owner; bitmaps and reserved spans are never given out; bitmaps stay readable |
| page tables (`page.cpp`) | four levels of tables in RAM | `map` and its loops `map_l0..map_l3`; `init`; `relocate` | exactly what was asked for is mapped, nothing else, also when memory runs out |
| descriptors (`page.hpp`, `page.cpp:34-64`) | 64-bit entries | `make_*`, `is_*`, `get_addr` | processor and kernel read the same thing, permissions mean what they say |
| boot (`kernel_boot.cpp`, `boot.S`, `map.S`) | the stage, the device addresses, stack pointer and pc | device tree to `kernel_main` | whatever is in use stays addressable while its address changes |
| string routines (`string.S`) | registers and memory | `strlen`, `strcmp`, `memcmp`, `strcpy`, `memcpy`, `memset`, `strchr` | the C functions' contracts |
| exceptions (`exception.S`, `kernel/handler/`) | saved contexts | vectors, save and restore, IRQ dispatch | the interrupted code finds its registers unchanged |
| timer and GIC (`init_kernel.S`) | device registers | set-up, re-arming, enabling | no tick is lost, interrupts reach the processor only when enabled |
| console (`uart.S`, `printk.cpp`, `io.hpp`) | the UART's registers, a digit buffer | `uart_putc`, `printk` | the format string is walked to its end and not beyond, digits fit their buffer |
| formatting (`mstd/fmt`) | a back-filled buffer, the parsed placeholders | `writef`, integer and string formatters | every placeholder gets its argument, no buffer is overrun |
| device tree (`dtb.cpp`) | the blob, read only | `find_node`, `find_compatible`, `find_property`, `skip` | the walkers end and stay inside the structure block |
| `maybe`, `choice`, `lazy`, `result` | a stored value and its tag | construct, assign, move, map, match, destroy | every stored object is destroyed once, the tag fits it |
| pool of `mstd-test/maybe.cpp` | slots and a bitmap | `acquire`, `release` | a bit is set exactly where a `T` lives |
| allocators of mstd (`alloc.hpp`, `alloc-*.cpp`) | bump pointer, free list, pool slots | none that can be used: drafts | nothing to check yet |
| threads, virtual areas | none: declarations only | none | nothing to check yet |

Interactions. `kernel_bootstrap` owns a `PageManager<Bootstrap>`, which owns the
allocator. `map` calls the allocator (`reserve_page_at` for every page of an
identity map, `alloc_page` for every table) and writes tables into the pages it
gets. The bitmaps, the tables and the kernel image share the same RAM: the
allocator is what keeps them apart. `relocate` turns physical pointers into
virtual ones, which are only as good as the mappings made before. Errors are
`maybe` values whose `take` ends in `mstd::panic` and `kernel_halt`.

## Modules

| module | models | extends or uses |
| --- | --- | --- |
| `PageOwner` | what the allocator promises, abstractly | |
| `PhysMem` | `MemRegion`, `Region`, `PageAlloc`: bitmaps, pointers, relocation | refines `PageOwner` |
| `MCPhysMem` | the small memories TLC explores | `PhysMem` |
| `PhysMem_proofs` | the theorems about `PhysMem` | `PhysMem`, `TLAPS` |
| `PageTables` | `PageTablesManager::map` and `map_l0..map_l3` | |
| `MCPageTables` | the small tables and requests | `PageTables` |
| `PageTables_proofs` | the theorems about `PageTables` | `PageTables`, `TLAPS` |
| `Discover` | `kernel_bootstrap` up to the allocator: properties to devices and banks | |
| `Boot` | `kernel_bootstrap` from the device tree to `kernel_main` | instances of `Discover`, `PhysMem` and `PageTables` |
| `MCBoot` | the `virt` machine in small, and device trees | `Boot` |
| `Boot_proofs` | the theorems about `Boot` and `Discover` | `Boot`, instances of `PhysMem_proofs` and `PageTables_proofs`, `TLAPS` |
| `Descriptor` | descriptors bit by bit | |
| `MCDescriptor` | the addresses TLC uses | `Descriptor` |
| `Descriptor_proofs` | the theorems about `Descriptor` | `Descriptor`, `TLAPS` |
| `DeviceTree` | the walks of `dtb.cpp` and `print`, token by token | |
| `MCDeviceTree` | the node names TLC uses | `DeviceTree` |
| `DeviceTree_proofs` | the theorems about `DeviceTree` | `DeviceTree`, `TLAPS` |
| `Undisturbed` | what interrupted code sees of a handler: nothing | |
| `Interrupts` | vectors, saved context, dispatch, timer, panic | refines `Undisturbed` |
| `Interrupts_proofs` | the theorems about `Interrupts` | `Interrupts`, `TLAPS` |
| `Ownership` | what a container of values promises about what they own | |
| `Maybe` | the concrete `mstd::maybe<T>` | refines `Ownership` |
| `Values` | the state the containers below share: who owns what, where | extends `Maybe` |
| `Choice` | `choice.hpp`, and `visit` and `match` of `mstd-test/choice.cpp` | extends `Values` |
| `Lazy` | `lazy.hpp` | extends `Values` |
| `Pool` | the pool of `mstd-test/maybe.cpp` and the `maybe<T&>` it returns | extends `Values` |
| `Containers` | a program that uses all of them and moves values between them | extends `Choice`, `Lazy`, `Pool` |
| `MCContainers` | the types, chains and symmetry TLC uses | `Containers` |
| `Containers_proofs` | the theorems about `Maybe` and `Containers` | `Containers`, `TLAPS` |
| `FormatInteger` | `write_format` of integers and pointers, `backward_buffer` | |
| `Writef` | `writef`, `parse_fmt`, strings, the console as sink | extends `FormatInteger` |
| `MCWritef` | the format strings and arguments TLC uses | `Writef` |
| `Printk` | `printk`: the walk, the digits, the array they are collected in | |
| `Console` | a call of `printk`, then one of `writef` | extends `Writef`, instance of `Printk` |
| `MCConsole` | the calls TLC tries | `Console`, `MCWritef` |
| `Console_proofs` | the theorems about `Console` | `Console`, `TLAPS` |

### PhysMem

A bitmap is the set of indices of its set bits (`used[r]`), including those of
the byte after its end, which the calls that name an address can reach when the
page count is not a multiple of eight. `bitmap[r]` is the pointer, zero for
`nullptr`; `held` is a history variable: what each caller was given and has not
returned. `InitRegion`, `AllocPage`, `AllocPageAt`, `ReservePageAt`, `FreePage`
and `Relocate` are the operations, each the whole of its handler; a call that
changes nothing is a stuttering step. `WritePage` is what callers do with the pages
they are given, as `map` does with its tables: they write to them, and if bits of a
bitmap are stored there (`StoredIn`), these are what was written. No property would
survive that; `HeldAvoidsBits` says that no page a caller holds stores any. `memset` is modelled as it is: it does not
clear (see the findings), so a bitmap starts with any set of bits in `RamBits`.
Reading a bitmap byte through a pointer that is not mapped sets `fault` and ends
the run: no vector table is installed during boot. That happens for the bank
without a bitmap, whose null pointer is relocated with the others (see the
findings).

Assumptions, named in the module: banks are page-aligned and disjoint, as the
memory node of a device tree has them; where a bank has pages beyond its bitmap,
the bitmap does not fill its last page (`TailAssumption`), so that the byte which has
their bits is in a page of the bitmap, which the code does not see to (see the
findings); the memory a
relocated null pointer would reach is not mapped (`HighAssumption`). Only the
owner of a page frees it: the code checks nothing there and calls `free_page`
nowhere.

### PageTables

From `map` on the code counts in pages, and so does the model. `stack` holds the
activations of the four nested loops; a step is one turn of the innermost one,
so that the tables can be inspected between any two turns and after a panic.
`Translate` is the processor's table walk; `want` is the history of what was
asked for. The three steps a turn can take are those of the code: write a block
(`MapBlock`), link a new table (`NewTable`), follow the entry that is there
(`FollowEntry`, block or table alike); in `map_l3` write a page (`MapPage`).
`alloc_page().take()` on an empty allocator is `Panic`. The arithmetic keeps the
two widths that matter: `align(base + 1)` wraps at the top of the address space
and descriptors keep addresses below bit 47.

### Discover

The blob is a record: its magic number, the nodes that can be found (how, is
`DeviceTree`'s matter), the bytes of each property, and, for the property to
compare with, the machine these bytes were written from. A step is a statement
of `kernel_boot.cpp:41-91`: recognise the blob, find the nodes, read the UART's
and the controller's ranges, the cell counts, and the banks one by one. Every
read is `u32_at`: bytes in big-endian order, or nothing behind the end of the
property, and nothing ends in a panic. Addresses and sizes are read as two cells
each, whatever the tree's cell counts, which only step from bank to bank.

### Boot

`Boot` runs the three together. `PhysMem`'s regions are constants, so boot is
followed past `Discover` where the regions found are these; `Elsewhere` is the end
of the others. Then a `NewTable` step of `PageTables` is at the same
time an `AllocPage` step of `PhysMem`, and `PageTables`'s free pages are computed
from `PhysMem`'s bitmaps. The identity maps first call `reserve_page_at` page by
page. If the bitmaps and the set of free pages ever disagreed, the joint step
would be impossible and TLC would report a deadlock. The kernel's span is passed
in link addresses, as in the code. After the last map the stages follow the
source: MMU on, page manager relocated, devices and device tree relocated, stack
and pc moved.

What is assumed of the machine is named. `BankAssumption`: banks are page-aligned,
hold whole bytes of bitmap, come in ascending order (so that `PhysMem` and
`PageTables` mean the same page by the first free one) and end before the last
chunk of level 0 of the direct map. `ImageAssumption`: text and data follow each
other, text and device tree start a page, all lie in the lower half, and the tree
lies in a bank or apart from all. `BlobAssumption`: a blob was written from a
machine (`Discover!Written`: the cells of its properties, as far as they are there,
are that machine's numbers) whose devices are in the lower half.

### Descriptor

A word of 64 bits is the set of its bits that are 1, so `&` is intersection, `|` is
union and a shift adds to every bit's number. An entry is set as the loops of
`PageTables` set it: a table or a block where nothing valid is (`SetTable`,
`SetBlock`), a page wherever it goes (`SetPage`); `asked` is a history variable,
what it was set to last. The `Hw*` operators are the fields the architecture
defines, with addresses up to bit 47, one more than the kernel's mask has.

### Interrupts

The kernel comes up masked, or unmasked where it was entered at EL2
(`MaskedFrom`); entered at EL3 it halts. The running code is a cycle of places; each instruction writes a register or
changes the mask. `TakeIrq` and `TakeSync` are the processor's entry; then
`SaveContext` (`save_context` and the C handler it calls, which may change every
register but the callee-saved ones), `Begin`, `Serve`, `End` (`IRQ::begin`,
`common_irq_handler`, `IRQ::end`), `RestoreContext` and `Eret` follow one by one,
with the counter running between them. `SettingUp` is `init_exception_vector`
and the calls of `init_gicd`; the order is that of `init_gicd`, and interrupts are
unmasked only after it: the model is of the kernel that calls these routines as
they are meant to be called, since nothing calls them at this commit. A fault
before the vectors are installed is not modelled. The timer's output is a level;
the controller signals an enabled interrupt while none is active. `start` and
`ticks` are history variables. The refinement shows the interrupted code its
general registers, place and mask wherever they are: in the processor, in `ELR`/`SPSR`, or
in the saved context.

### DeviceTree

The structure block is a sequence of tokens, built first by the firmware's
actions (`Build`), so that every well-formed block of the bound is a case: nodes
nested anyhow, `Nop`s anywhere, properties before subnodes, no two siblings of
one name. Then one call is made (`Ask`): `find_node` with a path from any node,
`find_compatible`, `find_property`, or `print`. A frame of `stack` is a C++ call
with its node and `ptr`; the actions are the cases of the four `switch`es.
`find_node` calling itself on the next component returns its value at once and
takes the frame's place. The answers are defined without any walk, from the nodes
around a token (`Around`), and compared when a call returns. Header, byte order and
the text are left out; a value stands for its first string, which is all
`find_compatible` compares. A malformed block is not modelled: the code trusts the
firmware's.

### Maybe

A cell is a `maybe<T>` variable of the program: not constructed, valid or not,
and if valid what its `T` owns: an object, or nothing once the `T` was moved
from. `live` are the objects made and not released, `faulted` remembers a
destructor that releases one a second time. The actions are the constructors,
assignments, `take` and its relatives, and the calls with functions, by what
happens to the `T`s. `Take` leaves the maybe valid, as the code does. `Ownership`
is the abstract view: every live object is in exactly one place.

The class declares its copy constructor and copy assignment as templates
(`maybe.hpp:101-122`), which C++ never uses as such: copying a maybe copies its
bytes, also when `apply` and `apply_when_nothing` return `*this` by value. For a
`T` that owns something two destructors would then release one object. The model
leaves copies out; the repository copies only maybes of pointers.

### Values, Choice, Lazy, Pool and Containers

All containers of mstd are storage without a type and something beside it that
tells what lives there. `Values` keeps the two apart: for a choice the
discriminator (`tag`) and the type that was built in storage (`is`), for a lazy
the flag (`ready`) and what was built (`is`), for the pool the bitmap (`bit`) and
the slots. `StorageFits` says that they agree after every operation. `Places` are
all the places an object can be in that is in no maybe, `Has` what is there: each
choice, lazy and slot, the program's variables, and what was overwritten;
`HeldApart` says that every object outside maybes is in exactly one. The
operations run together with those of `Maybe`, whose `local` stands for everything
outside maybes; `own` is what the program itself has. A maybe can take from a
choice (`TakeIf`), the pool hands out references, which are what `maybe<T&>` is
made of.

What the code does, the model does: a choice that is assigned to builds over its
old value without destroying it (`choice.hpp:119-125`), which is then in `lost`;
`set` always copies and writes the discriminator of its argument's type; a
moved-from choice keeps its discriminator; the closure of `make_lazy` is not
mutable, so its arguments are copied; `release_raw` divides a distance by the
size of `T` that was divided already, and so clears the wrong bit for most
slots. In the run neither `set` nor `release_raw` breaks `StorageFits`: no alternative of
the repository's choices converts into another (`Converts`), and `main` releases
only the first slot (`Released`). Widening either constant makes TLC find the
violation.

A match that runs is `chain`: `StartMatch`, one `TryMatch` for each call in the
chain, `EndMatch` with `otherwise`. Each handler may look, move from the value, or
give the choice another alternative before the next call reads the discriminator
again. `match` of `mstd-test/choice.cpp` is a fold over a comma and an `||`, and
what it returns is that of its last function from the third on; the run has two,
as `main` does.

Left out is what does not compile where it is used: copying a choice, assigning
one choice to another, `match` with a value to return, `match_index`,
`borrow_if<T>`, `lazy<T&>`, `firm`.

### FormatInteger and Writef

A call of `writef` is a sequence of pieces, single characters or placeholders of
the grammar in `fmt_core.hpp:141-148`, and a list of arguments. The walk sees the
characters only; `PrintsTheLine` compares what reached the console with what
the pieces mean. `parse_fmt` writes into the format the argument came with, as
in the code. `PrintNumber` hands over to `FormatInteger`, whose actions are the
loops of `write_format_integer_implementation`, one character a step: digits and
zeros and the sign or prefix backwards into the buffer, then spaces and the
buffer to the console. `printed` is a history variable, the text each argument
made. The console takes every character; sinks that refuse, and the
`fmt_result` all callers drop, are left out, and strings are not null.

### Printk

A call of `printk` is a format, a `%d` and a `%u` argument. The walk is one step a
character; `PutDigit`, `Swap` and `Terminate` are the turns of the three loops
over the digit array. A number is the sequence of its digits, so that
64-bit values need no arithmetic. A write behind the twelve characters of the array
ends the model (`corrupted`), because what follows is undefined; `BufferHolds` says
that this happens to no `int`. An argument of `%d` is
the `int` that `va_arg` reads, whatever was passed. The two switch cases `%d` and `%u` have the same
code but for the sign and are one set of actions. A format that ends inside a
directive makes the code read behind it; the repository has none.

## Runs

| run | shows | bounds |
| --- | --- | --- |
| `phys_mem` | one owner per page, bitmaps and reserved spans never given out, nor a page with the bits of others, before or after relocation and whatever callers write, refinement of `PageOwner` | three banks: a plain one, one whose bitmap slides past a reserved page and that has a tail page, one without bitmap; two owners; RAM zero or dirty |
| `page_tables` | nothing stray, everything asked for, one use per page, mappings never change, calls end | four entries per table, 256 pages, six requests in any order; ten free pages, so that some orders run out |
| `page_tables_dirty_ram` | violated: tables are not cleared | the same with RAM full of old block entries |
| `boot` | boot works with the machine the device tree describes or stops; everything in use stays addressable, tables stay editable, the device tree is not overwritten, boot ends | two banks, two placements of the devices, bitmaps of several pages; device trees with up to four banks, one or two cells, and every node or property missing or short |
| `boot_bitmaps` | violated: relocated bitmaps are not mapped | the same |
| `boot_large_ram` | violated: the kernel is not reserved | one bank whose bitmap is as long as the room before the kernel |
| `descriptor` | kernel and processor read back what was written | words of 64 bits; addresses of both halves with every choice of two offset bits and of three bits of the address field, lowest and highest among them; every kind, type and permission |
| `descriptor_read_only` | violated: read-only pages are writable | the same |
| `interrupts` | handlers invisible, ticks count time, interrupts ended, a halted kernel stays halted, overdue ticks served | two scratch registers and a callee-saved one, two values, two places, counter up to 5 with a tick every 2: two ticks, each on time or late |
| `device_tree` | searches return the first answer of the tree, `print` writes all of it, walks stay in their node and end | blocks of up to seven tokens: two levels below the root, or two siblings with something in them; paths of up to two components, exact or prefix |
| `maybe` | what a value owns is released once, is in one container, and is lost by no operation but one; storage, flag, discriminator and bitmap agree; a match calls one handler; refinement of `Ownership` | three maybes alone, or two containers of any kind at a time (`MaxAlive`), among three maybes, two choices of three alternatives, two lazies and a pool of three slots in two bytes; three objects; every operation in any order |
| `format` | placeholders and directives mean what the grammar says, numbers read back and fill their width, no array is overrun but by `%u`, both walks end | for `printk` every format of up to four characters, with the shortest and longest numbers; for `writef` format strings of up to three pieces; 720 placeholders, alone and between digits, with each of ten arguments; a buffer of twelve characters and widths up to sixteen, so that some numbers do not fit |

Symmetry is used in `maybe` alone: the operations treat all objects, choices and
maybes alike, and its properties are about states and single steps.

Why these bounds are enough to be interesting: two pages per bitmap byte and
two bytes per page make bitmaps that straddle pages, tails, unaligned spans and
sliding bitmaps appear in a memory of some twenty pages. Four entries per table
keep all four levels, aligned and unaligned blocks at both block levels, and
ranges across level-0 entries in 256 pages. `MaxMaps` is the number of distinct
requests, so every order of all of them occurs, and the pool of ten pages is
just too small for some.

Fairness. `PageTables` assumes `WF_vars(Step)` and `Boot` `WF_vars(Progress)`:
one thread runs, no interrupt is enabled, and nothing else takes the processor.
`Interrupts` assumes it of `TakeIrq` and of `Handler`: a processor that can take an
interrupt does, and executes its handler, which has no loop and runs masked.
Nothing is assumed of the running code or of the counter: `TicksAreServed` is about
behaviours in which the code does not keep interrupts masked for ever, and because
the counter stops at its bound it says that the ticks before that are served.
`DeviceTree` assumes it of `Walk`: the walk is the one thing boot does.
`Console` assumes it of `printk` and `writef`: a call runs until it returns, since
the UART takes every character.
No fairness is assumed of anything else from outside. `PhysMem` has no liveness
property: its operations are loops over fixed arrays, one step each.

Every property has a seeded fault in the module it is about (the operators
marked as such), a mutation a slip in the code could make, which the run of that
property finds.

## Findings

The first four are runs that TLC finds violated; the others were met while
modelling and are what the models do.

1. `memset` uses the wrong registers and jumps out of its loop
   (`string.S:70-73`): new tables and bitmaps are not cleared. QEMU's zeroed RAM
   hides it.
2. Bitmap pointers are relocated to `kernel_base + p`, RAM is mapped at
   `phy_base + p`: after the relocation the page allocator cannot be used,
   against the comment at `kernel_boot.cpp:127`.
3. The kernel's reserved span is in link addresses and so reserves nothing
   (`kernel_boot.cpp:94`, `linker.ld:5`). With 16 GiB on `virt` the bitmap reaches the
   kernel.
4. `AP::PRO` and `AP::RO` are hexadecimal where binary was meant
   (`page.hpp:59-60`): no page is ever read-only.
5. `relocate` makes the null bitmap of a bank without one non-null
   (`region.cpp:68` against the guards `:25`, `:40`, `:52`, `:73`).
6. Copying a `maybe` copies bytes (`maybe.hpp:101-122`).
7. A number aligned to the left gets its spaces before it, like one aligned to
   the right (`integer.hpp:117`), and a negative number padded with zeros can
   be one longer than its width (`integer.hpp:104`).
8. `%u` of `printk` collects up to twenty digits in a buffer of twelve
   (`printk.cpp:53`).
9. A choice that is assigned to does not destroy its old value
   (`choice.hpp:119-125`); `set` writes the discriminator of the argument's type
   (`choice.hpp:139`).
10. `release_raw` clears the bit of another slot (`mstd-test/maybe.cpp:41`).
11. Entered at EL2 the kernel comes up unmasked (`boot.S:97` against `:65`).
12. Banks are read as two cells each, whatever the tree says
    (`kernel_boot.cpp:84-89` against `:76`): other trees end in a panic, or, with
    more banks than there is room for, in wrong banks.
13. A bitmap of whole bytes leaves out the pages of the last, incomplete byte
   (`region.hpp:96`), but the calls that name an address find their bits in the byte
   behind it (`region.cpp:42-45`). Where the bitmap fills its last page that byte is
   in a page which is given out. With such a bank, outside `TailAssumption`, TLC finds
   a page given twice: one caller gets the page behind the bitmap and a tail page,
   writes to the first, and the tail page's bit is clear again for another. A bank of
   128 MiB and one page is one.
14. `printk` is given 64-bit values for `%d`, which reads an `int`
   (`kernel_boot.cpp:80`, `:90`): bases and sizes from 2 GiB on are logged wrongly.
15. A null string prints `(null)` and is then read (`string.hpp:16-18`).
16. `read_be_64` shifts its first byte by 46 instead of 56 (`dtb.cpp:16`) and
    `u64_at` returns 32 bits (`dtb.cpp:58`); nothing calls them.

## Proofs

`PhysMem_proofs` proves, for any number and layout of banks, any page size, any
content of RAM and any callers:

- `TypeCorrect`: `Spec => []TypeOK`
- `NeverTwoOwners`: `Spec => []OnePageOneOwner`
- `BitmapsAreNeverHeld`: `Spec => []HeldAvoidsBitmaps`
- `ReservedIsNeverHeld`: `Spec => []HeldAvoidsReserved`
- `BitsAreNeverHeld`: `Spec => []HeldAvoidsBits`
- `BitmapsImplementPageOwner`: `Spec => ImplementsPageOwner`

None of the safety properties is inductive. That a page is nobody's follows from
its bit being clear only if every held page has its bit set (`HeldAreMarked`),
and that a held page is no bitmap's or reserved one only if the bits set by
`init` are never cleared (`FixedStaySet`); a free page's bit is looked for
through a pointer and a length that must still be those of `init`, shifted or
not (`Pointers`). `IInv` is the conjunction; `InitIInv` and `NextKeepsIInv`
show it inductive, with one lemma per kind of step. Underneath are lemmas about
the layout: a page address determines its bank and bit, an aligned address
whose page lies in a bank is one of its pages, and `reserve_pages` rounds
outwards, so every page that overlaps the span is marked (`OverlapMarked`), and
a page's bit is in the bitmap or in the byte after it (`PageBitStored`). That a
caller's write clears no bit rests on more of the layout: a bit is stored in a page
the bitmap lies in (`BitNearBitmap`), by `TailAssumption` also one of the byte behind
it, and a held page is none of these (`IInvAvoidsBits`). So a write changes nothing
(`WriteChangesNothing`), and `IInv` needs no part of its own for it. The
refinement maps set bits to taken pages: setting one clear bit removes exactly
its page from the free pages, clearing the bit of a held page adds exactly that.

`Containers_proofs` proves of `Maybe`, for any number of maybes and objects:

- `NothingReleasedTwice`: `Spec => []NeverReleasedTwice`
- `NothingIsLost`: `Spec => []LiveAreHeld`
- `MaybeImplementsOwnership`: `Spec => HandsOver`

Neither invariant is inductive without the other, nor without `HeldOnce`, that no
object has two owners: `SafeOwnership` is their conjunction with `TypeOK`. One
lemma per operation shows that it keeps it and that it is a step of `Ownership` or
leaves the abstract state alone.

It proves of `Containers`, for any number of maybes, choices, lazies, slots,
references and objects, and chains of any length:

- `ValuesTyped`: `ContainersSpec => []TypeOK`
- `ContainersReleaseOnce`: `ContainersSpec => [](NeverReleasedTwice /\ LiveAreHeld)`
- `ObjectsAreApart`: `ContainersSpec => []HeldApart`
- `StorageIsTold`: `ContainersSpec => []StorageFits`
- `OneHandlerRuns`: `ContainersSpec => []OneHandler`
- `ContainersImplementOwnership`: `ContainersSpec => HandsOver`

`Usage` is what these theorems suppose of the program, because the code is right
for nothing else: no alternative of a choice is built from another (`set` would
write the wrong discriminator), `match` of `mstd-test/choice.cpp` gets at most two
functions (from the third on it may call several), and only slots are released
whose bit `release_raw` computes right. The program of the repository keeps to it,
and each of the three, when dropped, lets TLC break a property. The invariant has
one part for each kind of container and one for what they share:
`OwnersOk` (the maybes' `SafeOwnership`, and every object in one place), `AltsOk`,
`ThunksOk` and `PoolOk` (what is in storage has the type its discriminator, flag or
bit tells), and `ChainOk` (how far a chain of matches has come, and how many handlers
it has run). Ownership is not inductive without the others: that a destructor
releases what lives in storage, and nothing twice, depends on the flag being right.
Every operation changes what is in one or two places; the lemmas from `StaysApart`
to `MovedToMaybe` carry `HeldApart` over such a step.

`PageTables_proofs` proves, for tables of any size, any RAM and any calls in any
order, also in the middle of a call and after a panic:

- `MapsWhatIsAsked`: `Spec => []NoStrayMapping`
- `MapsAllThatIsAsked`: `Spec => []AllMappedWhenDone`
- `TablesAreATree`: `Spec => []PagesHaveOneUse`
- `MappingsAreKept`: `Spec => MappingsStay`

All have two hypotheses. `CleanRam`, that pages read as zero before they are written,
stands for QEMU's RAM: `memset` does not clear, and `page_tables_dirty_ram` shows
that without it the first property is false. `RootApart`, that `l0_table` is none of
the allocator's pages, is the kernel's to see to: the table lies in its data, which
`kernel_bootstrap` passes to the allocator as reserved. The argument is about the tables as a
tree. `Tree` gives each table a level and the zone of virtual pages it serves, such
that an entry leads to a table one level deeper whose zone is that entry's chunk;
`OneParent` says that no table is reached by two entries, `NewApart` that no page
given to a mapping of new pages is used for anything else. With it the table walk
from the root finds, for a virtual page, the entry of the table whose zone has the
page, so writing one entry changes the translation of one chunk only. `StackOk` says
where the loops are: each activation is inside the chunk of the one around it and
stands at its table. `MapsAsWanted` is `NoStrayMapping` chunk by chunk,
`MissingIsLeft` that what is wanted and not yet mapped is still ahead of the loops,
and `LeftUnmapped` that what is ahead is not mapped, so that no block is ever met
on the way down. The assumptions on calls are those of the module: they end before
the last chunk of level 0, where `align(base + 1)` would wrap to zero and the loop
never end, and are not empty.

`Interrupts_proofs` proves, for any registers, code, frequency of the timer and
level the kernel is entered at:

- `InterruptsAreEnded`: `Spec => []AllEnded`
- `TicksAreExact`: `Spec => []TicksCountTime`
- `HaltStays`: `Spec => HaltIsFinal`
- `HandlersImplementUndisturbed`: `Spec => HandlersAreInvisible`

The invariant says which stages of the handler a saved context, an active
interrupt and a masked processor go with (`OneContext`, `OneActive`), that interrupts
are unmasked only after the controller is set up (`SetUpFirst`), and that deadlines
lie on the grid that starts where the timer was armed (`OnGrid`), for which the
remainder of the counter is needed, not only its order. For the refinement, a step of
the handler must leave all three of registers, place and mask where the interrupted
code will find them: in the saved context, in `ELR` and `SPSR`.

`Boot_proofs` proves, for any layout of memory, size of tables and pages, and any
device tree:

- `MachineIsFound`: `Spec => []FindsTheMachine`
- `FdtIsSpared`: `Spec /\ []KernelIntact => []FdtIntact`
- `BootLosesNothing`: `Spec /\ []KernelIntact => []NothingLost`
- `TablesAreReached`: `Spec /\ []KernelIntact => []TablesReachable`

The last three are about behaviours in which no bitmap or table is put over the
kernel. The code does not see to it: the kernel's span is passed to the allocator
in link addresses, `boot_large_ram` shows a machine on which a bitmap lands on the
kernel, and once `l0_table` is written over nothing is known of any translation. In
the machine of the run `boot` the hypothesis holds: TLC finds `KernelIntact` true in
all its states. The device tree needs no such hypothesis of its own: it is reserved
in physical addresses.

`Boot` is made of instances, and so is the proof. The assumptions of `PhysMem` and
`PageTables` are proved from those of `Boot` (`PhysAssumptions`, `TablesAssumptions`),
and every step of boot is a step of `PhysMem`'s or of `PageTables`'s, of both or of
neither. Then their inductive invariants hold in `Boot`, and beside them what relates the two:
`TablesGiven`, that every table but the root is in a page the allocator gave out for
tables; `Asked`, that what the calls made so far name is what the tables are to map;
`AtCall`, that the MMU is on only when the last call has returned; `Addresses`, that
every pointer has moved as far as the stage says.
`BootInv` is their conjunction with `DiscoverInv`, that what has been read so far is
the machine's. At `EnableMmu` all calls are done, so `MapsAllThatIsAsked` gives every
identity and direct mapping, and `Addresses` says which of the two an access goes
through.

`DeviceTree_proofs` proves, for every well-formed tree of any size and depth, and
every call:

- `WalksStayInTheirNodes`: `Spec => []StaysInItsNode`
- `SearchesFindTheFirst`: `Spec => []FindsTheFirst`
- `PrintWritesTheTree`: `Spec => []PrintsTheTree`

The argument counts. `Height` is how many nodes are open before a token; a walk is
in its node (`InNode`) as long as every token since has been higher than the node's.
`BlobOk` says what the firmware's actions keep: the height is positive up to the last
token, and zero there, so that the token which ends a node is met before the block
ends. `CallsOk` says that every call is in its node and that this node is the token
its caller stopped at; so when `skip` returns behind the token that brings the height
back down, its caller is again in its own.

What the walks answer needs the tree as well. `TreeOk`, kept by the firmware's actions,
says that every token has a parent and every token inside a node lies in a child of it
(`HasParents`), that properties come before subnodes (`PropsFirst`) and that siblings
have different names (`NamesDiffer`). `Hits` are the tokens at which the call asked
would return. The invariant of all searches is `Ahead`: no hit is behind a call that
searches, and none in a node that is skipped. `find_node` adds that the node it has come
down to has the names asked for above it and is around every hit (`Finding`), which is
where names must differ: it never comes back from a node that matched. `find_compatible`
answers with the node of the first property that matches, and this is the first node
only because properties come first (`FirstHasFirst`); for the same reason
`find_property` may stop at the first subnode. `print`'s depth is the length of the
stack, and what it has printed are the lines before its token (`Printing`).

`Console_proofs` proves, for every format and all arguments:

- `EveryIntFits`: `P!ArgumentsFit /\ ConsoleSpec => []BufferHolds`
- `PrintsEveryFormat`: `P!ArgumentsFit /\ ConsoleSpec => []PrintsTheFormat`
- `WritesInsideArrays`: `LinesAreStrings /\ ConsoleSpec => []InsideArrays`
- `NumbersAreReadBack`: `LinesAreStrings /\ ArgumentsAreValues /\ ConsoleSpec => []NumbersReadBack`
- `EveryLineIsPrinted`: the same with `LinesAreOfPieces`, `=> []PrintsTheLine`

`ArgumentsFit` is what `printk` expects of its callers: a format whose last directive
is complete, and an `int` of no more than ten digits. `LinesAreStrings` says that
`writef`'s pieces are made of characters. `ArgumentsAreValues` gives the arguments the
type of `erased_arg`: a number with its sign or a string, and a `fmt_spec`, where a
negative number does not show its base, as no default format in the code asks for.
`LinesAreOfPieces` says that placeholders are written in the documented grammar, which
`PrintsTheLine` is about. Nothing is supposed of the order of pieces, of a line's
braces and quotes or of widths. What a format begins and what it prints are functions defined by
recursion over it; that they exist, and so obey their equations, is shown by the least
argument they would not exist for (`LeastElement`, from the well-foundedness of `<`).
The invariant `PrintInv` then says, for each stage, what has been printed (`Walked`)
and what the array holds: the last digits backwards (`Collected`), digits in order from
both ends up to where the reversing loop is (`Reversed`), the number and a NUL.

For numbers, `NumInv` says at each stage of the formatter that the digits in the
buffer, read as a numeral, and `magnitude` times the power of the base they are worth
make up the value, and that what stands in front of them is zeros, sign or prefix; a
division by the base moves one digit from one to the other (`DigitsOf`, `Power` and `ValueOf` are recursive
functions, with their equations as lemmas). The buffer counts only where it is not
full, because what does not fit is dropped.

For lines, the text is the pieces one after the other, and `LineInv` says that the
walk stands at the end of some piece, that what has been printed is what the pieces up
to there are expected to print, and that the arguments used so far have the formats these pieces
mean (`SaidUpTo`). A step from there takes exactly one piece. For a character that is
plain; for a placeholder the walk looks for the first closing brace, which is the
piece's own because the grammar has none before it (`NoCloseBefore`), and `parse_fmt`
must stop in front of each part: a zero is the padding's and no digit of the width,
because widths do not start with one, and numerals end at the point, letter or brace
that follows (`PlaceholderRead`, `MeaningParsed`). `Turns` counts the placeholders.

`Descriptor_proofs` proves, for all addresses:

- `DescriptorsReadBack`: `Spec => []ReadsBack`
- `ProcessorReadsTheSame`: `Spec => []HardwareAgrees`
- `NothingIsReadOnly`: `Spec => []~HwReadOnly(entry)`

The invariant (`EntryInv`) says that an entry is what was made of `asked`;
`BitsOfEntry` lists for every bit when it is set. The last theorem is the finding
about `AP` for every address: shifted to their place, none of the constants has bit 7.

The proofs use the named assumptions of the modules and the hypotheses above, and
nothing else. The assumptions are on the layout (`PhysMem`), the calls (`PageTables`),
the machine and its device tree (`Boot`),
the timer's interval and the levels of entry (`Interrupts`), and that the markers for
no object, no container and an old reference are none of the things they stand
beside (`Maybe` to `Pool`). TLC evaluates them on the instances of the runs; the
inductive invariants were checked by TLC on the same instances.

Every safety property of the passing runs is stated by a theorem. Only model-checked
is liveness (`MapEnds`, `BootEnds`, `TicksAreServed`, `WalkEnds`, `ConsoleEnds`), which
needs fairness and `ENABLED` and is out of the prover's reach, and what the four
violated runs show.

## Not modelled

- The UART's registers and its polling, sinks that refuse characters, cache
  maintenance and memory ordering (`dsb`, `isb`).
- The string routines other than `memset`: `DeviceTree` and `Writef` take them by
  their contracts.
- The floating-point and SIMD registers: `exception.S` saves none of them, and the
  build does not keep the compiler from using them in a handler, so that handlers are
  invisible to the general registers, place and mask only.
- A null string argument of `writef` (`string.hpp:16-17`), which prints `(null)` and is
  then read through.
- `result.hpp`, `firm` and `maybe<firm>`: drafts that do not compile where they are
  used; so do the operations of `choice` and `lazy` listed above.
- The allocators of mstd: `object_pool` has constructors without bodies, and a bit
  search that forgets its byte (`alloc.hpp:268-289`); the arena and the free list
  are switched off by the preprocessor. The only pool that runs is the one of
  `mstd-test/maybe.cpp`.
- `map(void*)`, `remap` and `unmap`, which are empty; threads and virtual areas,
  which have no code.
- Reserved spans that only partly lie in a bank are ignored by the code
  (`region.cpp:85`) and outside `HeldAvoidsReserved`. Banks with a tail whose bitmap
  fills its last page are outside `TailAssumption`. The last 512 GiB of the
  address space, where `align(base + 1)` wraps, is outside the runs. Calls of `map`
  over ranges that are already mapped are outside too: the check for them is
  commented out (`page.cpp:217`).

## Plan

Done: `PhysMem` with `PageOwner` and proofs; `PageTables`; `Discover` and `Boot`;
`Descriptor`; `Interrupts` with `Undisturbed`; `DeviceTree`; `Maybe` with
`Ownership` and proofs; `Values`, `Choice`, `Lazy`, `Pool` and `Containers`;
`FormatInteger`, `Writef` and `Printk`; the proofs about `PageTables`, `Interrupts`,
`Containers`, `Boot`, `DeviceTree`, `Printk`, `Writef` and `Descriptor`.

To come, in this order:

1. `StringAsm`: the routines of `string.S` against the functions they stand for.
2. The UART as a bounded queue that drains, below `printk` and `writef`.
