---------------------------- MODULE MCPageTables ----------------------------
(***************************************************************************)
(* Four entries per table: blocks of 4 and 16 pages, 64 pages per level-0  *)
(* entry, 256 pages in all, the direct map from page 128 up, the higher    *)
(* half from page 256 up.  A page has two bytes.                           *)
(***************************************************************************)
EXTENDS PageTables

\* The kernel's image is not in these pages.
ASSUME RootAssumption == RootTable \notin Ram

Call(first, end, mode, attr) ==
  [base |-> first * PageSize, size |-> (end - first) * PageSize,
   mode |-> mode, attr |-> attr]

\* The kernel image, named by its higher-half address and page-aligned at
\* neither end.
MCKernel == [base |-> 289 * 2 + 1, size |-> 4, mode |-> "Id", attr |-> "ro"]
\* A device around an aligned block of four pages.
MCDevice == Call(3, 9, "Id", "dev")
\* Direct maps: two level-1 blocks, and a range across a level-0 boundary.
MCBanks  == {Call(144, 176, "Direct", "rw"), Call(189, 198, "Direct", "rw")}
MCKernelDirect == Call(256 + 12, 256 + 17, "DirectKernel", "rw")
MCFresh  == Call(100, 102, "New", "new")

MCAttr == {"ro", "rw", "dev", "new"}
MCRequests == {MCKernel, MCDevice, MCKernelDirect, MCFresh} \cup MCBanks

MCZeroRow  == [i \in 0 .. 3 |-> Invalid]
MCDirtyRow == [i \in 0 .. 3 |-> [kind |-> "block", addr |-> 1, attr |-> "rw"]]
=============================================================================
