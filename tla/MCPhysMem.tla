----------------------------- MODULE MCPhysMem -----------------------------
(***************************************************************************)
(* A small memory for TLC: two-byte pages, two pages per bitmap byte.      *)
(*   region 1, bytes 4..15:   bitmap in pages 4 and 6, an unaligned span   *)
(*                            reserved across pages 8 and 10               *)
(*   region 2, bytes 20..33:  its first page is reserved, so the bitmap    *)
(*                            slides to pages 22 and 24; seven pages, the  *)
(*                            last of which has its bit past the bitmap    *)
(*   region 3, bytes 40..43:  wholly reserved, so it gets no bitmap        *)
(* One more reserved span starts before region 3 and reaches into it.      *)
(***************************************************************************)
EXTENDS PhysMem

MCSpan == << [base |-> 4, size |-> 12], [base |-> 20, size |-> 14],
             [base |-> 40, size |-> 4] >>

MCReserved == { [base |-> 9, size |-> 2], [base |-> 20, size |-> 1],
                [base |-> 38, size |-> 3], [base |-> 41, size |-> 3] }

\* The pages of the two bitmaps are mapped in the higher half.
MCHighMapped == {4, 6, 22, 24}

MCRamBits == { {}, {4, 6} }

MCAddr == {9, 14, 29, 33, 41, 50}
=============================================================================
