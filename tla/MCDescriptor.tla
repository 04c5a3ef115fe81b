---------------------------- MODULE MCDescriptor ----------------------------
(***************************************************************************)
(* Addresses of both halves, as make_page and make_block get them: an      *)
(* offset in a page, some bits of the page, also the lowest and highest,   *)
(* and those above the address field, none or all (kernel_base; with bit   *)
(* 47 phy_base).                                                           *)
(***************************************************************************)
EXTENDS Descriptor

MCAddresses ==
  {offset \cup page \cup half :
     offset \in SUBSET {1, 11}, page \in SUBSET {12, 13, 46},
     half \in {{}, 48 .. 63, 47 .. 63}}
=============================================================================
