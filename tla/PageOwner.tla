----------------------------- MODULE PageOwner -----------------------------
(***************************************************************************)
(* What the kernel's physical page allocator promises its callers          *)
(* (include/kernel/mem/allocator.hpp): a page is handed out only while     *)
(* nobody owns it and it was not taken out of use, and it becomes          *)
(* available again only because its owner gives it back.                   *)
(*                                                                         *)
(* PhysMem implements this specification with bitmaps.                     *)
(***************************************************************************)
CONSTANTS
  Page,     \* the addresses of all physical pages
  Owner     \* the callers that hold pages

VARIABLES
  free,     \* the pages that can be handed out
  owned,    \* the pages each caller holds
  ready     \* PageAllocator<Bootstrap>::init has gone through all regions

vars == <<free, owned, ready>>

Init ==
  /\ free = {}
  /\ owned = [c \in Owner |-> {}]
  /\ ready \in BOOLEAN

\* A region is initialised: some of the pages nobody could use become free.
Open ==
  /\ ~ready
  /\ free \subseteq free'
  /\ free' \subseteq Page
  /\ UNCHANGED owned
  /\ ready' \in BOOLEAN

Acquire(c, p) ==
  /\ ready
  /\ p \in free
  /\ free' = free \ {p}
  /\ owned' = [owned EXCEPT ![c] = @ \cup {p}]
  /\ UNCHANGED ready

Release(c, p) ==
  /\ ready
  /\ p \in owned[c]
  /\ free' = free \cup {p}
  /\ owned' = [owned EXCEPT ![c] = @ \ {p}]
  /\ UNCHANGED ready

\* reserve_page_at: a free page is taken out of use, an owned one is left alone.
Withdraw(p) ==
  /\ ready
  /\ p \in free
  /\ free' = free \ {p}
  /\ UNCHANGED <<owned, ready>>

Next ==
  \/ Open
  \/ \E p \in free : Withdraw(p)
  \/ \E c \in Owner : \E p \in free : Acquire(c, p)
  \/ \E c \in Owner : \E p \in owned[c] : Release(c, p)

Spec == Init /\ [][Next]_vars
=============================================================================
