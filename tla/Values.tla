------------------------------- MODULE Values -------------------------------
(***************************************************************************)
(* The other containers of mstd next to maybe: choice<Ts...> (choice.hpp), *)
(* lazy<T, Fn> (lazy.hpp) and the pool of mstd-test/maybe.cpp.  Here is    *)
(* their state; Choice, Lazy and Pool have their operations.               *)
(*                                                                         *)
(* Each is storage without a type, in which T's are built and destroyed by *)
(* hand, and something that is to tell what lives there: a discriminator,  *)
(* a flag, a bitmap.  As in Maybe only what a T owns is kept.  To a maybe  *)
(* these containers are variables of the program, so that local has what   *)
(* is in them too; own is what the program has outside any container.      *)
(***************************************************************************)
EXTENDS Maybe, Integers, Sequences

CONSTANTS
    Choices,      \* the choice variables of the program
    Lazies,       \* the lazy variables
    TypeList,     \* the types of the alternatives, in order
    Slots,        \* places in the pool, 0 .. size - 1
    Raw           \* what is in storage where no T lives

ASSUME RawDistinct == Raw \notin Objects \cup {Hollow}

VARIABLES
    own,          \* the objects owned by T's outside all containers
    alt,          \* Dead, or [tag: the discriminator, the place of a type
                  \* in the list from 0 on, is: the type of what lives in
                  \* storage, val: what it owns]
    lost,         \* what T's own that were overwritten without ~T()
    thunk,        \* Dead, or [ready: the flag initialized, is: what lives in
                  \* storage, "fn" or "value", by: who made fn, val]
    slot          \* the storage of the pool: Raw, or what the T there owns

OfChoice(k) == IF alt[k] = Dead THEN {} ELSE {alt[k].val} \cap Objects
OfLazy(l)   == IF thunk[l] = Dead THEN {} ELSE {thunk[l].val} \cap Objects
OfSlot(i)   == {slot[i]} \cap Objects

\* Where an object can be that is in no maybe, and what is there.
Places ==
    ({"choice"} \X Choices) \cup ({"lazy"} \X Lazies) \cup ({"slot"} \X Slots)
        \cup {<<"own", Program>>, <<"lost", Program>>}

Has(h) ==
    CASE h[1] = "choice" -> OfChoice(h[2])
      [] h[1] = "lazy"   -> OfLazy(h[2])
      [] h[1] = "slot"   -> OfSlot(h[2])
      [] h[1] = "own"    -> own
      [] h[1] = "lost"   -> lost

\* T's owning `gone` are destroyed and T's owning `made` built in a container.
Replace(gone, made) ==
    /\ local' = (local \ gone) \cup made
    /\ Release(gone, made)
    /\ UNCHANGED own

\* T's of the program owning `gone` are moved from, and `made` is moved to
\* others: no T is destroyed or built but those.
Pass(gone, made) ==
    /\ own' = (own \ gone) \cup made
    /\ UNCHANGED <<local, live, faulted>>

\* What a copy of a T that owns x may own: an object of its own, or nothing.
Copies(x) == IF x \in Objects THEN Fresh ELSE {Hollow}
=============================================================================
