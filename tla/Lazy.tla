-------------------------------- MODULE Lazy --------------------------------
(***************************************************************************)
(* mstd::lazy<T, Fn> (lazy.hpp): storage for a function that builds a T,   *)
(* and later for the T.  The function owns what make_lazy or make_lazy_call*)
(* captured for it.  lazy<T&, Fn> is left out: its move constructor and    *)
(* get_if_ready do not compile (143-164).                                  *)
(***************************************************************************)
EXTENDS Values

\* What is not there is told from what is.
ASSUME LazyAssumption ==
    Dead \notin [ready : BOOLEAN, is : {"fn", "value"},
                 by : {"make_lazy", "make_lazy_call"}, val : Objects \cup {Hollow}]

Made(l) == thunk[l] # Dead

\* What a lazy does leaves everything else alone.
Apart == UNCHANGED <<cell, alt, lost, slot, panicked>>

\* make_lazy<T>(args...), make_lazy_call(f, args...), moving a T of the
\* program into the closure, which is moved into the lazy.
MakeLazy(l, by, x) ==
    /\ ~Made(l)
    /\ x \in own
    /\ thunk' = [thunk EXCEPT ![l] =
                   [ready |-> FALSE, is |-> "fn", by |-> by, val |-> x]]
    /\ Pass({x}, {})

\* lazy(lazy&&): the T or the function is moved, the source keeps its flag.
MoveLazy(l, m) ==
    /\ ~Made(l) /\ Made(m)
    /\ thunk' = [thunk EXCEPT
                   ![l] = [thunk[m] EXCEPT
                             !.is = IF thunk[m].ready THEN "value" ELSE "fn"],
                   ![m].val = Hollow]
    /\ Pass({}, {})

\* Seeded fault: initialized is not set.
Initialized_unset(l, y) == [thunk[l] EXCEPT !.is = "value", !.val = y]
Initialized(l, y) == [thunk[l] EXCEPT !.ready = TRUE, !.is = "value", !.val = y]

\* initialize(): the function is moved out of storage and called there.  The
\* closure of make_lazy is not mutable, so T is built from const arguments, by
\* copy, and the function still owns its own when it is destroyed; that of
\* make_lazy_call hands its arguments over.
Initialize(l) ==
    /\ Made(l) /\ ~thunk[l].ready
    /\ \/ /\ thunk[l].by = "make_lazy"
          /\ \E y \in Copies(thunk[l].val) :
                /\ thunk' = [thunk EXCEPT ![l] = Initialized(l, y)]
                /\ Replace(OfLazy(l), {y} \cap Objects)
       \/ /\ thunk[l].by = "make_lazy_call"
          /\ thunk' = [thunk EXCEPT ![l] = Initialized(l, thunk[l].val)]
          /\ Pass({}, {})

\* T x = std::move(lazy), or from *lazy, get() or get_if_ready(), of a lazy
\* that is ready: get() initializes it first.
TakeLazy(l) ==
    /\ Made(l) /\ thunk[l].ready
    /\ thunk' = [thunk EXCEPT ![l].val = Hollow]
    /\ Pass({}, OfLazy(l))

\* ~lazy()
DestroyLazy(l) ==
    /\ Made(l)
    /\ thunk' = [thunk EXCEPT ![l] = Dead]
    /\ Replace(OfLazy(l), {})

LazyNext ==
    /\ \/ \E l \in Lazies : Initialize(l) \/ TakeLazy(l) \/ DestroyLazy(l)
       \/ \E l, m \in Lazies : MoveLazy(l, m)
       \/ \E l \in Lazies, by \in {"make_lazy", "make_lazy_call"}, x \in Objects :
             MakeLazy(l, by, x)
    /\ Apart

-----------------------------------------------------------------------------
\* The flag tells whether the function or the T lives in storage, whatever was
\* moved from where: ~lazy and get never take the one for the other
\* (lazy.hpp:28-50, 66-69, 109-115).
ReadyFits ==
    \A l \in Lazies : Made(l) => (thunk[l].ready <=> thunk[l].is = "value")
=============================================================================
