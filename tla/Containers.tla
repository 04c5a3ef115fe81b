----------------------------- MODULE Containers -----------------------------
(***************************************************************************)
(* A program that uses all containers of mstd at once, maybe, choice, lazy *)
(* and a pool, and moves T's between them.                                 *)
(***************************************************************************)
EXTENDS Choice, Lazy, Pool

CONSTANT MaxAlive   \* bound: containers that exist at the same time, if any of
                    \* them is not a maybe

allVars == <<vars, own, alt, lost, chain, thunk, slot, poolVars>>

ContainersInit ==
    /\ Init
    /\ own = {} /\ lost = {}
    /\ alt = [k \in Choices |-> Dead]
    /\ chain = None
    /\ thunk = [l \in Lazies |-> Dead]
    /\ slot = [p \in Slots |-> Raw]
    /\ open = FALSE /\ bit = {}
    /\ ref = [r \in Refs |-> Nothing]

\* A step of a maybe takes a T of the program's own, or gives it one.
MaybeNext ==
    /\ Next
    /\ own' = (own \ (local \ local')) \cup (local' \ local)
    /\ local \ local' \subseteq own
    /\ UNCHANGED <<alt, lost, chain, thunk, slot, poolVars>>

Maybes == Cardinality({c \in Cells : Alive(c)})
Others == Cardinality({k \in Choices : Holds(k)}) + Cardinality({l \in Lazies : Made(l)})
            + (IF open THEN 1 ELSE 0)

ContainersNext ==
    /\ ~panicked
    /\ \/ MaybeNext /\ chain = None
       \/ ChoiceNext /\ UNCHANGED poolVars
       \/ LazyNext /\ chain = None /\ UNCHANGED <<chain, poolVars>>
       \/ PoolNext /\ chain = None /\ UNCHANGED chain
    /\ Others' = 0 \/ Others' + Maybes' <= MaxAlive

ContainersSpec == ContainersInit /\ [][ContainersNext]_allVars

-----------------------------------------------------------------------------
\* Every object the program has outside maybes is in one place: a variable of
\* its own, a choice, a lazy or the pool, or it was overwritten by an assignment
\* to a choice, the one operation that loses an object (choice.hpp:119-125).
\* None is in two places, whatever was moved from where.
HeldApart ==
    \A x \in Objects :
        LET at == {h \in Places : x \in Has(h)} IN
          /\ x \in local <=> at # {}
          /\ \A g, h \in at : g = h

\* What tells what lives in the storage of a container is right.
StorageFits == TagFits /\ ReadyFits /\ BitsFit
=============================================================================
