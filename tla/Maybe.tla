------------------------------- MODULE Maybe -------------------------------
(***************************************************************************)
(* mstd::maybe<T> for a T that owns something (maybe.hpp, the concrete     *)
(* class): a buffer for one T and a flag saying whether a T lives there.   *)
(*                                                                         *)
(* Only what T owns is kept: its move constructor takes the object from the*)
(* source and leaves it Hollow, its copy constructor makes an object of its*)
(* own, its destructor releases what it owns.  A program makes maybes,     *)
(* calls their operations in any order, and keeps T's in its variables     *)
(* (local).                                                                *)
(*                                                                         *)
(* Copying a maybe is not modelled.  The templates the class declares as   *)
(* its copy constructor and copy assignment (101-122) never are: C++ does  *)
(* not use a template in place of the implicit ones, which copy the bytes, *)
(* and apply and apply_when_nothing (294-315), which return *this by value,*)
(* use those.  For a T that owns something that is wrong; the calls of the *)
(* repository copy only maybes of pointers (alloc-free-list.cpp:53).       *)
(***************************************************************************)
EXTENDS FiniteSets

CONSTANTS Cells,        \* the maybe<T> variables of the program
          Objects,      \* what T's can own
          Dead, Nothing, Hollow, Program

ASSUME Distinct ==
    /\ {Dead, Nothing, Hollow} \cap Objects = {}
    /\ Dead # Nothing /\ Dead # Hollow /\ Nothing # Hollow
    /\ Program \notin Cells

VARIABLES
    cell,       \* Dead: not constructed; Nothing: not valid; otherwise valid,
                \* holding a T that owns the object or, moved from, none
    local,      \* the objects owned by T's in the program's variables
    live,       \* the objects made and not yet released
    faulted,    \* a T released what was not live
    panicked    \* panic was called: it does not return

vars == <<cell, local, live, faulted, panicked>>

Valid(c) == cell[c] \notin {Dead, Nothing}
Alive(c) == cell[c] # Dead

\* What the T in c owns.
Owned(c) == {cell[c]} \cap Objects

Init ==
    /\ cell = [c \in Cells |-> Dead]
    /\ local = {}
    /\ live = {}
    /\ faulted = FALSE
    /\ panicked = FALSE

\* ~T() of T's owning `gone`; `made` is what new T's own.
Release(gone, made) ==
    /\ live' = (live \ gone) \cup made
    /\ faulted' = (faulted \/ ~(gone \subseteq live))

Fresh == Objects \ live

-----------------------------------------------------------------------------
(* Construction and destruction *)

\* maybe(), maybe(nothing_t)
ConstructNothing(c) ==
    /\ ~Alive(c)
    /\ cell' = [cell EXCEPT ![c] = Nothing]
    /\ UNCHANGED <<local, live, faulted, panicked>>

\* maybe(Arg&&, Args&&...): T is built in the buffer from its arguments, or
\* by its copy constructor from an lvalue.
ConstructInPlace(c, x) ==
    /\ ~Alive(c)
    /\ x \in Fresh
    /\ cell' = [cell EXCEPT ![c] = x]
    /\ Release({}, {x})
    /\ UNCHANGED <<local, panicked>>

\* maybe(Arg&&) from an rvalue T of the program
ConstructFromValue(c, x) ==
    /\ ~Alive(c)
    /\ x \in local
    /\ cell' = [cell EXCEPT ![c] = x]
    /\ local' = local \ {x}
    /\ UNCHANGED <<live, faulted, panicked>>

\* Seeded fault: the source keeps its T and its flag.
MoveConstruct_bytewise(c, d) ==
    /\ ~Alive(c) /\ Alive(d)
    /\ cell' = [cell EXCEPT ![c] = cell[d]]
    /\ UNCHANGED <<local, live, faulted, panicked>>

\* maybe(maybe<T>&&): the source's T is moved from, destroyed, and the source
\* left invalid.
MoveConstruct(c, d) ==
    /\ ~Alive(c) /\ Alive(d)
    /\ cell' = [cell EXCEPT ![c] = cell[d], ![d] = Nothing]
    /\ UNCHANGED <<local, live, faulted, panicked>>

\* ~maybe()
Destroy(c) ==
    /\ Alive(c)
    /\ cell' = [cell EXCEPT ![c] = Dead]
    /\ Release(Owned(c), {})
    /\ UNCHANGED <<local, panicked>>

-----------------------------------------------------------------------------
(* Assignment *)

\* Seeded fault: the flag is cleared, the T is not destroyed.
AssignNothing_undestroyed(c) ==
    /\ Alive(c)
    /\ cell' = [cell EXCEPT ![c] = Nothing]
    /\ UNCHANGED <<local, live, faulted, panicked>>

\* operator=(nothing_t), try_remove_value()
AssignNothing(c) ==
    /\ Alive(c)
    /\ cell' = [cell EXCEPT ![c] = Nothing]
    /\ Release(Owned(c), {})
    /\ UNCHANGED <<local, panicked>>

\* operator=(maybe<T>&&), which returns early when it is its own source
MoveAssign(c, d) ==
    /\ Alive(c) /\ Alive(d)
    /\ c # d
    /\ cell' = [cell EXCEPT ![c] = cell[d], ![d] = Nothing]
    /\ Release(Owned(c), {})
    /\ UNCHANGED <<local, panicked>>

\* Seeded fault: T is built over the old one.
AssignValue_over(c, x) ==
    /\ Alive(c)
    /\ x \in local
    /\ cell' = [cell EXCEPT ![c] = x]
    /\ local' = local \ {x}
    /\ UNCHANGED <<live, faulted, panicked>>

\* operator=(U&&) from an rvalue T of the program
AssignValue(c, x) ==
    /\ Alive(c)
    /\ x \in local
    /\ cell' = [cell EXCEPT ![c] = x]
    /\ local' = local \ {x}
    /\ Release(Owned(c), {})
    /\ UNCHANGED panicked

\* operator=(U&&) from the T inside another maybe, m = std::move(*n): the T
\* there is moved from, but its maybe stays valid.  From its own T it returns.
AssignMovedValue(c, d) ==
    /\ Alive(c) /\ Valid(d)
    /\ c # d
    /\ cell' = [cell EXCEPT ![c] = cell[d], ![d] = Hollow]
    /\ Release(Owned(c), {})
    /\ UNCHANGED <<local, panicked>>

\* operator=(U&&) from an lvalue T: the old T is destroyed and a copy built.
AssignCopiedValue(c, x) ==
    /\ Alive(c)
    /\ x \in Fresh
    /\ cell' = [cell EXCEPT ![c] = x]
    /\ Release(Owned(c), {x})
    /\ UNCHANGED <<local, panicked>>

-----------------------------------------------------------------------------
(* Taking the value out *)

\* Seeded fault: taken from a maybe that may hold nothing.
Take_unchecked(c) ==
    /\ Alive(c)
    /\ cell' = [cell EXCEPT ![c] = Hollow]
    /\ local' = local \cup {cell[c]}
    /\ UNCHANGED <<live, faulted, panicked>>

\* T x = m.take(): T&& out of a valid maybe, which stays valid.  or_default
\* and or_else take it the same way.
Take(c) ==
    /\ Valid(c)
    /\ cell' = [cell EXCEPT ![c] = Hollow]
    /\ local' = local \cup Owned(c)
    /\ UNCHANGED <<live, faulted, panicked>>

\* take, borrow and borrow_const of nothing
Panic(c) ==
    /\ cell[c] = Nothing
    /\ panicked' = TRUE
    /\ UNCHANGED <<cell, local, live, faulted>>

\* or_default, or_else of nothing: the program gets the other T.
Otherwise(c, x) ==
    /\ cell[c] = Nothing
    /\ x \in Fresh
    /\ local' = local \cup {x}
    /\ Release({}, {x})
    /\ UNCHANGED <<cell, panicked>>

\* maybe<T> n = m.then(fn), fn passing its T&& on
Then(c, d) ==
    /\ Alive(c) /\ ~Alive(d)
    /\ cell' = [cell EXCEPT ![d] = cell[c],
                            ![c] = IF Valid(c) THEN Hollow ELSE Nothing]
    /\ UNCHANGED <<local, live, faulted, panicked>>

\* m.then(fn), m.then_or_else(fn, gn) with an fn that takes its T by value
ThenConsume(c) ==
    /\ Valid(c)
    /\ cell' = [cell EXCEPT ![c] = Hollow]
    /\ Release(Owned(c), {})
    /\ UNCHANGED <<local, panicked>>

\* maybe<T> n = m.when_nothing(fn), fn making a T
WhenNothing(c, d, x) ==
    /\ Alive(c) /\ ~Alive(d)
    /\ x \in Fresh
    /\ cell' = [cell EXCEPT ![d] = IF Valid(c) THEN Nothing ELSE x]
    /\ Release({}, IF Valid(c) THEN {} ELSE {x})
    /\ UNCHANGED <<local, panicked>>

\* A T of the program goes out of scope.
DropLocal(x) ==
    /\ x \in local
    /\ local' = local \ {x}
    /\ Release({x}, {})
    /\ UNCHANGED <<cell, panicked>>

-----------------------------------------------------------------------------
Next ==
    /\ ~panicked
    /\ \/ \E c \in Cells :
             \/ ConstructNothing(c) \/ Destroy(c) \/ AssignNothing(c)
             \/ Take(c) \/ Panic(c) \/ ThenConsume(c)
       \/ \E c \in Cells, x \in Objects :
             \/ ConstructInPlace(c, x) \/ ConstructFromValue(c, x)
             \/ AssignValue(c, x) \/ AssignCopiedValue(c, x) \/ Otherwise(c, x)
       \/ \E c, d \in Cells :
             \/ MoveConstruct(c, d) \/ MoveAssign(c, d)
             \/ AssignMovedValue(c, d) \/ Then(c, d)
       \/ \E c, d \in Cells, x \in Objects : WhenNothing(c, d, x)
       \/ \E x \in Objects : DropLocal(x)

Spec == Init /\ [][Next]_vars

-----------------------------------------------------------------------------
\* The state has its shape: a T, in a maybe or in a variable of the program,
\* owns an object or nothing.
TypeOK ==
    /\ cell \in [Cells -> {Dead, Nothing, Hollow} \cup Objects]
    /\ local \subseteq Objects
    /\ live \subseteq Objects
    /\ faulted \in BOOLEAN
    /\ panicked \in BOOLEAN

\* What a T owns is released once (~maybe, try_remove_value): no destructor,
\* run by a maybe or by the program, finds it already released.
NeverReleasedTwice == ~faulted

\* Nothing is lost and nothing dangles: the objects not yet released are
\* exactly those some T, in a valid maybe or in the program, still owns.
LiveAreHeld == live = local \cup UNION {Owned(c) : c \in Cells}

\* No object is owned twice, by two maybes or by a maybe and the program.
HeldOnce ==
    /\ \A c \in Cells : Owned(c) \cap local = {}
    /\ \A c, d \in Cells : c # d => Owned(c) \cap Owned(d) = {}

\* The inductive invariant.
SafeOwnership == TypeOK /\ NeverReleasedTwice /\ LiveAreHeld /\ HeldOnce

\* Every operation makes one object, hands one over, or releases one: what a
\* maybe does (maybe.hpp:52-280) is what Ownership allows.
Holding == [p \in Cells \cup {Program} |->
               IF p = Program THEN local ELSE Owned(p)]
Promise == INSTANCE Ownership WITH Slots <- Cells, holds <- Holding
HandsOver == Promise!Spec
=============================================================================
