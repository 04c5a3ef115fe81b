-------------------------------- MODULE Pool --------------------------------
(***************************************************************************)
(* pool<T, size> of mstd-test/maybe.cpp, and the maybe<T&> it hands out    *)
(* (maybe.hpp, the reference maybe): a pointer that may be null.           *)
(*                                                                         *)
(* That a reference does not outlive what it refers to is left to the      *)
(* program: it does not use a reference whose T was released.  Assigning   *)
(* nothing, a reference or another reference maybe to a maybe<T&> by its   *)
(* own operators ends without return or does not compile (332-357).        *)
(***************************************************************************)
EXTENDS Values

CONSTANTS
    Refs,         \* the maybe<T&> variables of the program
    Byte,         \* bits in a byte of the bitmap, 8 in the code
    SizeOfT,      \* sizeof(T)
    Released,     \* the slots the program releases T's from
    Stale

ASSUME PoolAssumption ==
    /\ Slots \subseteq Nat
    /\ Byte \in Nat \ {0} /\ SizeOfT \in Nat \ {0}
    /\ {Nothing, Stale} \cap Slots = {}

VARIABLES
    open,         \* the pool exists
    bit,          \* the set bits of its bitmap
    ref           \* Nothing, a slot, or Stale: a slot whose T is released

poolVars == <<open, bit, ref>>

Refers(r)  == ref[r] # Nothing
Follows(r) == ref[r] \in Slots

\* The references, once the T in p is released.
Staled(p) == [s \in Refs |-> IF ref[s] = p THEN Stale ELSE ref[s]]

-----------------------------------------------------------------------------
(* The pool *)

\* pool(): storage without T's, no bit set.
OpenPool ==
    /\ ~open
    /\ open' = TRUE
    /\ bit' = {}
    /\ Pass({}, {})
    /\ UNCHANGED <<slot, ref>>

\* Seeded fault: the byte is forgotten, as in object_pool of mem/alloc.hpp.
Place_inFirst(index, i) == i
\* obj[index * 8 + i]
Place(index, i) == index * Byte + i

\* acquire_raw: the first clear bit in the first byte that has one
FreeBits == {p \in Slots : p \notin bit}
FirstFree == CHOOSE p \in FreeBits : \A q \in FreeBits : p <= q

\* maybe<T&> r = pool.acquire(args...): T is built where a bit was clear, or r
\* is nothing.
Acquire(r, x) ==
    /\ open
    /\ x \in Fresh
    /\ IF FreeBits = {}
       THEN /\ ref' = [ref EXCEPT ![r] = Nothing]
            /\ Pass({}, {})
            /\ UNCHANGED <<slot, bit>>
       ELSE LET p == Place(FirstFree \div Byte, FirstFree % Byte)
            IN /\ bit' = bit \cup {FirstFree}
               /\ slot' = [slot EXCEPT ![p] = x]
               /\ ref' = [ref EXCEPT ![r] = p]
               /\ Replace({}, {x})
    /\ UNCHANGED open

\* release_raw divides the distance of the pointers, counted in T's, by the
\* size of a T.
BitOfSlot(p) == p \div SizeOfT

\* pool.release(t), t from r: every reference to t is stale then.
ReleaseRef(r) ==
    /\ Follows(r)
    /\ ref[r] \in Released
    /\ slot' = [slot EXCEPT ![ref[r]] = Raw]
    /\ bit' = bit \ {BitOfSlot(ref[r])}
    /\ ref' = Staled(ref[r])
    /\ Replace(OfSlot(ref[r]), {})
    /\ UNCHANGED open

\* ~pool(): T's where a bit is set
Destroyed == bit

\* References are declared after the pool and go out of scope before it.
ClosePool ==
    /\ open
    /\ open' = FALSE
    /\ bit' = {}
    /\ slot' = [p \in Slots |-> IF p \in Destroyed THEN Raw ELSE slot[p]]
    /\ ref' = [s \in Refs |-> Nothing]
    /\ Replace(UNION {OfSlot(p) : p \in Destroyed}, {})

-----------------------------------------------------------------------------
(* maybe<T&> *)

\* r = maybe<T&>(), maybe<T&>(nothing), release()
Forget(r) ==
    /\ Refers(r)
    /\ ref' = [ref EXCEPT ![r] = Nothing]
    /\ Pass({}, {})
    /\ UNCHANGED <<slot, open, bit>>

\* some<T&>(t), maybe<T&>(t), t being what s refers to
Refer(r, s) ==
    /\ r # s /\ Follows(s)
    /\ ref' = [ref EXCEPT ![r] = ref[s]]
    /\ Pass({}, {})
    /\ UNCHANGED <<slot, open, bit>>

\* A function of then, apply, inspect, then_or_else, ..., or the program after
\* take or borrow, moves from the T it is given.
Follow(r) ==
    /\ Follows(r)
    /\ slot' = [slot EXCEPT ![ref[r]] = Hollow]
    /\ Pass({}, OfSlot(ref[r]))
    /\ UNCHANGED <<open, bit, ref>>

\* r.apply_when_nothing(fn), fn returning what s refers to; or_default and
\* or_else give it to the program.
ReferInstead(r, s) ==
    /\ ~Refers(r) /\ Follows(s)
    /\ ref' = [ref EXCEPT ![r] = ref[s]]
    /\ Pass({}, {})
    /\ UNCHANGED <<slot, open, bit>>

\* take, borrow and borrow_const of nothing
PanicRef(r) ==
    /\ open /\ ~Refers(r)
    /\ panicked' = TRUE
    /\ Pass({}, {})
    /\ UNCHANGED <<slot, open, bit, ref>>

PoolStep ==
    \/ OpenPool \/ ClosePool
    \/ \E r \in Refs : ReleaseRef(r) \/ Forget(r) \/ Follow(r)
    \/ \E r \in Refs, x \in Objects : Acquire(r, x)
    \/ \E r, s \in Refs : Refer(r, s) \/ ReferInstead(r, s)

PoolNext ==
    /\ \/ PoolStep /\ UNCHANGED panicked
       \/ \E r \in Refs : PanicRef(r)
    /\ UNCHANGED <<cell, alt, lost, thunk>>

-----------------------------------------------------------------------------
\* A bit is set exactly where a T lives: none is built over another, none is
\* destroyed that was never built, and a reference the program may follow
\* refers to a T (mstd-test/maybe.cpp:23-73).
BitsFit ==
    /\ \A p \in Slots : slot[p] # Raw <=> p \in bit
    /\ \A r \in Refs : Follows(r) => slot[ref[r]] # Raw
=============================================================================
