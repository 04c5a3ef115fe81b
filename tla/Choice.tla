------------------------------- MODULE Choice -------------------------------
(***************************************************************************)
(* mstd::choice<Ts...> (choice.hpp): storage for one T of the list, and a  *)
(* discriminator that tells which; a chain of match calls on it; and visit *)
(* and match of mstd-test/choice.cpp.                                      *)
(*                                                                         *)
(* What does not compile where it is used is left out: the copy            *)
(* constructor and the two assignments from another choice (57-64, 91-100, *)
(* 112-118), match with a value to return (166-175, 258-288), borrow_if<T> *)
(* (229-234).  operator=(const U&) ends without return (102-106).          *)
(***************************************************************************)
EXTENDS Values

CONSTANTS
    Converts,     \* the pairs <<T, U>>, T # U, such that a T can be built
                  \* from a U
    Chains,       \* the types a chain of match calls may name
    Tries,        \* the types match of mstd-test/choice.cpp is called with
    None

VARIABLE chain    \* a match that runs: None, or [on: the choice, left: types
                  \* still to try, via: "chain" or "each", late: not the
                  \* first, done, ran: handlers called, over]

\* What matching leaves alone, but for what a handler does.
altVars == <<alt, lost, own, local, live, faulted>>

Ids   == 0 .. Len(TypeList) - 1
Types == {TypeList[i] : i \in 1 .. Len(TypeList)}

type_at(i) == TypeList[i + 1]
\* The first place of a type that the list may name twice.
id_of(t) == CHOOSE i \in Ids : /\ type_at(i) = t
                               /\ \A j \in Ids : type_at(j) = t => i <= j

\* A choice of something, chains and calls of its types; and what is not there
\* is told from what is.
ASSUME ChoiceAssumption ==
    /\ TypeList \in Seq(Types) /\ TypeList # <<>>
    /\ Chains \cup Tries \subseteq Seq(Types)
    /\ Dead \notin [tag : Ids, is : Types, val : Objects \cup {Hollow}]
    /\ None \notin [on : Choices, left : Seq(Types), via : {"chain", "each"},
                    late : BOOLEAN, done : BOOLEAN, ran : Nat, over : BOOLEAN]

Holds(k) == alt[k] # Dead
is(k, t) == alt[k].tag = id_of(t)
At(i, x) == [tag |-> i, is |-> type_at(i), val |-> x]
\* A T in storage, and its type in the discriminator.
Alt(t, x) == At(id_of(t), x)
Moved(k) == [alt[k] EXCEPT !.val = Hollow]

-----------------------------------------------------------------------------
(* Construction and destruction *)

\* choice(): T() of the first type owns nothing.
ConstructFirst(k) ==
    /\ ~Holds(k)
    /\ alt' = [alt EXCEPT ![k] = At(0, Hollow)]
    /\ Pass({}, {})
    /\ UNCHANGED lost

\* choice(const T&)
ConstructCopied(k, t, x) ==
    /\ ~Holds(k)
    /\ x \in Fresh
    /\ alt' = [alt EXCEPT ![k] = Alt(t, x)]
    /\ Replace({}, {x})
    /\ UNCHANGED lost

\* choice(T&&) from a T of the program
ConstructMoved(k, t, x) ==
    /\ ~Holds(k)
    /\ x \in own
    /\ alt' = [alt EXCEPT ![k] = Alt(t, x)]
    /\ Pass({x}, {})
    /\ UNCHANGED lost

\* Seeded fault: the bytes are copied, the source is not moved from.
MoveChoice_bytewise(k, j) ==
    /\ ~Holds(k) /\ Holds(j)
    /\ alt' = [alt EXCEPT ![k] = alt[j]]
    /\ Pass({}, {})
    /\ UNCHANGED lost

\* choice(choice&&): the source keeps its discriminator and a T moved from.
MoveChoice(k, j) ==
    /\ ~Holds(k) /\ Holds(j)
    /\ alt' = [alt EXCEPT ![k] = [alt[j] EXCEPT !.is = type_at(alt[j].tag)],
                          ![j] = Moved(j)]
    /\ Pass({}, {})
    /\ UNCHANGED lost

\* ~choice()
DestroyChoice(k) ==
    /\ Holds(k)
    /\ alt' = [alt EXCEPT ![k] = Dead]
    /\ Replace(OfChoice(k), {})
    /\ UNCHANGED lost

-----------------------------------------------------------------------------
(* Assignment and taking out *)

\* operator=(U&&) from a T of the program: the old T is not destroyed.
AssignOver(k, t, x) ==
    /\ Holds(k)
    /\ x \in own
    /\ alt' = [alt EXCEPT ![k] = Alt(t, x)]
    /\ lost' = lost \cup OfChoice(k)
    /\ Pass({x}, {})

\* set<T>(u): U&& never deduces to an rvalue reference, so T is always built
\* from an lvalue; and the discriminator becomes that of u's type.
Set(k, t, u, x) ==
    /\ Holds(k)
    /\ t = u \/ <<t, u>> \in Converts
    /\ x \in Fresh
    /\ alt' = [alt EXCEPT ![k] = [tag |-> id_of(u), is |-> t, val |-> x]]
    /\ Replace(OfChoice(k), {x})
    /\ UNCHANGED lost

\* Seeded fault: the discriminator is left as it was.
SetAt_untagged(k, i, x) ==
    /\ Holds(k)
    /\ x \in Fresh
    /\ alt' = [alt EXCEPT ![k].is = type_at(i), ![k].val = x]
    /\ Replace(OfChoice(k), {x})
    /\ UNCHANGED lost

\* set_at<index>(u)
SetAt(k, i, x) ==
    /\ Holds(k)
    /\ x \in Fresh
    /\ alt' = [alt EXCEPT ![k] = At(i, x)]
    /\ Replace(OfChoice(k), {x})
    /\ UNCHANGED lost

\* maybe<T> m = take_if<T>(), take_if_at<index>()
TakeIf(k, i, c) ==
    /\ Holds(k) /\ ~Alive(c)
    /\ IF alt[k].tag = i
       THEN /\ cell' = [cell EXCEPT ![c] = alt[k].val]
            /\ alt' = [alt EXCEPT ![k] = Moved(k)]
            /\ local' = local \ OfChoice(k)
       ELSE /\ cell' = [cell EXCEPT ![c] = Nothing]
            /\ UNCHANGED <<alt, local>>
    /\ UNCHANGED <<own, lost, live, faulted>>

\* T x = take_unchecked<T>(), of the type the choice has
TakeUnchecked(k) ==
    /\ Holds(k)
    /\ alt' = [alt EXCEPT ![k] = Moved(k)]
    /\ Pass({}, OfChoice(k))
    /\ UNCHANGED lost

\* The program moves from what borrow_if_at<index>() refers to, if anything, or
\* borrow_unchecked() of a type that the choice is.
Borrow(k, i) == Holds(k) /\ alt[k].tag = i /\ TakeUnchecked(k)

-----------------------------------------------------------------------------
(* Matching *)

\* What a handler may do, called with what lives in k: look at it, move from
\* it, or give k another alternative.
Handle(k) ==
    \/ UNCHANGED altVars
    \/ TakeUnchecked(k)
    \/ \E i \in Ids, x \in Objects : SetAt(k, i, x)

\* visit(ch, visitor): the function for the discriminator's type is called.
Visit(k) == Holds(k) /\ Handle(k)

\* ch.match<T>(f).match<U>(g) ... .otherwise(h), or match(ch, f, g)
StartMatch(k, ts, via) ==
    /\ chain = None
    /\ Holds(k)
    /\ chain' = [on |-> k, left |-> ts, via |-> via,
                 late |-> FALSE, done |-> FALSE, ran |-> 0, over |-> FALSE]
    /\ UNCHANGED altVars

\* Seeded fault: done is not set after a later match of the chain.
Matched_undone(hit) == [chain EXCEPT !.left = Tail(@)]
\* match_result<void>::match
Matched(hit) == [chain EXCEPT !.left = Tail(@), !.done = @ \/ hit]

\* match of mstd-test/choice.cpp: || stops at the first function that is called;
\* from the second on the comma goes on, and the last one tells the result.
MatchedEach(hit) ==
    [chain EXCEPT !.left = IF hit /\ ~chain.late THEN <<>> ELSE Tail(@),
                  !.done = hit, !.late = TRUE]

\* One of the calls: the discriminator is read again each time.
TryMatch ==
    /\ chain # None
    /\ chain.left # <<>>
    /\ LET hit == /\ chain.via = "each" \/ ~chain.done
                  /\ is(chain.on, Head(chain.left))
           then == IF chain.via = "each" THEN MatchedEach(hit) ELSE Matched(hit)
       IN /\ chain' = [then EXCEPT !.ran = IF hit THEN @ + 1 ELSE @]
          /\ IF hit THEN Handle(chain.on)
                    ELSE UNCHANGED altVars

\* match_result<void>::otherwise; match returns.
EndMatch ==
    /\ chain # None
    /\ chain.left = <<>> /\ ~chain.over
    /\ chain' = [chain EXCEPT !.over = TRUE,
                   !.ran = IF chain.via = "chain" /\ ~chain.done THEN @ + 1 ELSE @]
    /\ UNCHANGED altVars

LeaveMatch ==
    /\ chain # None
    /\ chain.over
    /\ chain' = None
    /\ UNCHANGED altVars

-----------------------------------------------------------------------------
\* The operations that leave the maybes and the running match alone
ChoiceStep ==
    \/ \E k \in Choices : ConstructFirst(k) \/ DestroyChoice(k)
                            \/ TakeUnchecked(k) \/ Visit(k)
    \/ \E k \in Choices, i \in Ids : Borrow(k, i)
    \/ \E k, j \in Choices : MoveChoice(k, j)
    \/ \E k \in Choices, t \in Types, x \in Objects :
          \/ ConstructCopied(k, t, x) \/ ConstructMoved(k, t, x)
          \/ AssignOver(k, t, x)
          \/ \E u \in Types : Set(k, t, u, x)
    \/ \E k \in Choices, i \in Ids, x \in Objects : SetAt(k, i, x)

MatchStep ==
    \/ \E k \in Choices :
          \/ \E ts \in Chains : StartMatch(k, ts, "chain")
          \/ \E ts \in Tries : StartMatch(k, ts, "each")
    \/ TryMatch \/ EndMatch \/ LeaveMatch

ChoiceNext ==
    /\ \/ chain = None /\ ChoiceStep /\ UNCHANGED <<chain, cell>>
       \/ /\ chain = None
          /\ \E k \in Choices, i \in Ids, c \in Cells : TakeIf(k, i, c)
          /\ UNCHANGED chain
       \/ MatchStep /\ UNCHANGED cell
    /\ UNCHANGED <<thunk, slot, panicked>>

-----------------------------------------------------------------------------
\* The discriminator names the type of what lives in storage: no destructor,
\* handler or reference is given a T of another type (choice.hpp:67-254).
TagFits == \A k \in Choices : Holds(k) => type_at(alt[k].tag) = alt[k].is

\* Whatever its handlers do to the choice, a chain of match and otherwise calls
\* exactly one of them (choice.hpp:290-313), and match of mstd-test/choice.cpp
\* (157-175), with two functions, at most one, and then says so.
OneHandler ==
    chain # None =>
        /\ chain.ran <= 1
        /\ chain.over => (chain.via = "chain" \/ chain.done <=> chain.ran = 1)
=============================================================================
