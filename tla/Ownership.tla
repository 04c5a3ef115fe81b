----------------------------- MODULE Ownership -----------------------------
(***************************************************************************)
(* What a container of values promises about the objects put into it: every*)
(* live object is held in exactly one place, it is handed over whole, and  *)
(* when a place gives it up the object is gone.  Slots hold at most one    *)
(* object, the program may hold any number in variables of its own.        *)
(***************************************************************************)
EXTENDS FiniteSets

CONSTANTS Objects,      \* what a value owns: a resource released once
          Slots,        \* the places that hold at most one object
          Program       \* the program's own variables, no slot

VARIABLES holds,        \* the objects in each place
          live          \* the objects made and not yet released

Places == Slots \cup {Program}

Init == /\ holds = [p \in Places |-> {}]
        /\ live = {}

\* What may leave p as something else is put there: a slot gives up what it
\* had, the program what it likes.
Leaving(p) == IF p = Program THEN SUBSET holds[p] ELSE {holds[p]}

\* A new object is made in p, which releases what is gone.
Create(p, x, gone) ==
    /\ x \notin live
    /\ holds' = [holds EXCEPT ![p] = (@ \ gone) \cup {x}]
    /\ live' = (live \ gone) \cup {x}

\* q hands x over to p, which releases what is gone.
Move(q, p, x, gone) ==
    /\ q # p
    /\ x \in holds[q]
    /\ holds' = [holds EXCEPT ![q] = @ \ {x}, ![p] = (@ \ gone) \cup {x}]
    /\ live' = live \ gone

\* p releases what is gone.
Discard(p, gone) ==
    /\ holds' = [holds EXCEPT ![p] = @ \ gone]
    /\ live' = live \ gone

Next == \E p \in Places :
            \/ \E gone \in SUBSET holds[p] : Discard(p, gone)
            \/ \E x \in Objects, gone \in Leaving(p) :
                  \/ Create(p, x, gone)
                  \/ \E q \in Places : Move(q, p, x, gone)

vars == <<holds, live>>
Spec == Init /\ [][Next]_vars
=============================================================================
