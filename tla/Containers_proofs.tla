------------------------- MODULE Containers_proofs -------------------------
(***************************************************************************)
(* For every number of maybes, choices, lazies, slots and objects: every   *)
(* object is in one place and released once, and flag, discriminator and   *)
(* bitmap tell what lives in the storage beside them.                      *)
(***************************************************************************)
EXTENDS Containers, WellFoundedInduction, SequenceTheorems, TLAPS

-----------------------------------------------------------------------------
(***************************************************************************)
(* maybe alone: its operations neither lose an object nor release one      *)
(* twice.                                                                  *)
(***************************************************************************)
\* What SafeOwnership says holds where the program starts.
LEMMA InitSafe == Init => SafeOwnership
  BY Distinct DEF Init, SafeOwnership, TypeOK, NeverReleasedTwice,
                  LiveAreHeld, HeldOnce, Owned

\* The operations on one maybe keep the invariant.
LEMMA OneMaybeSafe ==
    ASSUME SafeOwnership, NEW c \in Cells,
           \/ ConstructNothing(c) \/ Destroy(c) \/ AssignNothing(c)
           \/ Take(c) \/ Panic(c) \/ ThenConsume(c)
    PROVE  SafeOwnership'
<1> USE Distinct DEF SafeOwnership, TypeOK, NeverReleasedTwice, LiveAreHeld,
                     HeldOnce, Owned, Alive, Valid, Release, Fresh
<1>1. CASE ConstructNothing(c)
  BY <1>1 DEF ConstructNothing
<1>2. CASE Destroy(c)
  BY <1>2 DEF Destroy
<1>3. CASE AssignNothing(c)
  BY <1>3 DEF AssignNothing
<1>4. CASE Take(c)
  BY <1>4 DEF Take
<1>5. CASE Panic(c)
  BY <1>5 DEF Panic
<1>6. CASE ThenConsume(c)
  BY <1>6 DEF ThenConsume
<1> QED  BY <1>1, <1>2, <1>3, <1>4, <1>5, <1>6

\* So do those that bring in a value.
LEMMA ValueSafe ==
    ASSUME SafeOwnership, NEW c \in Cells, NEW x \in Objects,
           \/ ConstructInPlace(c, x) \/ ConstructFromValue(c, x)
           \/ AssignValue(c, x) \/ AssignCopiedValue(c, x) \/ Otherwise(c, x)
    PROVE  SafeOwnership'
<1> USE Distinct DEF SafeOwnership, TypeOK, NeverReleasedTwice, LiveAreHeld,
                     HeldOnce, Owned, Alive, Valid, Release, Fresh
<1>1. CASE ConstructInPlace(c, x)
  BY <1>1 DEF ConstructInPlace
<1>2. CASE ConstructFromValue(c, x)
  BY <1>2 DEF ConstructFromValue
<1>3. CASE AssignValue(c, x)
  BY <1>3 DEF AssignValue
<1>4. CASE AssignCopiedValue(c, x)
  BY <1>4 DEF AssignCopiedValue
<1>5. CASE Otherwise(c, x)
  BY <1>5 DEF Otherwise
<1> QED  BY <1>1, <1>2, <1>3, <1>4, <1>5

\* And those between two maybes.
LEMMA TwoMaybesSafe ==
    ASSUME SafeOwnership, NEW c \in Cells, NEW d \in Cells,
           \/ MoveConstruct(c, d) \/ MoveAssign(c, d) \/ AssignMovedValue(c, d)
           \/ Then(c, d)
    PROVE  SafeOwnership'
<1> USE Distinct DEF SafeOwnership, TypeOK, NeverReleasedTwice, LiveAreHeld,
                     HeldOnce, Owned, Alive, Valid, Release, Fresh
<1>1. CASE MoveConstruct(c, d)
  BY <1>1 DEF MoveConstruct
<1>2. CASE MoveAssign(c, d)
  BY <1>2 DEF MoveAssign
<1>3. CASE AssignMovedValue(c, d)
  BY <1>3 DEF AssignMovedValue
<1>4. CASE Then(c, d)
  BY <1>4 DEF Then
<1> QED  BY <1>1, <1>2, <1>3, <1>4

\* And when_nothing.
LEMMA WhenNothingSafe ==
    ASSUME SafeOwnership, NEW c \in Cells, NEW d \in Cells, NEW x \in Objects,
           WhenNothing(c, d, x)
    PROVE  SafeOwnership'
  BY Distinct DEF WhenNothing, SafeOwnership, TypeOK, NeverReleasedTwice,
                  LiveAreHeld, HeldOnce, Owned, Release, Alive, Valid, Fresh

\* And a variable of the program going out of scope.
LEMMA DropLocalSafe ==
    ASSUME SafeOwnership, NEW x \in Objects, DropLocal(x)
    PROVE  SafeOwnership'
  BY Distinct DEF DropLocal, SafeOwnership, TypeOK, NeverReleasedTwice,
                  LiveAreHeld, HeldOnce, Owned, Release

\* Every step keeps the invariant.
LEMMA NextSafe == SafeOwnership /\ [Next]_vars => SafeOwnership'
<1> SUFFICES ASSUME SafeOwnership, [Next]_vars PROVE SafeOwnership'
  OBVIOUS
<1>1. CASE UNCHANGED vars
  BY <1>1 DEF vars, SafeOwnership, TypeOK, NeverReleasedTwice, LiveAreHeld,
              HeldOnce, Owned
<1>2. CASE Next
  BY <1>2, OneMaybeSafe, ValueSafe, TwoMaybesSafe, WhenNothingSafe,
     DropLocalSafe DEF Next
<1> QED  BY <1>1, <1>2

\* The invariant of every behaviour.
LEMMA MaybeIsSafe == Spec => []SafeOwnership
<1>1. Init => SafeOwnership
  BY InitSafe
<1>2. SafeOwnership /\ [Next]_vars => SafeOwnership'
  BY NextSafe
<1> QED  BY <1>1, <1>2, PTL DEF Spec

\* What the values of mstd::maybe<T> own is released at most once: by the
\* maybe (~maybe, try_remove_value) or by whoever the value was moved to.
THEOREM NothingReleasedTwice == Spec => []NeverReleasedTwice
<1>1. SafeOwnership => NeverReleasedTwice
  BY DEF SafeOwnership
<1> QED  BY <1>1, MaybeIsSafe, PTL

\* And none of it is lost: assignment, moving and taking leave no object
\* without a value that owns it.
THEOREM NothingIsLost == Spec => []LiveAreHeld
<1>1. SafeOwnership => LiveAreHeld
  BY DEF SafeOwnership
<1> QED  BY <1>1, MaybeIsSafe, PTL

-----------------------------------------------------------------------------
(* Every step is one of Ownership's or none: it changes nothing Ownership  *)
(* sees, makes an object, hands one over or releases one.  Which of them   *)
(* follows from what every T owns before and after the step.               *)

PromisedStep == Promise!Next \/ UNCHANGED Promise!vars

\* Nothing is seen.
LEMMA Stutters ==
    ASSUME local' = local, live' = live, \A e \in Cells : Owned(e)' = Owned(e)
    PROVE  PromisedStep
  BY DEF Promise!vars, Holding, PromisedStep

\* A maybe gets a new object.
LEMMA CreatesInMaybe ==
    ASSUME NEW c \in Cells, NEW x \in Objects, x \notin live,
           local' = local, live' = (live \ Owned(c)) \cup {x},
           \A e \in Cells : Owned(e)' = IF e = c THEN {x} ELSE Owned(e)
    PROVE  PromisedStep
<1>1. Holding' = [Holding EXCEPT ![c] = {x}]
  BY Distinct DEF Holding
<1>2. Promise!Create(c, x, Owned(c))
  BY <1>1, Distinct DEF Promise!Create, Holding
<1>3. Owned(c) \in Promise!Leaving(c)
  BY Distinct DEF Promise!Leaving, Holding
<1> QED  BY <1>2, <1>3 DEF Promise!Next, Promise!Places, PromisedStep

\* The program gets a new object.
LEMMA CreatesLocal ==
    ASSUME NEW x \in Objects, x \notin live,
           local' = local \cup {x}, live' = live \cup {x},
           \A e \in Cells : Owned(e)' = Owned(e)
    PROVE  PromisedStep
<1>1. Holding' = [Holding EXCEPT ![Program] = @ \cup {x}]
  BY Distinct DEF Holding
<1>2. Promise!Create(Program, x, {})
  BY <1>1, Distinct DEF Promise!Create, Holding
<1>3. {} \in Promise!Leaving(Program)
  BY Distinct DEF Promise!Leaving, Holding
<1> QED  BY <1>2, <1>3 DEF Promise!Next, Promise!Places, PromisedStep

\* A maybe hands an object to another.
LEMMA MovesBetween ==
    ASSUME NEW c \in Cells, NEW d \in Cells, c # d, NEW x \in Objects,
           x \in Owned(d), local' = local, live' = live \ Owned(c),
           \A e \in Cells :
               Owned(e)' = IF e = c THEN {x}
                           ELSE IF e = d THEN Owned(d) \ {x} ELSE Owned(e)
    PROVE  PromisedStep
<1>1. Holding' = [Holding EXCEPT ![d] = @ \ {x}, ![c] = {x}]
  BY Distinct DEF Holding
<1>2. Promise!Move(d, c, x, Owned(c))
  BY <1>1, Distinct DEF Promise!Move, Holding
<1>3. Owned(c) \in Promise!Leaving(c)
  BY Distinct DEF Promise!Leaving, Holding
<1> QED  BY <1>2, <1>3 DEF Promise!Next, Promise!Places, PromisedStep

\* The program hands an object to a maybe.
LEMMA MovesIn ==
    ASSUME NEW c \in Cells, NEW x \in Objects, x \in local,
           local' = local \ {x}, live' = live \ Owned(c),
           \A e \in Cells : Owned(e)' = IF e = c THEN {x} ELSE Owned(e)
    PROVE  PromisedStep
<1>1. Holding' = [Holding EXCEPT ![Program] = @ \ {x}, ![c] = {x}]
  BY Distinct DEF Holding
<1>2. Promise!Move(Program, c, x, Owned(c))
  BY <1>1, Distinct DEF Promise!Move, Holding
<1>3. Owned(c) \in Promise!Leaving(c)
  BY Distinct DEF Promise!Leaving, Holding
<1> QED  BY <1>2, <1>3 DEF Promise!Next, Promise!Places, PromisedStep

\* A maybe hands its object to the program.
LEMMA MovesOut ==
    ASSUME NEW c \in Cells, NEW x \in Objects, x \in Owned(c),
           local' = local \cup {x}, live' = live,
           \A e \in Cells : Owned(e)' = IF e = c THEN Owned(c) \ {x}
                                       ELSE Owned(e)
    PROVE  PromisedStep
<1>1. Holding' = [Holding EXCEPT ![c] = @ \ {x}, ![Program] = @ \cup {x}]
  BY Distinct DEF Holding
<1>2. Promise!Move(c, Program, x, {})
  BY <1>1, Distinct DEF Promise!Move, Holding
<1>3. {} \in Promise!Leaving(Program)
  BY Distinct DEF Promise!Leaving, Holding
<1> QED  BY <1>2, <1>3 DEF Promise!Next, Promise!Places, PromisedStep

\* A maybe releases its object.
LEMMA DiscardsOwned ==
    ASSUME NEW c \in Cells, NEW x \in Objects, x \in Owned(c),
           local' = local, live' = live \ {x},
           \A e \in Cells : Owned(e)' = IF e = c THEN Owned(c) \ {x}
                                       ELSE Owned(e)
    PROVE  PromisedStep
<1>1. Holding' = [Holding EXCEPT ![c] = @ \ {x}]
  BY Distinct DEF Holding
<1>2. Promise!Discard(c, {x})
  BY <1>1, Distinct DEF Promise!Discard, Holding
<1>3. {x} \in SUBSET Holding[c]
  BY Distinct DEF Holding
<1> QED  BY <1>2, <1>3 DEF Promise!Next, Promise!Places, PromisedStep

\* The program releases an object.
LEMMA DiscardsLocal ==
    ASSUME NEW x \in Objects, x \in local,
           local' = local \ {x}, live' = live \ {x},
           \A e \in Cells : Owned(e)' = Owned(e)
    PROVE  PromisedStep
<1>1. Holding' = [Holding EXCEPT ![Program] = @ \ {x}]
  BY Distinct DEF Holding
<1>2. Promise!Discard(Program, {x})
  BY <1>1, Distinct DEF Promise!Discard, Holding
<1>3. {x} \in SUBSET Holding[Program]
  BY Distinct DEF Holding
<1> QED  BY <1>2, <1>3 DEF Promise!Next, Promise!Places, PromisedStep

\* An empty maybe is not seen.
LEMMA ConstructNothingPromised ==
    ASSUME SafeOwnership, NEW c \in Cells,
           ConstructNothing(c)
    PROVE  PromisedStep
<1> USE Distinct DEF SafeOwnership, TypeOK, HeldOnce, LiveAreHeld, Owned,
                     Release, Alive, Valid, Fresh, ConstructNothing
<1>1. \A e \in Cells : Owned(e)' = Owned(e)
  OBVIOUS
<1>2. local' = local /\ live' = live
  OBVIOUS
<1> QED  BY ONLY <1>1, <1>2, Stutters

\* A value built in the buffer is a new object.
LEMMA ConstructInPlacePromised ==
    ASSUME SafeOwnership, NEW c \in Cells, NEW x \in Objects,
           ConstructInPlace(c, x)
    PROVE  PromisedStep
<1> USE Distinct DEF SafeOwnership, TypeOK, HeldOnce, LiveAreHeld, Owned,
                     Release, Alive, Valid, Fresh, ConstructInPlace
<1>1. \A e \in Cells : Owned(e)' = IF e = c THEN {x} ELSE Owned(e)
  OBVIOUS
<1>2. /\ c \in Cells /\ x \in Objects /\ x \notin live
        /\ local' = local /\ live' = (live \ Owned(c)) \cup {x}
  OBVIOUS
<1> QED  BY ONLY <1>1, <1>2, CreatesInMaybe

\* A value moved in comes from the program.
LEMMA ConstructFromValuePromised ==
    ASSUME SafeOwnership, NEW c \in Cells, NEW x \in Objects,
           ConstructFromValue(c, x)
    PROVE  PromisedStep
<1> USE Distinct DEF SafeOwnership, TypeOK, HeldOnce, LiveAreHeld, Owned,
                     Release, Alive, Valid, Fresh, ConstructFromValue
<1>1. \A e \in Cells : Owned(e)' = IF e = c THEN {x} ELSE Owned(e)
  OBVIOUS
<1>2. /\ c \in Cells /\ x \in Objects /\ x \in local
        /\ local' = local \ {x} /\ live' = live \ Owned(c)
  OBVIOUS
<1> QED  BY ONLY <1>1, <1>2, MovesIn

\* Moving a maybe hands its object over.
LEMMA MoveConstructPromised ==
    ASSUME SafeOwnership, NEW c \in Cells, NEW d \in Cells,
           MoveConstruct(c, d)
    PROVE  PromisedStep
<1> USE Distinct DEF SafeOwnership, TypeOK, HeldOnce, LiveAreHeld, Owned,
                     Release, Alive, Valid, Fresh, MoveConstruct
<1>1. CASE cell[d] \in Objects
  <2>1. \A e \in Cells :
           Owned(e)' = IF e = c THEN {cell[d]}
                       ELSE IF e = d THEN Owned(d) \ {cell[d]}
                       ELSE Owned(e)
    BY <1>1
  <2>2. /\ c \in Cells /\ d \in Cells /\ c # d
        /\ cell[d] \in Objects /\ cell[d] \in Owned(d)
        /\ local' = local /\ live' = live \ Owned(c)
    BY <1>1
  <2> QED  BY ONLY <2>1, <2>2, MovesBetween
<1>2. CASE cell[d] \notin Objects
  <2>1. \A e \in Cells : Owned(e)' = Owned(e)
    BY <1>2
  <2>2. local' = local /\ live' = live
    BY <1>2
  <2> QED  BY ONLY <2>1, <2>2, Stutters
<1> QED  BY <1>1, <1>2

\* The destructor releases what is there.
LEMMA DestroyPromised ==
    ASSUME SafeOwnership, NEW c \in Cells,
           Destroy(c)
    PROVE  PromisedStep
<1> USE Distinct DEF SafeOwnership, TypeOK, HeldOnce, LiveAreHeld, Owned,
                     Release, Alive, Valid, Fresh, Destroy
<1>1. CASE cell[c] \in Objects
  <2>1. \A e \in Cells :
           Owned(e)' = IF e = c THEN Owned(c) \ {cell[c]}
                       ELSE Owned(e)
    BY <1>1
  <2>2. /\ c \in Cells /\ cell[c] \in Objects /\ cell[c] \in Owned(c)
        /\ local' = local /\ live' = live \ {cell[c]}
    BY <1>1
  <2> QED  BY ONLY <2>1, <2>2, DiscardsOwned
<1>2. CASE cell[c] \notin Objects
  <2>1. \A e \in Cells : Owned(e)' = Owned(e)
    BY <1>2
  <2>2. local' = local /\ live' = live
    BY <1>2
  <2> QED  BY ONLY <2>1, <2>2, Stutters
<1> QED  BY <1>1, <1>2

\* So does assigning nothing.
LEMMA AssignNothingPromised ==
    ASSUME SafeOwnership, NEW c \in Cells,
           AssignNothing(c)
    PROVE  PromisedStep
<1> USE Distinct DEF SafeOwnership, TypeOK, HeldOnce, LiveAreHeld, Owned,
                     Release, Alive, Valid, Fresh, AssignNothing
<1>1. CASE cell[c] \in Objects
  <2>1. \A e \in Cells :
           Owned(e)' = IF e = c THEN Owned(c) \ {cell[c]}
                       ELSE Owned(e)
    BY <1>1
  <2>2. /\ c \in Cells /\ cell[c] \in Objects /\ cell[c] \in Owned(c)
        /\ local' = local /\ live' = live \ {cell[c]}
    BY <1>1
  <2> QED  BY ONLY <2>1, <2>2, DiscardsOwned
<1>2. CASE cell[c] \notin Objects
  <2>1. \A e \in Cells : Owned(e)' = Owned(e)
    BY <1>2
  <2>2. local' = local /\ live' = live
    BY <1>2
  <2> QED  BY ONLY <2>1, <2>2, Stutters
<1> QED  BY <1>1, <1>2

\* Move assignment releases the old object and hands the other over.
LEMMA MoveAssignPromised ==
    ASSUME SafeOwnership, NEW c \in Cells, NEW d \in Cells,
           MoveAssign(c, d)
    PROVE  PromisedStep
<1> USE Distinct DEF SafeOwnership, TypeOK, HeldOnce, LiveAreHeld, Owned,
                     Release, Alive, Valid, Fresh, MoveAssign
<1>1. CASE cell[d] \in Objects
  <2>1. \A e \in Cells :
           Owned(e)' = IF e = c THEN {cell[d]}
                       ELSE IF e = d THEN Owned(d) \ {cell[d]}
                       ELSE Owned(e)
    BY <1>1
  <2>2. /\ c \in Cells /\ d \in Cells /\ c # d
        /\ cell[d] \in Objects /\ cell[d] \in Owned(d)
        /\ local' = local /\ live' = live \ Owned(c)
    BY <1>1
  <2> QED  BY ONLY <2>1, <2>2, MovesBetween
<1>2. CASE cell[d] \notin Objects /\ cell[c] \in Objects
  <2>1. \A e \in Cells :
           Owned(e)' = IF e = c THEN Owned(c) \ {cell[c]}
                       ELSE Owned(e)
    BY <1>2
  <2>2. /\ c \in Cells /\ cell[c] \in Objects /\ cell[c] \in Owned(c)
        /\ local' = local /\ live' = live \ {cell[c]}
    BY <1>2
  <2> QED  BY ONLY <2>1, <2>2, DiscardsOwned
<1>3. CASE cell[d] \notin Objects /\ cell[c] \notin Objects
  <2>1. \A e \in Cells : Owned(e)' = Owned(e)
    BY <1>3
  <2>2. local' = local /\ live' = live
    BY <1>3
  <2> QED  BY ONLY <2>1, <2>2, Stutters
<1> QED  BY <1>1, <1>2, <1>3

\* So does assigning a value of the program,
LEMMA AssignValuePromised ==
    ASSUME SafeOwnership, NEW c \in Cells, NEW x \in Objects,
           AssignValue(c, x)
    PROVE  PromisedStep
<1> USE Distinct DEF SafeOwnership, TypeOK, HeldOnce, LiveAreHeld, Owned,
                     Release, Alive, Valid, Fresh, AssignValue
<1>1. \A e \in Cells : Owned(e)' = IF e = c THEN {x} ELSE Owned(e)
  OBVIOUS
<1>2. /\ c \in Cells /\ x \in Objects /\ x \in local
        /\ local' = local \ {x} /\ live' = live \ Owned(c)
  OBVIOUS
<1> QED  BY ONLY <1>1, <1>2, MovesIn

\* and one moved out of another maybe.
LEMMA AssignMovedValuePromised ==
    ASSUME SafeOwnership, NEW c \in Cells, NEW d \in Cells,
           AssignMovedValue(c, d)
    PROVE  PromisedStep
<1> USE Distinct DEF SafeOwnership, TypeOK, HeldOnce, LiveAreHeld, Owned,
                     Release, Alive, Valid, Fresh, AssignMovedValue
<1>1. CASE cell[d] \in Objects
  <2>1. \A e \in Cells :
           Owned(e)' = IF e = c THEN {cell[d]}
                       ELSE IF e = d THEN Owned(d) \ {cell[d]}
                       ELSE Owned(e)
    BY <1>1
  <2>2. /\ c \in Cells /\ d \in Cells /\ c # d
        /\ cell[d] \in Objects /\ cell[d] \in Owned(d)
        /\ local' = local /\ live' = live \ Owned(c)
    BY <1>1
  <2> QED  BY ONLY <2>1, <2>2, MovesBetween
<1>2. CASE cell[d] \notin Objects /\ cell[c] \in Objects
  <2>1. \A e \in Cells :
           Owned(e)' = IF e = c THEN Owned(c) \ {cell[c]}
                       ELSE Owned(e)
    BY <1>2
  <2>2. /\ c \in Cells /\ cell[c] \in Objects /\ cell[c] \in Owned(c)
        /\ local' = local /\ live' = live \ {cell[c]}
    BY <1>2
  <2> QED  BY ONLY <2>1, <2>2, DiscardsOwned
<1>3. CASE cell[d] \notin Objects /\ cell[c] \notin Objects
  <2>1. \A e \in Cells : Owned(e)' = Owned(e)
    BY <1>3
  <2>2. local' = local /\ live' = live
    BY <1>3
  <2> QED  BY ONLY <2>1, <2>2, Stutters
<1> QED  BY <1>1, <1>2, <1>3

\* A copied value is a new object in place of the old.
LEMMA AssignCopiedValuePromised ==
    ASSUME SafeOwnership, NEW c \in Cells, NEW x \in Objects,
           AssignCopiedValue(c, x)
    PROVE  PromisedStep
<1> USE Distinct DEF SafeOwnership, TypeOK, HeldOnce, LiveAreHeld, Owned,
                     Release, Alive, Valid, Fresh, AssignCopiedValue
<1>1. \A e \in Cells : Owned(e)' = IF e = c THEN {x} ELSE Owned(e)
  OBVIOUS
<1>2. /\ c \in Cells /\ x \in Objects /\ x \notin live
        /\ local' = local /\ live' = (live \ Owned(c)) \cup {x}
  OBVIOUS
<1> QED  BY ONLY <1>1, <1>2, CreatesInMaybe

\* take hands the object to the program.
LEMMA TakePromised ==
    ASSUME SafeOwnership, NEW c \in Cells,
           Take(c)
    PROVE  PromisedStep
<1> USE Distinct DEF SafeOwnership, TypeOK, HeldOnce, LiveAreHeld, Owned,
                     Release, Alive, Valid, Fresh, Take
<1>1. CASE cell[c] \in Objects
  <2>1. \A e \in Cells :
           Owned(e)' = IF e = c THEN Owned(c) \ {cell[c]}
                       ELSE Owned(e)
    BY <1>1
  <2>2. /\ c \in Cells /\ cell[c] \in Objects /\ cell[c] \in Owned(c)
        /\ local' = local \cup {cell[c]} /\ live' = live
    BY <1>1
  <2> QED  BY ONLY <2>1, <2>2, MovesOut
<1>2. CASE cell[c] \notin Objects
  <2>1. \A e \in Cells : Owned(e)' = Owned(e)
    BY <1>2
  <2>2. local' = local /\ live' = live
    BY <1>2
  <2> QED  BY ONLY <2>1, <2>2, Stutters
<1> QED  BY <1>1, <1>2

\* A panic is not seen.
LEMMA PanicPromised ==
    ASSUME SafeOwnership, NEW c \in Cells,
           Panic(c)
    PROVE  PromisedStep
<1> USE Distinct DEF SafeOwnership, TypeOK, HeldOnce, LiveAreHeld, Owned,
                     Release, Alive, Valid, Fresh, Panic
<1>1. \A e \in Cells : Owned(e)' = Owned(e)
  OBVIOUS
<1>2. local' = local /\ live' = live
  OBVIOUS
<1> QED  BY ONLY <1>1, <1>2, Stutters

\* The value of or_else is the program's.
LEMMA OtherwisePromised ==
    ASSUME SafeOwnership, NEW c \in Cells, NEW x \in Objects,
           Otherwise(c, x)
    PROVE  PromisedStep
<1> USE Distinct DEF SafeOwnership, TypeOK, HeldOnce, LiveAreHeld, Owned,
                     Release, Alive, Valid, Fresh, Otherwise
<1>1. \A e \in Cells : Owned(e)' = Owned(e)
  OBVIOUS
<1>2. /\ x \in Objects /\ x \notin live
        /\ local' = local \cup {x} /\ live' = live \cup {x}
  OBVIOUS
<1> QED  BY ONLY <1>1, <1>2, CreatesLocal

\* then hands the object on.
LEMMA ThenPromised ==
    ASSUME SafeOwnership, NEW c \in Cells, NEW d \in Cells,
           Then(c, d)
    PROVE  PromisedStep
<1> USE Distinct DEF SafeOwnership, TypeOK, HeldOnce, LiveAreHeld, Owned,
                     Release, Alive, Valid, Fresh, Then
<1>1. CASE cell[c] \in Objects
  <2>1. \A e \in Cells :
           Owned(e)' = IF e = d THEN {cell[c]}
                       ELSE IF e = c THEN Owned(c) \ {cell[c]}
                       ELSE Owned(e)
    BY <1>1
  <2>2. /\ c \in Cells /\ d \in Cells /\ c # d
        /\ cell[c] \in Objects /\ cell[c] \in Owned(c)
        /\ local' = local /\ live' = live \ Owned(d)
    BY <1>1
  <2> QED  BY ONLY <2>1, <2>2, MovesBetween
<1>2. CASE cell[c] \notin Objects
  <2>1. \A e \in Cells : Owned(e)' = Owned(e)
    BY <1>2
  <2>2. local' = local /\ live' = live
    BY <1>2
  <2> QED  BY ONLY <2>1, <2>2, Stutters
<1> QED  BY <1>1, <1>2

\* A function that keeps its argument releases it.
LEMMA ThenConsumePromised ==
    ASSUME SafeOwnership, NEW c \in Cells,
           ThenConsume(c)
    PROVE  PromisedStep
<1> USE Distinct DEF SafeOwnership, TypeOK, HeldOnce, LiveAreHeld, Owned,
                     Release, Alive, Valid, Fresh, ThenConsume
<1>1. CASE cell[c] \in Objects
  <2>1. \A e \in Cells :
           Owned(e)' = IF e = c THEN Owned(c) \ {cell[c]}
                       ELSE Owned(e)
    BY <1>1
  <2>2. /\ c \in Cells /\ cell[c] \in Objects /\ cell[c] \in Owned(c)
        /\ local' = local /\ live' = live \ {cell[c]}
    BY <1>1
  <2> QED  BY ONLY <2>1, <2>2, DiscardsOwned
<1>2. CASE cell[c] \notin Objects
  <2>1. \A e \in Cells : Owned(e)' = Owned(e)
    BY <1>2
  <2>2. local' = local /\ live' = live
    BY <1>2
  <2> QED  BY ONLY <2>1, <2>2, Stutters
<1> QED  BY <1>1, <1>2

\* when_nothing makes an object or does nothing.
LEMMA WhenNothingPromised ==
    ASSUME SafeOwnership, NEW c \in Cells, NEW d \in Cells, NEW x \in Objects,
           WhenNothing(c, d, x)
    PROVE  PromisedStep
<1> USE Distinct DEF SafeOwnership, TypeOK, HeldOnce, LiveAreHeld, Owned,
                     Release, Alive, Valid, Fresh, WhenNothing
<1>1. CASE Valid(c)
  <2>1. \A e \in Cells : Owned(e)' = Owned(e)
    BY <1>1
  <2>2. local' = local /\ live' = live
    BY <1>1
  <2> QED  BY ONLY <2>1, <2>2, Stutters
<1>2. CASE ~Valid(c)
  <2>1. \A e \in Cells : Owned(e)' = IF e = d THEN {x} ELSE Owned(e)
    BY <1>2
  <2>2. /\ d \in Cells /\ x \in Objects /\ x \notin live
        /\ local' = local /\ live' = (live \ Owned(d)) \cup {x}
    BY <1>2
  <2> QED  BY ONLY <2>1, <2>2, CreatesInMaybe
<1> QED  BY <1>1, <1>2

\* A variable that goes out of scope releases its object.
LEMMA DropLocalPromised ==
    ASSUME SafeOwnership, NEW x \in Objects,
           DropLocal(x)
    PROVE  PromisedStep
<1> USE Distinct DEF SafeOwnership, TypeOK, HeldOnce, LiveAreHeld, Owned,
                     Release, Alive, Valid, Fresh, DropLocal
<1>1. \A e \in Cells : Owned(e)' = Owned(e)
  OBVIOUS
<1>2. /\ x \in Objects /\ x \in local
        /\ local' = local \ {x} /\ live' = live \ {x}
  OBVIOUS
<1> QED  BY ONLY <1>1, <1>2, DiscardsLocal

\* Every operation keeps the promise.
LEMMA NextPromised == SafeOwnership /\ [Next]_vars => PromisedStep
<1>1. ASSUME SafeOwnership, UNCHANGED vars PROVE PromisedStep
  BY <1>1, Stutters DEF vars, Owned
<1>2. ASSUME SafeOwnership, Next PROVE PromisedStep
  BY <1>2, ConstructNothingPromised, ConstructInPlacePromised,
     ConstructFromValuePromised, MoveConstructPromised,
     DestroyPromised, AssignNothingPromised, MoveAssignPromised,
     AssignValuePromised, AssignMovedValuePromised,
     AssignCopiedValuePromised, TakePromised, PanicPromised,
     OtherwisePromised, ThenPromised, ThenConsumePromised,
     WhenNothingPromised, DropLocalPromised
     DEF Next
<1> QED  BY <1>1, <1>2

\* mstd::maybe<T> implements Ownership as long as no maybe is copied: every
\* operation makes one object, hands one over, releases one, or does neither.
THEOREM MaybeImplementsOwnership == Spec => HandsOver
<1>1. Init => Promise!Init
  BY Distinct DEF Init, Promise!Init, Promise!Places, Holding, Owned
<1>2. SafeOwnership /\ [Next]_vars => [Promise!Next]_(Promise!vars)
  BY NextPromised DEF PromisedStep
<1> QED  BY <1>1, <1>2, MaybeIsSafe, PTL DEF Spec, HandsOver, Promise!Spec

-----------------------------------------------------------------------------
(***************************************************************************)
(* All containers together: the inductive invariant.                       *)
(***************************************************************************)

Own  == <<"own", Program>>
Lost == <<"lost", Program>>
Boxes == Places \ {Own, Lost}

\* Who owns what.
OwnersOk ==
    /\ SafeOwnership
    /\ own \subseteq Objects /\ lost \subseteq Objects
    /\ HeldApart

AltStates == [tag : Ids, is : Types, val : Objects \cup {Hollow}]
ThunkStates == [ready : BOOLEAN, is : {"fn", "value"},
                by : {"make_lazy", "make_lazy_call"}, val : Objects \cup {Hollow}]

AltsOk ==
    /\ alt \in [Choices -> {Dead} \cup AltStates]
    /\ TagFits

ThunksOk ==
    /\ thunk \in [Lazies -> {Dead} \cup ThunkStates]
    /\ ReadyFits

\* Where there is no pool no bit is set.
PoolOk ==
    /\ slot \in [Slots -> Objects \cup {Hollow, Raw}]
    /\ bit \subseteq Slots
    /\ ref \in [Refs -> {Nothing, Stale} \cup Slots]
    /\ open \in BOOLEAN
    /\ ~open => bit = {}
    /\ BitsFit

ChainStates == [on : Choices, left : Seq(Types), via : {"chain", "each"},
                late : BOOLEAN, done : BOOLEAN, ran : Nat, over : BOOLEAN]

\* A chain has called a handler once it is done; match stops at the function it
\* calls, and from its second on has no other left.
ChainOk ==
    chain # None =>
        /\ chain \in ChainStates
        /\ chain.over => chain.left = <<>>
        /\ chain.via = "chain" =>
              chain.ran = IF chain.done \/ chain.over THEN 1 ELSE 0
        /\ chain.via = "each" =>
              /\ chain.ran = IF chain.done THEN 1 ELSE 0
              /\ chain.done => chain.left = <<>>
              /\ Len(chain.left) <= IF chain.late THEN 1 ELSE 2

IInv == OwnersOk /\ AltsOk /\ ChainOk /\ ThunksOk /\ PoolOk

-----------------------------------------------------------------------------
\* What the theorems suppose of the program: it does what the repository's does
\* where the code is right for nothing else.

\* No alternative of a choice can be built from another (choice.hpp:139).
NoneConverts == Converts = {}

\* match is called with two functions: with more it may call several of them
\* (mstd-test/choice.cpp:157-175).
TwoFunctions == \A ts \in Tries : Len(ts) <= 2

\* Only T's are released whose bit release_raw computes right
\* (mstd-test/maybe.cpp:41).
RightBits == \A p \in Released : BitOfSlot(p) = p

Usage == NoneConverts /\ TwoFunctions /\ RightBits

-----------------------------------------------------------------------------
(* Places *)

\* The program's variables and what was overwritten are places.
LEMMA OwnPlaces ==
    /\ Own \in Places /\ Lost \in Places /\ Own # Lost
    /\ Has(Own) = own /\ Has(Own)' = own'
    /\ Has(Lost) = lost /\ Has(Lost)' = lost'
  BY DEF Own, Lost, Places, Has

\* So are the containers.
LEMMA BoxPlaces ==
    /\ \A k \in Choices : /\ <<"choice", k>> \in Boxes
                          /\ Has(<<"choice", k>>) = OfChoice(k)
                          /\ Has(<<"choice", k>>)' = OfChoice(k)'
    /\ \A l \in Lazies : /\ <<"lazy", l>> \in Boxes
                         /\ Has(<<"lazy", l>>) = OfLazy(l)
                         /\ Has(<<"lazy", l>>)' = OfLazy(l)'
    /\ \A p \in Slots : /\ <<"slot", p>> \in Boxes
                        /\ Has(<<"slot", p>>) = OfSlot(p)
                        /\ Has(<<"slot", p>>)' = OfSlot(p)'
  BY DEF Boxes, Own, Lost, Places, Has

\* And there are no others.
LEMMA PlaceIs ==
    ASSUME NEW h \in Boxes
    PROVE  \/ \E k \in Choices : h = <<"choice", k>>
           \/ \E l \in Lazies : h = <<"lazy", l>>
           \/ \E p \in Slots : h = <<"slot", p>>
  BY DEF Boxes, Places, Own, Lost

\* What happens to a choice is seen at its place alone.
LEMMA OtherChoices ==
    ASSUME NEW k \in Choices, UNCHANGED <<thunk, slot>>,
           \A j \in Choices : j # k => OfChoice(j)' = OfChoice(j)
    PROVE  \A h \in Boxes : h # <<"choice", k>> => Has(h)' = Has(h)
<1> SUFFICES ASSUME NEW h \in Boxes, h # <<"choice", k>>
             PROVE  Has(h)' = Has(h)
  OBVIOUS
<1>1. ASSUME NEW j \in Choices, h = <<"choice", j>> PROVE Has(h)' = Has(h)
  BY <1>1, BoxPlaces
<1>2. ASSUME NEW l \in Lazies, h = <<"lazy", l>> PROVE Has(h)' = Has(h)
  BY <1>2, BoxPlaces DEF OfLazy
<1>3. ASSUME NEW p \in Slots, h = <<"slot", p>> PROVE Has(h)' = Has(h)
  BY <1>3, BoxPlaces DEF OfSlot
<1> QED  BY <1>1, <1>2, <1>3, PlaceIs

\* The same for lazies.
LEMMA OtherLazies ==
    ASSUME NEW l \in Lazies, UNCHANGED <<alt, slot>>,
           \A m \in Lazies : m # l => OfLazy(m)' = OfLazy(m)
    PROVE  \A h \in Boxes : h # <<"lazy", l>> => Has(h)' = Has(h)
<1> SUFFICES ASSUME NEW h \in Boxes, h # <<"lazy", l>>
             PROVE  Has(h)' = Has(h)
  OBVIOUS
<1>1. ASSUME NEW k \in Choices, h = <<"choice", k>> PROVE Has(h)' = Has(h)
  BY <1>1, BoxPlaces DEF OfChoice
<1>2. ASSUME NEW m \in Lazies, h = <<"lazy", m>> PROVE Has(h)' = Has(h)
  BY <1>2, BoxPlaces
<1>3. ASSUME NEW p \in Slots, h = <<"slot", p>> PROVE Has(h)' = Has(h)
  BY <1>3, BoxPlaces DEF OfSlot
<1> QED  BY <1>1, <1>2, <1>3, PlaceIs

\* And for slots.
LEMMA OtherSlots ==
    ASSUME NEW p \in Slots, UNCHANGED <<alt, thunk>>,
           \A q \in Slots : q # p => OfSlot(q)' = OfSlot(q)
    PROVE  \A h \in Boxes : h # <<"slot", p>> => Has(h)' = Has(h)
<1> SUFFICES ASSUME NEW h \in Boxes, h # <<"slot", p>>
             PROVE  Has(h)' = Has(h)
  OBVIOUS
<1>1. ASSUME NEW k \in Choices, h = <<"choice", k>> PROVE Has(h)' = Has(h)
  BY <1>1, BoxPlaces DEF OfChoice
<1>2. ASSUME NEW l \in Lazies, h = <<"lazy", l>> PROVE Has(h)' = Has(h)
  BY <1>2, BoxPlaces DEF OfLazy
<1>3. ASSUME NEW q \in Slots, h = <<"slot", q>> PROVE Has(h)' = Has(h)
  BY <1>3, BoxPlaces
<1> QED  BY <1>1, <1>2, <1>3, PlaceIs

\* What is in a place is the program's.
LEMMA HasInLocal ==
    ASSUME OwnersOk, NEW h \in Boxes, Has(h) \subseteq Objects
    PROVE  Has(h) \subseteq local
<1> SUFFICES ASSUME NEW x \in Has(h) PROVE x \in local
  OBVIOUS
<1>1. x \in Objects /\ h \in Places
  BY DEF Boxes
<1>2. x \in local <=> {g \in Places : x \in Has(g)} # {}
  BY <1>1 DEF OwnersOk, HeldApart
<1> QED  BY <1>1, <1>2

-----------------------------------------------------------------------------
(* What happens to an object *)

\* It stays where it is, goes to a place, or leaves the program.
Stays(x) ==
    /\ x \in local' <=> x \in local
    /\ \A h \in Places : x \in Has(h)' <=> x \in Has(h)
GoesTo(x, g) ==
    /\ x \in local'
    /\ \A h \in Places : x \in Has(h)' <=> h = g
Leaves(x) ==
    /\ x \notin local'
    /\ \A h \in Places : x \notin Has(h)'

\* If that is all that happens, objects stay apart.
LEMMA StaysApart ==
    ASSUME HeldApart,
           \A x \in Objects :
               Stays(x) \/ Leaves(x) \/ \E g \in Places : GoesTo(x, g)
    PROVE  HeldApart'
<1> SUFFICES ASSUME NEW x \in Objects
             PROVE  /\ x \in local' <=> {h \in Places : x \in Has(h)'} # {}
                    /\ \A g, h \in {i \in Places : x \in Has(i)'} : g = h
  BY DEF HeldApart
<1>1. CASE Stays(x)
  <2>1. {h \in Places : x \in Has(h)'} = {h \in Places : x \in Has(h)}
    BY <1>1 DEF Stays
  <2>2. /\ x \in local <=> {h \in Places : x \in Has(h)} # {}
        /\ \A g, h \in {i \in Places : x \in Has(i)} : g = h
    BY DEF HeldApart
  <2> QED  BY <1>1, <2>1, <2>2 DEF Stays
<1>2. CASE Leaves(x)
  BY <1>2 DEF Leaves
<1>3. CASE \E g \in Places : GoesTo(x, g)
  BY <1>3 DEF GoesTo
<1> QED  BY <1>1, <1>2, <1>3

\* An object in a place is in no other.
LEMMA OnePlace ==
    ASSUME HeldApart, NEW h \in Places, NEW x \in Has(h), x \in Objects
    PROVE  x \in local /\ \A g \in Places : x \in Has(g) => g = h
<1>1. /\ x \in local <=> {i \in Places : x \in Has(i)} # {}
      /\ \A g, i \in {j \in Places : x \in Has(j)} : g = i
  BY DEF HeldApart
<1> QED  BY <1>1

\* An object outside the program is in none.
LEMMA NoPlace ==
    ASSUME HeldApart, NEW x \in Objects, x \notin local, NEW g \in Places
    PROVE  x \notin Has(g)
<1>1. x \in local <=> {i \in Places : x \in Has(i)} # {}
  BY DEF HeldApart
<1> QED  BY <1>1

-----------------------------------------------------------------------------
(* What the operations do to the owners *)

\* A step that releases objects of the program and makes at most one keeps what
\* Maybe promises, and is one of Ownership's.
LEMMA ReplaceSafe ==
    ASSUME SafeOwnership, NEW gone \in SUBSET local, NEW made,
           made = {} \/ \E x \in Objects \cap Fresh : made = {x},
           local' = (local \ gone) \cup made, Release(gone, made),
           cell' = cell, panicked' \in BOOLEAN
    PROVE  SafeOwnership' /\ PromisedStep
<1>1. gone \subseteq live /\ made \subseteq Objects /\ made \cap live = {}
  BY DEF SafeOwnership, LiveAreHeld, Fresh
<1>2. \A c \in Cells : Owned(c)' = Owned(c) /\ Owned(c) \cap gone = {} /\ Owned(c) \subseteq live
  BY DEF SafeOwnership, HeldOnce, Owned, LiveAreHeld
<1>3. live' = (live \ gone) \cup made /\ ~faulted' /\ faulted' \in BOOLEAN
  BY <1>1 DEF Release, SafeOwnership, NeverReleasedTwice
<1>4. LiveAreHeld'
  <2>1. UNION {Owned(c)' : c \in Cells} = UNION {Owned(c) : c \in Cells}
    BY <1>2
  <2>2. live = local \cup UNION {Owned(c) : c \in Cells}
    BY DEF SafeOwnership, LiveAreHeld
  <2>3. gone \cap UNION {Owned(c) : c \in Cells} = {}
    BY <1>2
  <2> HIDE DEF Owned
  <2> QED  BY <1>3, <2>1, <2>2, <2>3 DEF LiveAreHeld
<1>5. HeldOnce'
  BY <1>1, <1>2 DEF SafeOwnership, HeldOnce
<1>6. TypeOK'
  BY <1>1, <1>3 DEF SafeOwnership, TypeOK
<1>7. PromisedStep
  <2>1. CASE made = {}
    <3>1. Holding' = [Holding EXCEPT ![Program] = @ \ gone]
      BY <1>2, <2>1, Distinct DEF Holding
    <3>2. Promise!Discard(Program, gone)
      BY <1>3, <2>1, <3>1 DEF Promise!Discard
    <3>3. gone \in SUBSET Holding[Program] /\ Program \in Promise!Places
      BY Distinct DEF Holding, Promise!Places
    <3> QED  BY <3>2, <3>3 DEF Promise!Next, PromisedStep
  <2>2. ASSUME NEW x \in Objects \cap Fresh, made = {x} PROVE PromisedStep
    <3>1. Holding' = [Holding EXCEPT ![Program] = (@ \ gone) \cup {x}]
      BY <1>2, <2>2, Distinct DEF Holding
    <3>2. Promise!Create(Program, x, gone)
      BY <1>3, <2>2, <3>1 DEF Promise!Create, Fresh
    <3>3. gone \in Promise!Leaving(Program) /\ Program \in Promise!Places
      BY Distinct DEF Holding, Promise!Leaving, Promise!Places
    <3> QED  BY <3>2, <3>3 DEF Promise!Next, PromisedStep
  <2> QED  BY <2>1, <2>2
<1> QED
  BY <1>3, <1>4, <1>5, <1>6, <1>7 DEF SafeOwnership, NeverReleasedTwice

\* A step that releases and makes nothing.
LEMMA PassSafe ==
    ASSUME SafeOwnership, UNCHANGED <<cell, local, live, faulted>>, panicked' \in BOOLEAN
    PROVE  SafeOwnership' /\ PromisedStep
<1>1. SafeOwnership'
  BY DEF SafeOwnership, TypeOK, NeverReleasedTwice, LiveAreHeld, HeldOnce, Owned
<1>2. PromisedStep
  BY Stutters DEF Owned
<1> QED  BY <1>1, <1>2

-----------------------------------------------------------------------------
(* The ways in which a container changes; h is its place *)

\* What is in a container is an object of the program.
LEMMA BoxHas ==
    ASSUME OwnersOk, NEW h \in Boxes
    PROVE  Has(h) \subseteq Objects /\ Has(h) \subseteq local /\ h \in Places
<1>1. Has(h) \subseteq Objects
  <2>1. ASSUME NEW k \in Choices, h = <<"choice", k>> PROVE Has(h) \subseteq Objects
    BY <2>1, BoxPlaces DEF OfChoice
  <2>2. ASSUME NEW l \in Lazies, h = <<"lazy", l>> PROVE Has(h) \subseteq Objects
    BY <2>2, BoxPlaces DEF OfLazy
  <2>3. ASSUME NEW p \in Slots, h = <<"slot", p>> PROVE Has(h) \subseteq Objects
    BY <2>3, BoxPlaces DEF OfSlot
  <2> QED  BY <2>1, <2>2, <2>3, PlaceIs
<1> QED  BY <1>1, HasInLocal DEF Boxes

\* Nothing changes hands.
LEMMA NothingMoves ==
    ASSUME OwnersOk, UNCHANGED <<cell, lost>>, Pass({}, {}), panicked' \in BOOLEAN,
           \A h \in Boxes : Has(h)' = Has(h)
    PROVE  OwnersOk' /\ PromisedStep
<1>1. own' = own /\ local' = local /\ UNCHANGED <<live, faulted>>
  BY DEF Pass
<1>2. \A h \in Places : Has(h)' = Has(h)
  BY <1>1, OwnPlaces DEF Boxes
<1>3. HeldApart'
  <2>1. \A x \in Objects : Stays(x)
    BY <1>1, <1>2 DEF Stays
  <2> QED  BY <2>1, StaysApart DEF OwnersOk
<1> QED  BY <1>1, <1>3, PassSafe DEF OwnersOk

\* What is there is destroyed, and a T that owns x may be built in its place.
LEMMA Rebuilt ==
    ASSUME OwnersOk, NEW h \in Boxes, NEW made,
           made = {} \/ \E x \in Objects \cap Fresh : made = {x},
           UNCHANGED <<cell, lost, panicked>>, Replace(Has(h), made),
           Has(h)' = made, \A g \in Boxes : g # h => Has(g)' = Has(g)
    PROVE  OwnersOk' /\ PromisedStep
<1> DEFINE gone == Has(h)
<1>1. gone \subseteq Objects /\ gone \subseteq local /\ h \in Places
  BY BoxHas
<1>2. own' = own /\ local' = (local \ gone) \cup made /\ Release(gone, made)
  BY DEF Replace
<1>3. \A g \in Places : g # h => Has(g)' = Has(g)
  BY <1>2, OwnPlaces DEF Boxes
<1>4. made \subseteq Objects /\ made \cap local = {}
  BY DEF Fresh, OwnersOk, SafeOwnership, LiveAreHeld
<1> HIDE DEF gone
<1>5. HeldApart'
  <2>1. ASSUME NEW x \in Objects
        PROVE  Stays(x) \/ Leaves(x) \/ \E g \in Places : GoesTo(x, g)
    <3>1. CASE x \in made
      <4>1. \A g \in Places : x \notin Has(g)
        BY <1>4, <3>1, NoPlace DEF OwnersOk
      <4>2. GoesTo(x, h)
        BY <1>1, <1>2, <1>3, <3>1, <4>1 DEF GoesTo
      <4> QED  BY <1>1, <4>2
    <3>2. CASE x \notin made /\ x \in gone
      <4>1. \A g \in Places : x \in Has(g) => g = h
        BY <1>1, <3>2, OnePlace DEF OwnersOk, gone
      <4>2. Leaves(x)
        BY <1>1, <1>2, <1>3, <3>2, <4>1 DEF Leaves
      <4> QED  BY <4>2
    <3>3. CASE x \notin made /\ x \notin gone
      <4>1. Stays(x)
        BY <1>1, <1>2, <1>3, <3>3 DEF Stays, gone
      <4> QED  BY <4>1
    <3> QED  BY <3>1, <3>2, <3>3
  <2> QED  BY <2>1, StaysApart DEF OwnersOk
<1>6. SafeOwnership' /\ PromisedStep
  <2>1. panicked' \in BOOLEAN
    BY DEF OwnersOk, SafeOwnership, TypeOK
  <2> QED  BY <1>1, <1>2, <2>1, ReplaceSafe DEF OwnersOk
<1> QED  BY <1>2, <1>5, <1>6 DEF OwnersOk

\* A T of the program is moved in where nothing was, or over what is then lost.
LEMMA MovedIn ==
    ASSUME OwnersOk, NEW h \in Boxes, NEW x \in own,
           UNCHANGED <<cell, panicked>>, Pass({x}, {}), lost' = lost \cup Has(h),
           Has(h)' = {x}, \A g \in Boxes : g # h => Has(g)' = Has(g)
    PROVE  OwnersOk' /\ PromisedStep
<1>1. Has(h) \subseteq Objects /\ Has(h) \subseteq local /\ h \in Places /\ h # Own /\ h # Lost
  BY BoxHas DEF Boxes
<1>2. own' = own \ {x} /\ local' = local /\ UNCHANGED <<live, faulted>>
  BY DEF Pass
<1>3. x \in Objects /\ x \in local /\ \A g \in Places : x \in Has(g) => g = Own
  BY OwnPlaces, OnePlace DEF OwnersOk
<1>4. \A g \in Places : g \notin {h, Own, Lost} => Has(g)' = Has(g)
  BY DEF Boxes
<1>5. HeldApart'
  <2>1. ASSUME NEW y \in Objects
        PROVE  Stays(y) \/ Leaves(y) \/ \E g \in Places : GoesTo(y, g)
    <3>1. CASE y = x
      <4>1. GoesTo(x, h)
        BY <1>1, <1>2, <1>3, <1>4, OwnPlaces DEF GoesTo
      <4> QED  BY <1>1, <3>1, <4>1
    <3>2. CASE y # x /\ y \in Has(h)
      <4>1. y \in local /\ \A g \in Places : y \in Has(g) => g = h
        BY <1>1, <3>2, OnePlace DEF OwnersOk
      <4>2. GoesTo(y, Lost)
        BY <1>1, <1>2, <1>4, <3>2, <4>1, OwnPlaces DEF GoesTo
      <4> QED  BY <4>2, OwnPlaces
    <3>3. CASE y # x /\ y \notin Has(h)
      <4>1. Stays(y)
        BY <1>1, <1>2, <1>4, <3>3, OwnPlaces DEF Stays
      <4> QED  BY <4>1
    <3> QED  BY <3>1, <3>2, <3>3
  <2> QED  BY <2>1, StaysApart DEF OwnersOk
<1>6. SafeOwnership' /\ PromisedStep
  <2>1. panicked' \in BOOLEAN
    BY DEF OwnersOk, SafeOwnership, TypeOK
  <2> QED  BY <1>2, <2>1, PassSafe DEF OwnersOk
<1> QED  BY <1>1, <1>2, <1>5, <1>6 DEF OwnersOk

\* What is there is moved to the program.
LEMMA MovedOut ==
    ASSUME OwnersOk, NEW h \in Boxes,
           UNCHANGED <<cell, lost, panicked>>, Pass({}, Has(h)),
           Has(h)' = {}, \A g \in Boxes : g # h => Has(g)' = Has(g)
    PROVE  OwnersOk' /\ PromisedStep
<1>1. Has(h) \subseteq Objects /\ Has(h) \subseteq local /\ h \in Places /\ h # Own /\ h # Lost
  BY BoxHas DEF Boxes
<1>2. own' = own \cup Has(h) /\ local' = local /\ UNCHANGED <<live, faulted>>
  BY DEF Pass
<1>3. \A g \in Places : g \notin {h, Own} => Has(g)' = Has(g)
  BY OwnPlaces DEF Boxes
<1>4. HeldApart'
  <2>1. ASSUME NEW y \in Objects
        PROVE  Stays(y) \/ Leaves(y) \/ \E g \in Places : GoesTo(y, g)
    <3>1. CASE y \in Has(h)
      <4>1. y \in local /\ \A g \in Places : y \in Has(g) => g = h
        BY <1>1, <3>1, OnePlace DEF OwnersOk
      <4>2. GoesTo(y, Own)
        BY <1>1, <1>2, <1>3, <3>1, <4>1, OwnPlaces DEF GoesTo
      <4> QED  BY <4>2, OwnPlaces
    <3>2. CASE y \notin Has(h)
      <4>1. Stays(y)
        BY <1>1, <1>2, <1>3, <3>2, OwnPlaces DEF Stays
      <4> QED  BY <4>1
    <3> QED  BY <3>1, <3>2
  <2> QED  BY <2>1, StaysApart DEF OwnersOk
<1>5. SafeOwnership' /\ PromisedStep
  <2>1. panicked' \in BOOLEAN
    BY DEF OwnersOk, SafeOwnership, TypeOK
  <2> QED  BY <1>2, <2>1, PassSafe DEF OwnersOk
<1> QED  BY <1>1, <1>2, <1>4, <1>5 DEF OwnersOk

\* It is moved from g to h, where nothing was.
LEMMA MovedOver ==
    ASSUME OwnersOk, NEW h \in Boxes, NEW g \in Boxes, h # g, Has(h) = {},
           UNCHANGED <<cell, lost, panicked>>, Pass({}, {}),
           Has(h)' = Has(g), Has(g)' = {},
           \A i \in Boxes : i \notin {h, g} => Has(i)' = Has(i)
    PROVE  OwnersOk' /\ PromisedStep
<1>1. Has(g) \subseteq Objects /\ g \in Places /\ h \in Places
  BY BoxHas
<1>2. own' = own /\ local' = local /\ UNCHANGED <<live, faulted>>
  BY DEF Pass
<1>3. \A i \in Places : i \notin {h, g} => Has(i)' = Has(i)
  BY <1>2, OwnPlaces DEF Boxes
<1>4. HeldApart'
  <2>1. ASSUME NEW y \in Objects
        PROVE  Stays(y) \/ Leaves(y) \/ \E i \in Places : GoesTo(y, i)
    <3>1. CASE y \in Has(g)
      <4>1. y \in local /\ \A i \in Places : y \in Has(i) => i = g
        BY <1>1, <3>1, OnePlace DEF OwnersOk
      <4>2. GoesTo(y, h)
        BY <1>1, <1>2, <1>3, <3>1, <4>1 DEF GoesTo
      <4> QED  BY <1>1, <4>2
    <3>2. CASE y \notin Has(g)
      <4>1. Stays(y)
        BY <1>1, <1>2, <1>3, <3>2 DEF Stays
      <4> QED  BY <4>1
    <3> QED  BY <3>1, <3>2
  <2> QED  BY <2>1, StaysApart DEF OwnersOk
<1>5. SafeOwnership' /\ PromisedStep
  <2>1. panicked' \in BOOLEAN
    BY DEF OwnersOk, SafeOwnership, TypeOK
  <2> QED  BY <1>2, <2>1, PassSafe DEF OwnersOk
<1> QED  BY <1>1, <1>2, <1>4, <1>5 DEF OwnersOk

\* It is moved to a new maybe.
LEMMA MovedToMaybe ==
    ASSUME OwnersOk, NEW h \in Boxes, NEW c \in Cells, ~Alive(c), NEW y,
           y \in Objects \cup {Hollow, Nothing}, Has(h) = {y} \cap Objects,
           cell' = [cell EXCEPT ![c] = y], local' = local \ Has(h),
           UNCHANGED <<own, lost, live, faulted, panicked>>,
           Has(h)' = {}, \A g \in Boxes : g # h => Has(g)' = Has(g)
    PROVE  OwnersOk' /\ PromisedStep
<1>1. Has(h) \subseteq local /\ h \in Places
  BY BoxHas
<1>2. \A g \in Places : g # h => Has(g)' = Has(g)
  BY OwnPlaces DEF Boxes
<1>3. HeldApart'
  <2>1. ASSUME NEW x \in Objects
        PROVE  Stays(x) \/ Leaves(x) \/ \E g \in Places : GoesTo(x, g)
    <3>1. CASE x \in Has(h)
      <4>1. \A g \in Places : x \in Has(g) => g = h
        BY <1>1, <3>1, OnePlace DEF OwnersOk
      <4>2. Leaves(x)
        BY <1>1, <1>2, <3>1, <4>1 DEF Leaves
      <4> QED  BY <4>2
    <3>2. CASE x \notin Has(h)
      <4>1. Stays(x)
        BY <1>1, <1>2, <3>2 DEF Stays
      <4> QED  BY <4>1
    <3> QED  BY <3>1, <3>2
  <2> QED  BY <2>1, StaysApart DEF OwnersOk
<1>4. \A e \in Cells : Owned(e)' = IF e = c THEN Has(h) ELSE Owned(e)
  BY DEF Owned, OwnersOk, SafeOwnership, TypeOK
<1>5. Owned(c) = {}
  BY Distinct DEF Owned, Alive
<1>6. SafeOwnership'
  <2>1. TypeOK' /\ NeverReleasedTwice'
    BY DEF OwnersOk, SafeOwnership, TypeOK, NeverReleasedTwice
  <2>2. HeldOnce'
    BY <1>1, <1>4 DEF OwnersOk, SafeOwnership, HeldOnce
  <2>3. LiveAreHeld'
    <3> DEFINE before == UNION {Owned(e) : e \in Cells}
               after  == UNION {Owned(e)' : e \in Cells}
    <3>1. \A x : x \in after <=> \E e \in Cells : x \in Owned(e)'
      OBVIOUS
    <3>2. \A x : x \in before <=> \E e \in Cells : x \in Owned(e)
      OBVIOUS
    <3>3. live = local \cup before
      BY DEF OwnersOk, SafeOwnership, LiveAreHeld
    <3> HIDE DEF before, after
    <3>4. after = before \cup Has(h)
      BY <1>4, <1>5, <3>1, <3>2
    <3>5. live' = local' \cup after
      BY <1>1, <3>3, <3>4
    <3> QED  BY <3>5 DEF LiveAreHeld, after
  <2> QED  BY <2>1, <2>2, <2>3 DEF SafeOwnership
<1>7. PromisedStep
  <2>1. CASE y \in Objects
    <3>1. Holding' = [Holding EXCEPT ![Program] = @ \ {y}, ![c] = {y}]
      BY <1>4, <2>1, Distinct DEF Holding
    <3>2. Promise!Move(Program, c, y, {})
      BY <1>1, <1>5, <2>1, <3>1, Distinct DEF Promise!Move, Holding
    <3>3. {} \in Promise!Leaving(c)
      BY <1>5, Distinct DEF Promise!Leaving, Holding
    <3> QED  BY <2>1, <3>2, <3>3 DEF Promise!Next, Promise!Places, PromisedStep
  <2>2. CASE y \notin Objects
    BY <1>4, <1>5, <2>2, Stutters
  <2> QED  BY <2>1, <2>2
<1> QED  BY <1>3, <1>6, <1>7 DEF OwnersOk

-----------------------------------------------------------------------------
(* choice *)

\* The least of a set of naturals.
LEMMA LeastOf ==
    ASSUME NEW T \in SUBSET Nat, T # {}
    PROVE  \E n \in T : \A m \in T : n <= m
<1>1. PICK n \in T : \A m \in T : ~ (<<m, n>> \in OpToRel(<, Nat))
  BY WFMin, NatLessThanWellFounded
<1>2. \A m \in T : ~ (m < n)
  BY <1>1 DEF OpToRel
<1> QED  BY <1>2

\* The discriminator that is written for a type names it.
LEMMA IdOf ==
    ASSUME NEW t \in Types
    PROVE  id_of(t) \in Ids /\ type_at(id_of(t)) = t
<1> DEFINE named == {i \in Ids : type_at(i) = t}
<1>1. Len(TypeList) \in Nat
  BY ChoiceAssumption
<1>2. Ids \subseteq Nat /\ named \in SUBSET Nat
  BY <1>1 DEF Ids
<1>3. named # {}
  <2>1. PICK i \in 1 .. Len(TypeList) : t = TypeList[i]
    BY DEF Types
  <2>2. i - 1 \in Ids /\ (i - 1) + 1 = i
    BY <1>1, <2>1 DEF Ids
  <2> QED  BY <2>1, <2>2 DEF type_at
<1>4. PICK n \in named : \A m \in named : n <= m
  BY <1>2, <1>3, LeastOf
<1>5. /\ n \in Ids /\ type_at(n) = t
      /\ \A j \in Ids : type_at(j) = t => n <= j
  BY <1>4
<1> QED  BY <1>5 DEF id_of

\* What operations write into a choice.
LEMMA AltIs ==
    ASSUME NEW x \in Objects \cup {Hollow}
    PROVE  /\ Dead \notin AltStates
           /\ \A i \in Ids : /\ At(i, x) \in AltStates
                             /\ At(i, x).is = type_at(At(i, x).tag)
                             /\ At(i, x).val = x
           /\ \A t \in Types : /\ Alt(t, x) \in AltStates
                               /\ Alt(t, x).is = type_at(Alt(t, x).tag)
                               /\ Alt(t, x).val = x
           /\ \A i \in Ids : type_at(i) \in Types
           /\ 0 \in Ids
<1>1. Len(TypeList) \in Nat \ {0}
  BY ChoiceAssumption, EmptySeq
<1>2. \A i \in Ids : type_at(i) \in Types
  BY <1>1 DEF Ids, Types, type_at
<1>3. Dead \notin AltStates
  BY ChoiceAssumption DEF AltStates
<1>4. 0 \in Ids
  BY <1>1 DEF Ids
<1> QED  BY <1>2, <1>3, <1>4, IdOf DEF At, Alt, AltStates

\* A choice that becomes a, and what is then where.
LEMMA AltBecomes ==
    ASSUME AltsOk, NEW k \in Choices, NEW a, a \in {Dead} \cup AltStates,
           a # Dead => type_at(a.tag) = a.is,
           alt' = [alt EXCEPT ![k] = a], UNCHANGED <<thunk, slot>>
    PROVE  /\ AltsOk'
           /\ Has(<<"choice", k>>)' = IF a = Dead THEN {} ELSE {a.val} \cap Objects
           /\ \A h \in Boxes : h # <<"choice", k>> => Has(h)' = Has(h)
           /\ <<"choice", k>> \in Boxes /\ Has(<<"choice", k>>) = OfChoice(k)
<1>1. \A j \in Choices : alt'[j] = IF j = k THEN a ELSE alt[j]
  BY DEF AltsOk
<1>2. AltsOk'
  BY <1>1 DEF AltsOk, TagFits, Holds
<1>3. \A j \in Choices : j # k => OfChoice(j)' = OfChoice(j)
  BY <1>1 DEF OfChoice
<1>4. OfChoice(k)' = IF a = Dead THEN {} ELSE {a.val} \cap Objects
  BY <1>1 DEF OfChoice
<1> QED  BY <1>2, <1>3, <1>4, OtherChoices, BoxPlaces

\* A T moved from.
LEMMA MovedIs ==
    ASSUME AltsOk, NEW k \in Choices, Holds(k)
    PROVE  /\ alt[k] \in AltStates /\ alt[k] # Dead /\ type_at(alt[k].tag) = alt[k].is
           /\ OfChoice(k) = {alt[k].val} \cap Objects
           /\ Moved(k) \in AltStates /\ Moved(k) # Dead /\ Moved(k).val = Hollow
           /\ type_at(Moved(k).tag) = Moved(k).is
<1>1. alt[k] \in AltStates /\ alt[k] # Dead /\ type_at(alt[k].tag) = alt[k].is
  BY DEF AltsOk, Holds, TagFits
<1>2. /\ Moved(k) \in AltStates /\ Moved(k).val = Hollow
      /\ Moved(k).tag = alt[k].tag /\ Moved(k).is = alt[k].is
  BY <1>1 DEF Moved, AltStates
<1>3. Dead \notin AltStates
  BY ChoiceAssumption DEF AltStates
<1> QED  BY <1>1, <1>2, <1>3 DEF OfChoice

\* The same for what the operations write.
LEMMA AltWritten ==
    ASSUME AltsOk, NEW k \in Choices, NEW x \in Objects \cup {Hollow}, UNCHANGED <<thunk, slot>>,
           \/ \E i \in Ids : alt' = [alt EXCEPT ![k] = At(i, x)]
           \/ \E t \in Types : alt' = [alt EXCEPT ![k] = Alt(t, x)]
           \/ Holds(k) /\ alt' = [alt EXCEPT ![k] = Moved(k)] /\ x = Hollow
    PROVE  /\ AltsOk'
           /\ Has(<<"choice", k>>)' = {x} \cap Objects
           /\ \A h \in Boxes : h # <<"choice", k>> => Has(h)' = Has(h)
           /\ <<"choice", k>> \in Boxes /\ Has(<<"choice", k>>) = OfChoice(k)
<1>1. PICK a : /\ alt' = [alt EXCEPT ![k] = a] /\ a \in AltStates /\ a # Dead
               /\ type_at(a.tag) = a.is /\ a.val = x
  <2>1. ASSUME NEW i \in Ids, alt' = [alt EXCEPT ![k] = At(i, x)]
        PROVE  \E a : /\ alt' = [alt EXCEPT ![k] = a] /\ a \in AltStates /\ a # Dead
                      /\ type_at(a.tag) = a.is /\ a.val = x
    BY <2>1, AltIs
  <2>2. ASSUME NEW t \in Types, alt' = [alt EXCEPT ![k] = Alt(t, x)]
        PROVE  \E a : /\ alt' = [alt EXCEPT ![k] = a] /\ a \in AltStates /\ a # Dead
                      /\ type_at(a.tag) = a.is /\ a.val = x
    BY <2>2, AltIs
  <2>3. ASSUME Holds(k), alt' = [alt EXCEPT ![k] = Moved(k)], x = Hollow
        PROVE  \E a : /\ alt' = [alt EXCEPT ![k] = a] /\ a \in AltStates /\ a # Dead
                      /\ type_at(a.tag) = a.is /\ a.val = x
    BY <2>3, MovedIs
  <2> QED  BY <2>1, <2>2, <2>3
<1> QED  BY <1>1, AltBecomes

ChoiceGoal == OwnersOk' /\ PromisedStep /\ AltsOk'

\* The constructors.
LEMMA ConstructChoice ==
    ASSUME OwnersOk, AltsOk, NEW k \in Choices, UNCHANGED <<cell, panicked, thunk, slot>>,
           \/ ConstructFirst(k)
           \/ \E t \in Types, x \in Objects : ConstructCopied(k, t, x) \/ ConstructMoved(k, t, x)
    PROVE  ChoiceGoal
<1> DEFINE h == <<"choice", k>>
<1>1. CASE ConstructFirst(k)
  <2>1. Hollow \notin Objects /\ OfChoice(k) = {} /\ panicked' \in BOOLEAN
    BY <1>1, Distinct DEF ConstructFirst, Holds, OfChoice, OwnersOk, SafeOwnership, TypeOK
  <2>2. /\ AltsOk' /\ h \in Boxes /\ Has(h)' = {} /\ Has(h) = {}
        /\ \A g \in Boxes : g # h => Has(g)' = Has(g)
    <3>1. alt' = [alt EXCEPT ![k] = At(0, Hollow)] /\ UNCHANGED <<thunk, slot>>
      BY <1>1 DEF ConstructFirst
    <3>2. Hollow \in Objects \cup {Hollow} /\ {Hollow} \cap Objects = {} /\ 0 \in Ids
      BY Distinct, AltIs
    <3> QED  BY <2>1, <3>1, <3>2, AltWritten
  <2> QED  BY <1>1, <2>1, <2>2, NothingMoves DEF ConstructFirst, ChoiceGoal
<1>2. ASSUME NEW t \in Types, NEW x \in Objects, ConstructCopied(k, t, x)
      PROVE  ChoiceGoal
  <2>1. OfChoice(k) = {}
    BY <1>2 DEF ConstructCopied, Holds, OfChoice
  <2>2. /\ AltsOk' /\ h \in Boxes /\ Has(h)' = {x} /\ Has(h) = {}
        /\ \A g \in Boxes : g # h => Has(g)' = Has(g)
    BY <1>2, <2>1, AltWritten DEF ConstructCopied
  <2> QED  BY <1>2, <2>2, Rebuilt DEF ConstructCopied, ChoiceGoal
<1>3. ASSUME NEW t \in Types, NEW x \in Objects, ConstructMoved(k, t, x)
      PROVE  ChoiceGoal
  <2>1. OfChoice(k) = {}
    BY <1>3 DEF ConstructMoved, Holds, OfChoice
  <2>2. /\ AltsOk' /\ h \in Boxes /\ Has(h)' = {x} /\ Has(h) = {}
        /\ \A g \in Boxes : g # h => Has(g)' = Has(g)
    <3>1. alt' = [alt EXCEPT ![k] = Alt(t, x)] /\ UNCHANGED <<thunk, slot>>
      BY <1>3 DEF ConstructMoved
    <3>2. x \in Objects \cup {Hollow} /\ {x} \cap Objects = {x}
      BY Distinct, AltIs
    <3> QED  BY <2>1, <3>1, <3>2, AltWritten
  <2>3. x \in own /\ Pass({x}, {}) /\ lost' = lost \cup Has(h)
    BY <1>3, <2>2 DEF ConstructMoved
  <2> QED  BY <2>2, <2>3, MovedIn DEF ChoiceGoal
<1> QED  BY <1>1, <1>2, <1>3

\* The destructor, and assignments.
LEMMA ReplaceChoice ==
    ASSUME OwnersOk, AltsOk, NEW k \in Choices, UNCHANGED <<cell, panicked, thunk, slot>>,
           NoneConverts,
           \/ DestroyChoice(k)
           \/ \E t \in Types, x \in Objects :
                 AssignOver(k, t, x) \/ \E u \in Types : Set(k, t, u, x)
           \/ \E i \in Ids, x \in Objects : SetAt(k, i, x)
    PROVE  ChoiceGoal
<1> DEFINE h == <<"choice", k>>
<1>1. CASE DestroyChoice(k)
  <2>1. /\ AltsOk' /\ h \in Boxes /\ Has(h)' = {} /\ Has(h) = OfChoice(k)
        /\ \A g \in Boxes : g # h => Has(g)' = Has(g)
    BY <1>1, AltBecomes DEF DestroyChoice
  <2> QED  BY <1>1, <2>1, Rebuilt DEF DestroyChoice, ChoiceGoal
<1>2. ASSUME NEW t \in Types, NEW x \in Objects, AssignOver(k, t, x)
      PROVE  ChoiceGoal
  <2>1. /\ AltsOk' /\ h \in Boxes /\ Has(h)' = {x} /\ Has(h) = OfChoice(k)
        /\ \A g \in Boxes : g # h => Has(g)' = Has(g)
    <3>1. alt' = [alt EXCEPT ![k] = Alt(t, x)] /\ UNCHANGED <<thunk, slot>>
      BY <1>2 DEF AssignOver
    <3>2. x \in Objects \cup {Hollow} /\ {x} \cap Objects = {x}
      BY Distinct, AltIs
    <3> QED  BY <3>1, <3>2, AltWritten
  <2> QED  BY <1>2, <2>1, MovedIn DEF AssignOver, ChoiceGoal
<1>3. ASSUME NEW t \in Types, NEW x \in Objects, NEW u \in Types, Set(k, t, u, x)
      PROVE  ChoiceGoal
  <2> DEFINE a == [tag |-> id_of(u), is |-> t, val |-> x]
  <2>1. t = u
    BY <1>3 DEF Set, NoneConverts
  <2>2. a \in AltStates /\ a # Dead /\ type_at(a.tag) = a.is /\ a.val = x
    BY <2>1, IdOf, AltIs DEF AltStates
  <2>3. alt' = [alt EXCEPT ![k] = a]
    BY <1>3 DEF Set
  <2> HIDE DEF a
  <2>4. /\ AltsOk' /\ h \in Boxes /\ Has(h)' = {x} /\ Has(h) = OfChoice(k)
        /\ \A g \in Boxes : g # h => Has(g)' = Has(g)
    BY <2>2, <2>3, AltBecomes
  <2> QED  BY <1>3, <2>4, Rebuilt DEF Set, ChoiceGoal
<1>4. ASSUME NEW i \in Ids, NEW x \in Objects, SetAt(k, i, x)
      PROVE  ChoiceGoal
  <2>1. /\ AltsOk' /\ h \in Boxes /\ Has(h)' = {x} /\ Has(h) = OfChoice(k)
        /\ \A g \in Boxes : g # h => Has(g)' = Has(g)
    <3>1. alt' = [alt EXCEPT ![k] = At(i, x)] /\ UNCHANGED <<thunk, slot>>
      BY <1>4 DEF SetAt
    <3>2. x \in Objects \cup {Hollow} /\ {x} \cap Objects = {x}
      BY Distinct, AltIs
    <3> QED  BY <3>1, <3>2, AltWritten
  <2> QED  BY <1>4, <2>1, Rebuilt DEF SetAt, ChoiceGoal
<1> QED  BY <1>1, <1>2, <1>3, <1>4

\* Moving its value out.
LEMMA TakeChoice ==
    ASSUME OwnersOk, AltsOk, NEW k \in Choices, UNCHANGED <<cell, panicked, thunk, slot>>,
           TakeUnchecked(k)
    PROVE  ChoiceGoal
<1> DEFINE h == <<"choice", k>>
<1>1. /\ AltsOk' /\ h \in Boxes /\ Has(h)' = {} /\ Has(h) = OfChoice(k)
      /\ \A g \in Boxes : g # h => Has(g)' = Has(g)
  BY AltWritten, Distinct DEF TakeUnchecked
<1> QED  BY <1>1, MovedOut DEF TakeUnchecked, ChoiceGoal

\* The move constructor.
LEMMA MoveChoiceSafe ==
    ASSUME OwnersOk, AltsOk, NEW k \in Choices, NEW j \in Choices,
           UNCHANGED <<cell, panicked, thunk, slot>>, MoveChoice(k, j)
    PROVE  ChoiceGoal
<1> DEFINE g == <<"choice", k>>
           h == <<"choice", j>>
           a == [alt[j] EXCEPT !.is = type_at(alt[j].tag)]
<1>1. k # j /\ Holds(j) /\ ~Holds(k) /\ alt' = [alt EXCEPT ![k] = a, ![j] = Moved(j)]
  BY DEF MoveChoice
<1>2. /\ alt[j] \in AltStates /\ type_at(alt[j].tag) = alt[j].is
      /\ Moved(j) \in AltStates /\ Moved(j) # Dead /\ Moved(j).val = Hollow
      /\ type_at(Moved(j).tag) = Moved(j).is /\ alt[j] # Dead
  BY <1>1, MovedIs
<1>3. a = alt[j]
  BY <1>2 DEF AltStates
<1>4. \A i \in Choices : alt'[i] = IF i = k THEN alt[j] ELSE IF i = j THEN Moved(j) ELSE alt[i]
  BY <1>1, <1>3 DEF AltsOk
<1>5. AltsOk'
  <2>1. alt' \in [Choices -> {Dead} \cup AltStates]
    BY <1>1, <1>2, <1>3 DEF AltsOk
  <2> QED  BY <1>2, <1>4, <2>1 DEF AltsOk, TagFits, Holds
<1>6. \A i \in Choices : OfChoice(i)' = IF i = k THEN OfChoice(j)
                                        ELSE IF i = j THEN {} ELSE OfChoice(i)
  BY <1>2, <1>4, Distinct DEF OfChoice
<1>7. /\ g \in Boxes /\ h \in Boxes /\ g # h /\ Has(g) = {}
      /\ Has(g)' = Has(h) /\ Has(h)' = {}
  BY <1>1, <1>6, BoxPlaces DEF OfChoice, Holds
<1>8. \A i \in Boxes : i \notin {g, h} => Has(i)' = Has(i)
  <2> SUFFICES ASSUME NEW i \in Boxes, i \notin {g, h} PROVE Has(i)' = Has(i)
    OBVIOUS
  <2>1. ASSUME NEW m \in Choices, i = <<"choice", m>> PROVE Has(i)' = Has(i)
    BY <1>6, <2>1, BoxPlaces
  <2>2. ASSUME NEW l \in Lazies, i = <<"lazy", l>> PROVE Has(i)' = Has(i)
    BY <2>2, BoxPlaces DEF OfLazy
  <2>3. ASSUME NEW p \in Slots, i = <<"slot", p>> PROVE Has(i)' = Has(i)
    BY <2>3, BoxPlaces DEF OfSlot
  <2> QED  BY <2>1, <2>2, <2>3, PlaceIs
<1> HIDE DEF g, h
<1> QED  BY <1>5, <1>7, <1>8, MovedOver DEF MoveChoice, ChoiceGoal

\* take_if and take_if_at.
LEMMA TakeIfSafe ==
    ASSUME OwnersOk, AltsOk, NEW k \in Choices, NEW i \in Ids, NEW c \in Cells,
           UNCHANGED <<panicked, thunk, slot>>, TakeIf(k, i, c)
    PROVE  ChoiceGoal
<1> DEFINE h == <<"choice", k>>
<1>1. CASE alt[k].tag = i
  <2>1. /\ AltsOk' /\ h \in Boxes /\ Has(h)' = {} /\ Has(h) = OfChoice(k)
        /\ \A g \in Boxes : g # h => Has(g)' = Has(g)
    BY <1>1, AltWritten, Distinct DEF TakeIf
  <2>2. Has(h) = {alt[k].val} \cap Objects /\ alt[k].val \in Objects \cup {Hollow, Nothing}
    BY <2>1, MovedIs DEF TakeIf, AltStates
  <2> QED  BY <1>1, <2>1, <2>2, MovedToMaybe DEF TakeIf, ChoiceGoal
<1>2. CASE alt[k].tag # i
  <2>1. ConstructNothing(c) /\ UNCHANGED <<alt, local, own, lost>>
    BY <1>2 DEF TakeIf, ConstructNothing
  <2>2. SafeOwnership' /\ PromisedStep
    BY <2>1, OneMaybeSafe, ConstructNothingPromised DEF OwnersOk
  <2>3. AltsOk'
    BY <2>1 DEF AltsOk, TagFits, Holds
  <2>4. \A x \in Objects : Stays(x)
    BY <2>1 DEF Stays, Has, OfChoice, OfLazy, OfSlot
  <2>5. HeldApart'
    BY <2>4, StaysApart DEF OwnersOk
  <2> QED  BY <2>1, <2>2, <2>3, <2>5 DEF OwnersOk, ChoiceGoal
<1> QED  BY <1>1, <1>2

-----------------------------------------------------------------------------
(* Matching *)

\* What a handler does to the choice.
LEMMA HandleSafe ==
    ASSUME OwnersOk, AltsOk, NEW k \in Choices, UNCHANGED <<cell, panicked, thunk, slot>>,
           NoneConverts, Handle(k) \/ UNCHANGED altVars
    PROVE  ChoiceGoal
<1>1. CASE UNCHANGED altVars
  <2>1. UNCHANGED <<alt, lost, own, local, live, faulted>>
    BY <1>1 DEF altVars
  <2>2. AltsOk'
    BY <2>1 DEF AltsOk, TagFits, Holds
  <2>3. \A h \in Boxes : Has(h)' = Has(h)
    BY <2>1 DEF Has, OfChoice, OfLazy, OfSlot
  <2>4. Pass({}, {}) /\ panicked' \in BOOLEAN
    BY <2>1 DEF Pass, OwnersOk, SafeOwnership, TypeOK
  <2> QED  BY <2>1, <2>2, <2>3, <2>4, NothingMoves DEF ChoiceGoal
<1>2. CASE TakeUnchecked(k)
  BY <1>2, TakeChoice
<1>3. ASSUME NEW i \in Ids, NEW x \in Objects, SetAt(k, i, x) PROVE ChoiceGoal
  BY <1>3, ReplaceChoice
<1> QED  BY <1>1, <1>2, <1>3 DEF Handle

\* Types still to try.
LEMMA TypesLeft ==
    ASSUME NEW s \in Seq(Types), s # <<>>
    PROVE  /\ Tail(s) \in Seq(Types) /\ Len(Tail(s)) = Len(s) - 1
           /\ Len(s) \in Nat \ {0} /\ Head(s) \in Types
           /\ Len(s) <= 1 => Tail(s) = <<>>
<1>1. /\ Tail(s) \in Seq(Types) /\ Len(Tail(s)) = Len(s) - 1
      /\ Len(s) \in Nat \ {0} /\ Head(s) \in Types
  BY HeadTailProperties, EmptySeq, LenProperties
<1>2. Len(s) <= 1 => Tail(s) = <<>>
  BY <1>1, EmptySeq
<1> QED  BY <1>1, <1>2

\* One of the calls.
LEMMA TryMatchOk ==
    ASSUME ChainOk, TryMatch
    PROVE  ChainOk' /\ chain.on \in Choices
<1>1. /\ chain # None /\ chain \in ChainStates /\ chain.left # <<>> /\ ~chain.over
      /\ chain.left \in Seq(Types)
  BY DEF TryMatch, ChainOk, ChainStates
<1>2. /\ Tail(chain.left) \in Seq(Types) /\ Len(Tail(chain.left)) = Len(chain.left) - 1
      /\ Len(chain.left) \in Nat \ {0}
      /\ Len(chain.left) <= 1 => Tail(chain.left) = <<>>
  BY <1>1, TypesLeft
<1>3. PICK hit \in BOOLEAN :
          /\ hit <=> /\ chain.via = "each" \/ ~chain.done
                     /\ is(chain.on, Head(chain.left))
          /\ LET then == IF chain.via = "each" THEN MatchedEach(hit) ELSE Matched(hit)
             IN  chain' = [then EXCEPT !.ran = IF hit THEN @ + 1 ELSE @]
  BY DEF TryMatch
<1>4. CASE chain.via = "each"
  <2>1. chain' = [MatchedEach(hit) EXCEPT !.ran = IF hit THEN @ + 1 ELSE @]
    BY <1>3, <1>4
  <2>2. ~chain.done /\ chain.ran = 0 /\ Len(chain.left) <= IF chain.late THEN 1 ELSE 2
    BY <1>1, <1>4 DEF ChainOk
  <2>3. /\ chain'.on = chain.on /\ chain'.via = "each" /\ chain'.late = TRUE
        /\ chain'.left = (IF hit /\ ~chain.late THEN <<>> ELSE Tail(chain.left))
        /\ chain'.done = hit /\ chain'.ran = (IF hit THEN 1 ELSE 0) /\ ~chain'.over
        /\ chain' \in ChainStates
    <3> DEFINE rest == IF hit /\ ~chain.late THEN <<>> ELSE Tail(chain.left)
               m == [chain EXCEPT !.left = rest, !.done = hit, !.late = TRUE]
    <3>1. MatchedEach(hit) = m
      BY DEF MatchedEach
    <3>2. rest \in Seq(Types)
      BY <1>2, EmptySeq
    <3> HIDE DEF rest
    <3>3. /\ m \in ChainStates /\ m.on = chain.on /\ m.via = "each" /\ m.late = TRUE
          /\ m.left = rest /\ m.done = hit /\ m.ran = 0 /\ ~m.over
      BY <1>1, <1>4, <2>2, <3>2 DEF ChainStates
    <3> HIDE DEF m
    <3>4. chain' = [m EXCEPT !.ran = IF hit THEN 1 ELSE 0]
      BY <2>1, <3>1, <3>3
    <3> QED  BY <3>3, <3>4 DEF ChainStates, rest
  <2>4. chain'.done => chain'.left = <<>>
    BY <1>2, <2>2, <2>3
  <2>5. Len(chain'.left) <= 1
    BY <1>2, <2>2, <2>3, EmptySeq
  <2> QED  BY <1>1, <2>3, <2>4, <2>5 DEF ChainOk, ChainStates
<1>5. CASE chain.via = "chain"
  <2>1. chain' = [Matched(hit) EXCEPT !.ran = IF hit THEN @ + 1 ELSE @]
    BY <1>3, <1>5
  <2>2. chain.ran = (IF chain.done THEN 1 ELSE 0) /\ (hit => ~chain.done)
    BY <1>1, <1>3, <1>5 DEF ChainOk
  <2>3. /\ chain'.on = chain.on /\ chain'.via = "chain"
        /\ chain'.left = Tail(chain.left)
        /\ chain'.done <=> chain.done \/ hit
        /\ chain'.ran = (IF hit THEN chain.ran + 1 ELSE chain.ran) /\ ~chain'.over
        /\ chain' \in ChainStates
    <3> DEFINE rest == Tail(chain.left)
               d == chain.done \/ hit
               m == [chain EXCEPT !.left = rest, !.done = d]
    <3>1. Matched(hit) = m
      BY DEF Matched
    <3>2. rest \in Seq(Types) /\ d \in BOOLEAN
      BY <1>2
    <3> HIDE DEF rest, d
    <3>3. /\ m \in ChainStates /\ m.on = chain.on /\ m.via = "chain"
          /\ m.left = rest /\ m.done = d /\ m.ran = chain.ran /\ ~m.over
      BY <1>1, <1>5, <3>2 DEF ChainStates
    <3> HIDE DEF m
    <3>4. chain' = [m EXCEPT !.ran = IF hit THEN chain.ran + 1 ELSE chain.ran]
      BY <2>1, <3>1, <3>3
    <3>5. chain.ran \in Nat
      BY <1>1 DEF ChainStates
    <3> QED  BY <3>3, <3>4, <3>5 DEF ChainStates, rest, d
  <2> QED  BY <1>1, <2>2, <2>3 DEF ChainOk, ChainStates
<1> QED  BY <1>1, <1>4, <1>5 DEF ChainStates

\* The others.
LEMMA MatchOk ==
    ASSUME ChainOk, MatchStep, TwoFunctions
    PROVE  ChainOk'
<1>1. ASSUME NEW k \in Choices, NEW ts, NEW via \in {"chain", "each"},
             ts \in Seq(Types), via = "each" => Len(ts) <= 2, StartMatch(k, ts, via)
      PROVE  ChainOk'
  BY <1>1 DEF StartMatch, ChainOk, ChainStates
<1>2. CASE TryMatch
  BY <1>2, TryMatchOk
<1>3. CASE EndMatch
  <2>1. chain \in ChainStates /\ chain # None /\ chain.left = <<>> /\ ~chain.over
    BY <1>3 DEF EndMatch, ChainOk
  <2> DEFINE n == IF chain.via = "chain" /\ ~chain.done THEN chain.ran + 1 ELSE chain.ran
  <2>2. chain' = [chain EXCEPT !.over = TRUE, !.ran = n] /\ n \in Nat
    BY <1>3, <2>1 DEF EndMatch, ChainStates
  <2> HIDE DEF n
  <2>3. /\ chain'.left = <<>> /\ chain'.via = chain.via /\ chain'.late = chain.late
        /\ chain'.done = chain.done /\ chain'.over = TRUE /\ chain'.ran = n
        /\ chain' \in ChainStates
    BY <2>1, <2>2 DEF ChainStates
  <2> QED  BY <2>1, <2>3 DEF ChainOk, ChainStates, n
<1>4. CASE LeaveMatch
  BY <1>4 DEF LeaveMatch, ChainOk
<1>5. Chains \subseteq Seq(Types) /\ Tries \subseteq Seq(Types)
  BY ChoiceAssumption
<1> QED  BY <1>1, <1>2, <1>3, <1>4, <1>5 DEF MatchStep, TwoFunctions

\* One handler is called.
LEMMA ChainIsOne == ChainOk => OneHandler
  BY DEF ChainOk, OneHandler, ChainStates

-----------------------------------------------------------------------------
\* Every step of a choice.
LEMMA ChoiceSafe ==
    ASSUME OwnersOk, AltsOk, ChainOk, TwoFunctions, NoneConverts, ChoiceNext
    PROVE  ChoiceGoal /\ ChainOk'
<1>1. UNCHANGED <<thunk, slot, panicked>>
  BY DEF ChoiceNext
<1>2. ASSUME ChoiceStep, UNCHANGED <<chain, cell>> PROVE ChoiceGoal /\ ChainOk'
  <2>1. ChainOk'
    BY <1>2 DEF ChainOk
  <2>2. ASSUME NEW k \in Choices,
               ConstructFirst(k) \/ DestroyChoice(k) \/ TakeUnchecked(k) \/ Visit(k)
        PROVE  ChoiceGoal
    BY <1>1, <1>2, <2>2, ConstructChoice, ReplaceChoice, TakeChoice, HandleSafe DEF Visit
  <2>3. ASSUME NEW k \in Choices, NEW i \in Ids, Borrow(k, i) PROVE ChoiceGoal
    BY <1>1, <1>2, <2>3, TakeChoice DEF Borrow
  <2>4. ASSUME NEW k \in Choices, NEW j \in Choices, MoveChoice(k, j) PROVE ChoiceGoal
    BY <1>1, <1>2, <2>4, MoveChoiceSafe
  <2>5. ASSUME NEW k \in Choices, NEW t \in Types, NEW x \in Objects,
               \/ ConstructCopied(k, t, x) \/ ConstructMoved(k, t, x)
               \/ AssignOver(k, t, x)
               \/ \E u \in Types : Set(k, t, u, x)
        PROVE  ChoiceGoal
    BY <1>1, <1>2, <2>5, ConstructChoice, ReplaceChoice
  <2>6. ASSUME NEW k \in Choices, NEW i \in Ids, NEW x \in Objects, SetAt(k, i, x)
        PROVE  ChoiceGoal
    BY <1>1, <1>2, <2>6, ReplaceChoice
  <2> QED  BY <1>2, <2>1, <2>2, <2>3, <2>4, <2>5, <2>6 DEF ChoiceStep
<1>3. ASSUME NEW k \in Choices, NEW i \in Ids, NEW c \in Cells, TakeIf(k, i, c), chain' = chain
      PROVE  ChoiceGoal /\ ChainOk'
  BY <1>1, <1>3, TakeIfSafe DEF ChainOk
<1>4. ASSUME MatchStep, UNCHANGED cell PROVE ChoiceGoal /\ ChainOk'
  <2>1. ChainOk'
    BY <1>4, MatchOk
  <2>2. CASE TryMatch
    <3>1. chain.on \in Choices
      BY <2>2, TryMatchOk
    <3>2. Handle(chain.on) \/ UNCHANGED altVars
      BY <2>2 DEF TryMatch
    <3> QED  BY <1>1, <1>4, <2>1, <3>1, <3>2, HandleSafe
  <2>3. CASE UNCHANGED altVars /\ \E k \in Choices : TRUE
    BY <1>1, <1>4, <2>1, <2>3, HandleSafe
  <2>4. TryMatch \/ (UNCHANGED altVars /\ \E k \in Choices : TRUE)
    BY <1>4 DEF MatchStep, StartMatch, EndMatch, LeaveMatch, ChainOk, ChainStates
  <2> QED  BY <2>2, <2>3, <2>4
<1> QED  BY <1>2, <1>3, <1>4 DEF ChoiceNext

-----------------------------------------------------------------------------
(* lazy *)

LazyGoal == OwnersOk' /\ PromisedStep /\ ThunksOk'

\* A lazy that becomes a, and what is then where.
LEMMA ThunkBecomes ==
    ASSUME ThunksOk, NEW l \in Lazies, NEW a, a \in {Dead} \cup ThunkStates,
           a # Dead => (a.ready <=> a.is = "value"),
           thunk' = [thunk EXCEPT ![l] = a], UNCHANGED <<alt, slot>>
    PROVE  /\ ThunksOk'
           /\ Has(<<"lazy", l>>)' = IF a = Dead THEN {} ELSE {a.val} \cap Objects
           /\ \A h \in Boxes : h # <<"lazy", l>> => Has(h)' = Has(h)
           /\ <<"lazy", l>> \in Boxes /\ Has(<<"lazy", l>>) = OfLazy(l)
<1>1. \A m \in Lazies : thunk'[m] = IF m = l THEN a ELSE thunk[m]
  BY DEF ThunksOk
<1>2. ThunksOk'
  BY <1>1 DEF ThunksOk, ReadyFits, Made
<1>3. \A m \in Lazies : m # l => OfLazy(m)' = OfLazy(m)
  BY <1>1 DEF OfLazy
<1>4. OfLazy(l)' = IF a = Dead THEN {} ELSE {a.val} \cap Objects
  BY <1>1 DEF OfLazy
<1> QED  BY <1>2, <1>3, <1>4, OtherLazies, BoxPlaces

\* A lazy that exists.
LEMMA ThunkIs ==
    ASSUME ThunksOk, NEW l \in Lazies, Made(l)
    PROVE  /\ thunk[l] \in ThunkStates /\ thunk[l] # Dead
           /\ thunk[l].ready <=> thunk[l].is = "value"
           /\ OfLazy(l) = {thunk[l].val} \cap Objects
           /\ thunk[l].val \in Objects \cup {Hollow}
  BY DEF ThunksOk, ReadyFits, Made, OfLazy, ThunkStates

\* The constructor.
LEMMA MakeLazySafe ==
    ASSUME OwnersOk, ThunksOk, NEW l \in Lazies, NEW by \in {"make_lazy", "make_lazy_call"},
           NEW x \in Objects, Apart, MakeLazy(l, by, x)
    PROVE  LazyGoal
<1> DEFINE h == <<"lazy", l>>
           a == [ready |-> FALSE, is |-> "fn", by |-> by, val |-> x]
<1>1. a \in ThunkStates /\ a # Dead /\ (a.ready <=> a.is = "value") /\ a.val = x
  <2>1. a \in ThunkStates
    BY DEF ThunkStates
  <2>2. a # Dead
    BY <2>1, LazyAssumption DEF ThunkStates
  <2>3. a.ready = FALSE /\ a.is = "fn" /\ a.val = x
    OBVIOUS
  <2>4. "fn" # "value"
    OBVIOUS
  <2> HIDE DEF a
  <2> QED  BY <2>1, <2>2, <2>3, <2>4
<1>2. thunk' = [thunk EXCEPT ![l] = a] /\ x \in own /\ Pass({x}, {}) /\ OfLazy(l) = {}
  BY DEF MakeLazy, OfLazy, Made
<1> HIDE DEF a
<1>3. UNCHANGED <<cell, alt, lost, slot, panicked>>
  BY DEF Apart
<1>4. /\ ThunksOk' /\ h \in Boxes /\ Has(h)' = {x} /\ Has(h) = {}
      /\ \A g \in Boxes : g # h => Has(g)' = Has(g)
  BY <1>1, <1>2, <1>3, ThunkBecomes
<1>5. lost' = lost \cup Has(h)
  BY <1>3, <1>4
<1> QED  BY <1>2, <1>3, <1>4, <1>5, MovedIn DEF LazyGoal

\* initialize
LEMMA InitializeSafe ==
    ASSUME OwnersOk, ThunksOk, NEW l \in Lazies, Apart, Initialize(l)
    PROVE  LazyGoal
<1> DEFINE h == <<"lazy", l>>
<1>1. UNCHANGED <<cell, alt, lost, slot, panicked>> /\ panicked' \in BOOLEAN
  BY DEF Apart, OwnersOk, SafeOwnership, TypeOK
<1>2. /\ thunk[l] \in ThunkStates /\ OfLazy(l) = {thunk[l].val} \cap Objects
      /\ thunk[l].val \in Objects \cup {Hollow}
  BY ThunkIs DEF Initialize
<1>3. ASSUME NEW y \in Objects \cup {Hollow}, thunk' = [thunk EXCEPT ![l] = Initialized(l, y)]
      PROVE  /\ ThunksOk' /\ h \in Boxes /\ Has(h)' = {y} \cap Objects /\ Has(h) = OfLazy(l)
             /\ \A g \in Boxes : g # h => Has(g)' = Has(g)
  <2> DEFINE a == Initialized(l, y)
  <2>1. a \in ThunkStates /\ (a.ready <=> a.is = "value") /\ a.val = y /\ a # Dead
    BY <1>2, LazyAssumption DEF Initialized, ThunkStates
  <2> HIDE DEF a
  <2>2. thunk' = [thunk EXCEPT ![l] = a]
    BY <1>3 DEF a
  <2> QED  BY <1>1, <2>1, <2>2, ThunkBecomes
<1>4. ASSUME NEW y \in Copies(thunk[l].val), thunk' = [thunk EXCEPT ![l] = Initialized(l, y)],
             Replace(OfLazy(l), {y} \cap Objects)
      PROVE  LazyGoal
  <2>1. /\ y \in Objects \cup {Hollow}
        /\ {y} \cap Objects = {} \/ \E x \in Objects \cap Fresh : {y} \cap Objects = {x}
    BY Distinct DEF Copies, Fresh
  <2> DEFINE made == {y} \cap Objects
  <2>2. /\ ThunksOk' /\ h \in Boxes /\ Has(h)' = made /\ Has(h) = OfLazy(l)
        /\ \A g \in Boxes : g # h => Has(g)' = Has(g)
    BY <1>3, <1>4, <2>1
  <2>3. Replace(Has(h), made) /\ (made = {} \/ \E x \in Objects \cap Fresh : made = {x})
    BY <1>4, <2>1, <2>2
  <2> HIDE DEF made, h
  <2> QED  BY <1>1, <2>2, <2>3, Rebuilt DEF LazyGoal
<1>5. ASSUME thunk' = [thunk EXCEPT ![l] = Initialized(l, thunk[l].val)], Pass({}, {})
      PROVE  LazyGoal
  <2>1. /\ ThunksOk' /\ h \in Boxes /\ Has(h)' = {thunk[l].val} \cap Objects
        /\ Has(h) = OfLazy(l) /\ \A g \in Boxes : g # h => Has(g)' = Has(g)
    BY <1>2, <1>3, <1>5
  <2>2. \A g \in Boxes : Has(g)' = Has(g)
    BY <1>2, <2>1
  <2> QED  BY <1>1, <1>5, <2>1, <2>2, NothingMoves DEF LazyGoal
<1> QED  BY <1>4, <1>5 DEF Initialize

\* Taking the value, and the destructor.
LEMMA EndLazySafe ==
    ASSUME OwnersOk, ThunksOk, NEW l \in Lazies, Apart, TakeLazy(l) \/ DestroyLazy(l)
    PROVE  LazyGoal
<1> DEFINE h == <<"lazy", l>>
<1>1. UNCHANGED <<cell, alt, lost, slot, panicked>>
  BY DEF Apart
<1>2. CASE TakeLazy(l)
  <2> DEFINE a == [thunk[l] EXCEPT !.val = Hollow]
  <2>1. thunk[l] \in ThunkStates /\ (thunk[l].ready <=> thunk[l].is = "value")
    BY <1>2, ThunkIs DEF TakeLazy
  <2>2. a \in ThunkStates /\ (a.ready <=> a.is = "value") /\ a.val = Hollow /\ a # Dead
    BY <2>1, LazyAssumption DEF ThunkStates
  <2>3. thunk' = [thunk EXCEPT ![l] = a] /\ Pass({}, OfLazy(l))
    BY <1>2 DEF TakeLazy
  <2> HIDE DEF a
  <2>4. /\ ThunksOk' /\ h \in Boxes /\ Has(h)' = {} /\ Has(h) = OfLazy(l)
        /\ \A g \in Boxes : g # h => Has(g)' = Has(g)
    BY <1>1, <2>2, <2>3, ThunkBecomes, Distinct
  <2> QED  BY <1>1, <2>3, <2>4, MovedOut DEF LazyGoal
<1>3. CASE DestroyLazy(l)
  <2>1. /\ ThunksOk' /\ h \in Boxes /\ Has(h)' = {} /\ Has(h) = OfLazy(l)
        /\ \A g \in Boxes : g # h => Has(g)' = Has(g)
    BY <1>1, <1>3, ThunkBecomes DEF DestroyLazy
  <2> QED  BY <1>1, <1>3, <2>1, Rebuilt DEF DestroyLazy, LazyGoal
<1> QED  BY <1>2, <1>3

\* The move constructor.
LEMMA MoveLazySafe ==
    ASSUME OwnersOk, ThunksOk, NEW l \in Lazies, NEW m \in Lazies, Apart, MoveLazy(l, m)
    PROVE  LazyGoal
<1> DEFINE g == <<"lazy", l>>
           h == <<"lazy", m>>
           a == [thunk[m] EXCEPT !.is = IF thunk[m].ready THEN "value" ELSE "fn"]
           b == [thunk[m] EXCEPT !.val = Hollow]
<1>1. l # m /\ Made(m) /\ ~Made(l) /\ thunk' = [thunk EXCEPT ![l] = a, ![m].val = Hollow]
  BY DEF MoveLazy
<1>2. UNCHANGED <<cell, alt, lost, slot, panicked>>
  BY DEF Apart
<1>3. /\ thunk[m] \in ThunkStates /\ thunk[m] # Dead
      /\ thunk[m].ready <=> thunk[m].is = "value"
  BY <1>1, ThunkIs
<1>4. a \in ThunkStates /\ (a.ready <=> a.is = "value") /\ a.val = thunk[m].val
  BY <1>3 DEF ThunkStates
<1>5. b \in ThunkStates /\ (b.ready <=> b.is = "value") /\ b.val = Hollow
  BY <1>3 DEF ThunkStates
<1>6. a # Dead /\ b # Dead
  BY <1>4, <1>5, LazyAssumption DEF ThunkStates
<1>7. \A i \in Lazies : thunk'[i] = IF i = l THEN a ELSE IF i = m THEN b ELSE thunk[i]
  BY <1>1 DEF ThunksOk
<1>8. thunk' \in [Lazies -> {Dead} \cup ThunkStates]
  <2>1. thunk' = [i \in Lazies |-> IF i = l THEN a ELSE IF i = m THEN b ELSE thunk[i]]
    BY <1>1 DEF ThunksOk
  <2> HIDE DEF a, b
  <2> QED  BY <1>4, <1>5, <2>1 DEF ThunksOk
<1> HIDE DEF a, b
<1>9. ThunksOk'
  BY <1>4, <1>5, <1>7, <1>8 DEF ThunksOk, ReadyFits, Made
<1>10. \A i \in Lazies : OfLazy(i)' = IF i = l THEN OfLazy(m)
                                      ELSE IF i = m THEN {} ELSE OfLazy(i)
  BY <1>3, <1>4, <1>5, <1>6, <1>7, Distinct DEF OfLazy
<1>11. /\ g \in Boxes /\ h \in Boxes /\ g # h /\ Has(g) = {}
       /\ Has(g)' = Has(h) /\ Has(h)' = {}
  BY <1>1, <1>10, BoxPlaces DEF OfLazy, Made
<1>12. \A i \in Boxes : i \notin {g, h} => Has(i)' = Has(i)
  <2> SUFFICES ASSUME NEW i \in Boxes, i \notin {g, h} PROVE Has(i)' = Has(i)
    OBVIOUS
  <2>1. ASSUME NEW k \in Choices, i = <<"choice", k>> PROVE Has(i)' = Has(i)
    BY <1>2, <2>1, BoxPlaces DEF OfChoice
  <2>2. ASSUME NEW n \in Lazies, i = <<"lazy", n>> PROVE Has(i)' = Has(i)
    BY <1>10, <2>2, BoxPlaces
  <2>3. ASSUME NEW p \in Slots, i = <<"slot", p>> PROVE Has(i)' = Has(i)
    BY <1>2, <2>3, BoxPlaces DEF OfSlot
  <2> QED  BY <2>1, <2>2, <2>3, PlaceIs
<1>13. Pass({}, {})
  BY DEF MoveLazy
<1> HIDE DEF g, h
<1> QED  BY <1>2, <1>9, <1>11, <1>12, <1>13, MovedOver DEF LazyGoal

\* Every step of a lazy.
LEMMA LazySafe ==
    ASSUME OwnersOk, ThunksOk, LazyNext
    PROVE  LazyGoal
  BY MakeLazySafe, InitializeSafe, EndLazySafe, MoveLazySafe DEF LazyNext

-----------------------------------------------------------------------------
(* The pool *)

PoolGoal == OwnersOk' /\ PromisedStep /\ PoolOk'

\* A place in the pool that becomes v, and what is then where.
LEMMA SlotBecomes ==
    ASSUME PoolOk, NEW p \in Slots, NEW v \in Objects \cup {Hollow, Raw},
           slot' = [slot EXCEPT ![p] = v], UNCHANGED <<alt, thunk>>
    PROVE  /\ slot' \in [Slots -> Objects \cup {Hollow, Raw}]
           /\ \A q \in Slots : slot'[q] = IF q = p THEN v ELSE slot[q]
           /\ Has(<<"slot", p>>)' = {v} \cap Objects
           /\ \A h \in Boxes : h # <<"slot", p>> => Has(h)' = Has(h)
           /\ <<"slot", p>> \in Boxes /\ Has(<<"slot", p>>) = OfSlot(p)
<1>1. \A q \in Slots : slot'[q] = IF q = p THEN v ELSE slot[q]
  BY DEF PoolOk
<1>2. slot' \in [Slots -> Objects \cup {Hollow, Raw}]
  BY DEF PoolOk
<1>3. \A q \in Slots : q # p => OfSlot(q)' = OfSlot(q)
  BY <1>1 DEF OfSlot
<1>4. OfSlot(p)' = {v} \cap Objects
  BY <1>1 DEF OfSlot
<1> QED  BY <1>1, <1>2, <1>3, <1>4, OtherSlots, BoxPlaces

\* What a place can hold besides a T is told from one.
LEMMA RawIs == Raw \notin Objects /\ Raw # Hollow /\ Hollow \notin Objects
  BY RawDistinct, Distinct

\* The bit the search finds, and the place that goes with it.
LEMMA FirstFreeIs ==
    ASSUME FreeBits # {}
    PROVE  /\ FirstFree \in Slots /\ FirstFree \notin bit
           /\ Place(FirstFree \div Byte, FirstFree % Byte) = FirstFree
<1>1. FreeBits \in SUBSET Nat
  BY PoolAssumption DEF FreeBits
<1>2. PICK n \in FreeBits : \A m \in FreeBits : n <= m
  BY <1>1, LeastOf
<1>3. FirstFree \in FreeBits
  BY <1>2 DEF FirstFree
<1>4. FirstFree \in Slots /\ FirstFree \notin bit /\ FirstFree \in Nat
  BY <1>1, <1>3 DEF FreeBits
<1>5. ASSUME NEW f \in Nat, NEW B \in Nat \ {0} PROVE f = (f \div B) * B + (f % B)
  OBVIOUS
<1> QED  BY <1>4, <1>5, PoolAssumption DEF Place

\* pool.acquire
LEMMA AcquireSafe ==
    ASSUME OwnersOk, PoolOk, NEW r \in Refs, NEW x \in Objects,
           UNCHANGED <<cell, alt, lost, thunk, panicked>>, Acquire(r, x)
    PROVE  PoolGoal
<1> USE PoolAssumption
<1>0. UNCHANGED <<alt, thunk>> /\ UNCHANGED <<cell, lost, panicked>>
  OBVIOUS
<1>1. open /\ open' = open /\ x \in Fresh
  BY DEF Acquire
<1>2. CASE FreeBits = {}
  <2>1. ref' = [ref EXCEPT ![r] = Nothing] /\ Pass({}, {}) /\ UNCHANGED <<slot, bit>>
    BY <1>2 DEF Acquire
  <2>2. PoolOk'
    BY <1>1, <2>1 DEF PoolOk, BitsFit, Follows
  <2>3. (\A h \in Boxes : Has(h)' = Has(h)) /\ panicked' \in BOOLEAN
    BY <2>1 DEF Has, OfChoice, OfLazy, OfSlot, OwnersOk, SafeOwnership, TypeOK
  <2> QED  BY <2>1, <2>2, <2>3, NothingMoves DEF PoolGoal
<1>3. CASE FreeBits # {}
  <2>1. PICK p \in Slots : /\ p = FirstFree /\ p \notin bit
                           /\ Place(p \div Byte, p % Byte) = p
    BY <1>3, FirstFreeIs
  <2> DEFINE h == <<"slot", p>>
  <2>2. /\ bit' = bit \cup {p} /\ slot' = [slot EXCEPT ![p] = x]
        /\ ref' = [ref EXCEPT ![r] = p] /\ Replace({}, {x})
    BY <1>3, <2>1 DEF Acquire
  <2>3. /\ slot' \in [Slots -> Objects \cup {Hollow, Raw}]
        /\ \A q \in Slots : slot'[q] = IF q = p THEN x ELSE slot[q]
        /\ Has(h)' = {x} \cap Objects /\ h \in Boxes /\ Has(h) = OfSlot(p)
        /\ \A g \in Boxes : g # h => Has(g)' = Has(g)
    BY <1>0, <2>1, <2>2, SlotBecomes
  <2>4. slot[p] = Raw /\ OfSlot(p) = {} /\ x # Raw
    BY <2>1, RawIs DEF PoolOk, BitsFit, OfSlot
  <2>5. OwnersOk' /\ PromisedStep
    <3>1. /\ Has(h)' = {x} /\ Replace(Has(h), {x}) /\ h \in Boxes
          /\ \A g \in Boxes : g # h => Has(g)' = Has(g)
      BY <2>2, <2>3, <2>4
    <3> HIDE DEF h
    <3> QED  BY <1>0, <1>1, <3>1, Rebuilt
  <2>6. /\ bit' \subseteq Slots /\ ref' \in [Refs -> {Nothing, Stale} \cup Slots]
        /\ \A s \in Refs : ref'[s] = IF s = r THEN p ELSE ref[s]
    BY <2>1, <2>2 DEF PoolOk
  <2>7. BitsFit'
    <3>1. \A q \in Slots : slot'[q] # Raw <=> q \in bit'
      BY <2>1, <2>2, <2>3, <2>4 DEF PoolOk, BitsFit
    <3>2. \A s \in Refs : ref'[s] \in Slots => slot'[ref'[s]] # Raw
      BY <2>1, <2>3, <2>4, <2>6 DEF PoolOk, BitsFit, Follows
    <3> QED  BY <3>1, <3>2 DEF BitsFit, Follows
  <2> QED  BY <1>1, <2>3, <2>5, <2>6, <2>7 DEF PoolGoal, PoolOk
<1> QED  BY <1>2, <1>3

\* pool.release
LEMMA ReleaseSafe ==
    ASSUME OwnersOk, PoolOk, NEW r \in Refs, RightBits,
           UNCHANGED <<cell, alt, lost, thunk, panicked>>, ReleaseRef(r)
    PROVE  PoolGoal
<1>0. UNCHANGED <<alt, thunk>> /\ UNCHANGED <<cell, lost, panicked>>
  OBVIOUS
<1>1. PICK p \in Slots :
      /\ ref[r] = p /\ BitOfSlot(p) = p /\ slot' = [slot EXCEPT ![p] = Raw]
      /\ bit' = bit \ {p} /\ ref' = Staled(p) /\ Replace(OfSlot(p), {}) /\ open' = open
  BY DEF ReleaseRef, Follows, RightBits
<1> DEFINE h == <<"slot", p>>
<1>2. /\ slot' \in [Slots -> Objects \cup {Hollow, Raw}]
      /\ \A q \in Slots : slot'[q] = IF q = p THEN Raw ELSE slot[q]
      /\ Has(h)' = {Raw} \cap Objects /\ h \in Boxes /\ Has(h) = OfSlot(p)
      /\ \A g \in Boxes : g # h => Has(g)' = Has(g)
  BY <1>0, <1>1, SlotBecomes
<1>3. OwnersOk' /\ PromisedStep
  <2>1. /\ Has(h)' = {} /\ Replace(Has(h), {}) /\ h \in Boxes
        /\ \A g \in Boxes : g # h => Has(g)' = Has(g)
    BY <1>1, <1>2, RawIs
  <2> HIDE DEF h
  <2> QED  BY <1>0, <2>1, Rebuilt
<1>4. /\ bit' \subseteq Slots /\ ref' \in [Refs -> {Nothing, Stale} \cup Slots]
      /\ \A s \in Refs : ref'[s] = IF ref[s] = p THEN Stale ELSE ref[s]
  BY <1>1 DEF PoolOk, Staled
<1>5. BitsFit'
  <2>1. \A q \in Slots : slot'[q] # Raw <=> q \in bit'
    BY <1>1, <1>2 DEF PoolOk, BitsFit
  <2>2. \A s \in Refs : ref'[s] \in Slots => slot'[ref'[s]] # Raw
    BY <1>1, <1>2, <1>4, PoolAssumption DEF PoolOk, BitsFit, Follows
  <2> QED  BY <2>1, <2>2 DEF BitsFit, Follows
<1> QED  BY <1>1, <1>2, <1>3, <1>4, <1>5 DEF PoolGoal, PoolOk

\* The constructor, and the operations that only change references.
LEMMA ReferSafe ==
    ASSUME OwnersOk, PoolOk, NEW r \in Refs, NEW s \in Refs,
           UNCHANGED <<cell, alt, lost, thunk>>,
           \/ (OpenPool \/ Forget(r) \/ Refer(r, s) \/ ReferInstead(r, s)) /\ UNCHANGED panicked
           \/ PanicRef(r)
    PROVE  PoolGoal
<1>1. slot' = slot /\ Pass({}, {}) /\ panicked' \in BOOLEAN
  BY DEF OpenPool, Forget, Refer, ReferInstead, PanicRef, OwnersOk, SafeOwnership, TypeOK
<1>2. \A h \in Boxes : Has(h)' = Has(h)
  BY <1>1 DEF Has, OfChoice, OfLazy, OfSlot
<1>3. PoolOk'
  <2>1. CASE OpenPool
    BY <1>1, <2>1 DEF OpenPool, PoolOk, BitsFit, Follows
  <2>2. CASE Forget(r)
    BY <1>1, <2>2, PoolAssumption DEF Forget, PoolOk, BitsFit, Follows
  <2>3. CASE Refer(r, s) \/ ReferInstead(r, s)
    BY <1>1, <2>3 DEF Refer, ReferInstead, PoolOk, BitsFit, Follows
  <2>4. CASE PanicRef(r)
    BY <1>1, <2>4 DEF PanicRef, PoolOk, BitsFit, Follows
  <2> QED  BY <2>1, <2>2, <2>3, <2>4
<1> QED  BY <1>1, <1>2, <1>3, NothingMoves DEF PoolGoal

\* Moving from what a reference refers to.
LEMMA FollowSafe ==
    ASSUME OwnersOk, PoolOk, NEW r \in Refs,
           UNCHANGED <<cell, alt, lost, thunk, panicked>>, Follow(r)
    PROVE  PoolGoal
<1>0. UNCHANGED <<alt, thunk>> /\ UNCHANGED <<cell, lost, panicked>>
  OBVIOUS
<1>1. PICK p \in Slots :
      /\ ref[r] = p /\ slot' = [slot EXCEPT ![p] = Hollow] /\ slot[p] # Raw
      /\ Pass({}, OfSlot(p)) /\ UNCHANGED <<open, bit, ref>>
  BY DEF Follow, Follows, PoolOk, BitsFit
<1> DEFINE h == <<"slot", p>>
<1>2. /\ slot' \in [Slots -> Objects \cup {Hollow, Raw}]
      /\ \A q \in Slots : slot'[q] = IF q = p THEN Hollow ELSE slot[q]
      /\ Has(h)' = {Hollow} \cap Objects /\ h \in Boxes /\ Has(h) = OfSlot(p)
      /\ \A g \in Boxes : g # h => Has(g)' = Has(g)
  BY <1>0, <1>1, SlotBecomes
<1>3. OwnersOk' /\ PromisedStep
  <2>1. /\ Has(h)' = {} /\ Pass({}, Has(h)) /\ h \in Boxes
        /\ \A g \in Boxes : g # h => Has(g)' = Has(g)
    BY <1>1, <1>2, RawIs
  <2> HIDE DEF h
  <2> QED  BY <1>0, <2>1, MovedOut
<1>4. BitsFit'
  <2>1. \A q \in Slots : slot'[q] # Raw <=> slot[q] # Raw
    BY <1>1, <1>2, RawIs
  <2> QED  BY <1>1, <2>1 DEF PoolOk, BitsFit, Follows
<1> QED  BY <1>1, <1>2, <1>3, <1>4 DEF PoolGoal, PoolOk

\* The destructor of the pool.
LEMMA ClosePoolSafe ==
    ASSUME OwnersOk, PoolOk,
           UNCHANGED <<cell, alt, lost, thunk, panicked>>, ClosePool
    PROVE  PoolGoal
<1> DEFINE gone == UNION {OfSlot(p) : p \in Destroyed}
<1>1. /\ \A p \in Slots : slot'[p] = Raw
      /\ slot' = [p \in Slots |-> Raw]
  BY DEF ClosePool, Destroyed, PoolOk, BitsFit
<1>2. \A x : x \in gone <=> \E p \in Slots : x \in OfSlot(p)
  <2>1. \A p \in Slots : p \notin bit => OfSlot(p) = {}
    BY RawIs DEF PoolOk, BitsFit, OfSlot
  <2> QED  BY <2>1 DEF PoolOk, Destroyed
<1>3. own' = own /\ local' = local \ gone /\ Release(gone, {})
  BY DEF ClosePool, Replace
<1> HIDE DEF gone
<1>4. \A p \in Slots : Has(<<"slot", p>>)' = {} /\ Has(<<"slot", p>>) = OfSlot(p)
                       /\ <<"slot", p>> \in Boxes
  BY <1>1, BoxPlaces, RawIs DEF OfSlot
<1>5. \A h \in Places : Has(h)' = Has(h) \/ \E p \in Slots : h = <<"slot", p>>
  <2> SUFFICES ASSUME NEW h \in Places PROVE Has(h)' = Has(h) \/ \E p \in Slots : h = <<"slot", p>>
    OBVIOUS
  <2>1. ASSUME NEW k \in Choices, h = <<"choice", k>> PROVE Has(h)' = Has(h)
    BY <2>1, BoxPlaces DEF OfChoice
  <2>2. ASSUME NEW l \in Lazies, h = <<"lazy", l>> PROVE Has(h)' = Has(h)
    BY <2>2, BoxPlaces DEF OfLazy
  <2>3. CASE h \in {Own, Lost}
    BY <1>3, <2>3, OwnPlaces
  <2> QED  BY <2>1, <2>2, <2>3, PlaceIs DEF Boxes
<1>6. gone \subseteq local /\ gone \subseteq Objects
  BY <1>2, <1>4, BoxHas
<1>7. HeldApart'
  <2>1. ASSUME NEW x \in Objects
        PROVE  Stays(x) \/ Leaves(x) \/ \E g \in Places : GoesTo(x, g)
    <3>1. ASSUME NEW p \in Slots, x \in OfSlot(p) PROVE Leaves(x)
      <4>1. \A g \in Places : x \in Has(g) => g = <<"slot", p>>
        BY <1>4, <3>1, OnePlace DEF OwnersOk, Boxes
      <4>2. x \in gone
        BY <1>2, <3>1
      <4> QED  BY <1>3, <1>4, <1>5, <4>1, <4>2 DEF Leaves
    <3>2. CASE \A p \in Slots : x \notin OfSlot(p)
      BY <1>2, <1>3, <1>4, <1>5, <3>2 DEF Stays
    <3> QED  BY <3>1, <3>2
  <2> QED  BY <2>1, StaysApart DEF OwnersOk
<1>8. SafeOwnership' /\ PromisedStep
  <2>1. panicked' \in BOOLEAN /\ local' = (local \ gone) \cup {}
    BY <1>3 DEF OwnersOk, SafeOwnership, TypeOK
  <2> QED  BY <1>3, <1>6, <2>1, ReplaceSafe DEF OwnersOk
<1>9. PoolOk'
  BY <1>1, PoolAssumption DEF ClosePool, PoolOk, BitsFit, Follows
<1> QED  BY <1>3, <1>7, <1>8, <1>9 DEF PoolGoal, OwnersOk

\* Every step of the pool.
LEMMA PoolSafe ==
    ASSUME OwnersOk, PoolOk, RightBits, PoolNext
    PROVE  PoolGoal
<1>1. UNCHANGED <<cell, alt, lost, thunk>>
  BY DEF PoolNext
<1>2. ASSUME NEW r \in Refs, PanicRef(r) PROVE PoolGoal
  BY <1>1, <1>2, ReferSafe
<1>3. ASSUME PoolStep, UNCHANGED panicked PROVE PoolGoal
  <2>1. CASE OpenPool
    <3>1. PoolOk'
      BY <2>1 DEF OpenPool, PoolOk, BitsFit, Follows
    <3>2. (\A h \in Boxes : Has(h)' = Has(h)) /\ panicked' \in BOOLEAN /\ Pass({}, {})
      BY <1>1, <1>3, <2>1 DEF OpenPool, Has, OfChoice, OfLazy, OfSlot, OwnersOk,
         SafeOwnership, TypeOK
    <3> QED  BY <1>1, <3>1, <3>2, NothingMoves DEF PoolGoal
  <2> QED  BY <1>1, <1>3, <2>1, ReferSafe, ReleaseSafe, AcquireSafe, FollowSafe, ClosePoolSafe
           DEF PoolStep
<1> QED  BY <1>2, <1>3 DEF PoolNext

-----------------------------------------------------------------------------
(* The program *)

\* Where it starts.
LEMMA InitIInv == ContainersInit => IInv
<1> SUFFICES ASSUME ContainersInit PROVE IInv
  OBVIOUS
<1> USE DEF ContainersInit
<1>1. OwnersOk
  <2>1. SafeOwnership
    BY InitSafe
  <2>2. /\ \A k \in Choices : OfChoice(k) = {}
        /\ \A l \in Lazies : OfLazy(l) = {}
        /\ \A p \in Slots : OfSlot(p) = {}
    BY RawIs DEF OfChoice, OfLazy, OfSlot
  <2>3. \A h \in Boxes : Has(h) = {}
    BY <2>2, BoxPlaces, PlaceIs
  <2>4. \A h \in Places : Has(h) = {}
    BY <2>3, OwnPlaces DEF Boxes
  <2>5. HeldApart
    BY <2>4 DEF HeldApart, Init
  <2> QED  BY <2>1, <2>5 DEF OwnersOk
<1>2. AltsOk
  BY DEF AltsOk, TagFits, Holds
<1>3. ThunksOk
  BY DEF ThunksOk, ReadyFits, Made
<1>4. PoolOk
  BY PoolAssumption DEF PoolOk, BitsFit, Follows
<1>5. ChainOk
  BY DEF ChainOk
<1> QED  BY <1>1, <1>2, <1>3, <1>4, <1>5 DEF IInv

\* A maybe takes only what is the program's own.
LEMMA MaybeSafe ==
    ASSUME OwnersOk, MaybeNext
    PROVE  OwnersOk' /\ PromisedStep
<1>1. /\ Next /\ own' = (own \ (local \ local')) \cup (local' \ local)
      /\ local \ local' \subseteq own /\ UNCHANGED <<alt, lost, thunk, slot>>
  BY DEF MaybeNext
<1>2. SafeOwnership' /\ PromisedStep
  BY <1>1, NextSafe, NextPromised DEF OwnersOk
<1>3. \A h \in Places : h # Own => Has(h)' = Has(h)
  <2>1. \A h \in Boxes : Has(h)' = Has(h)
    BY <1>1 DEF Has, OfChoice, OfLazy, OfSlot
  <2> QED  BY <1>1, <2>1, OwnPlaces DEF Boxes
<1>4. HeldApart'
  <2>1. ASSUME NEW x \in Objects
        PROVE  Stays(x) \/ Leaves(x) \/ \E g \in Places : GoesTo(x, g)
    <3>1. CASE x \in local /\ x \notin local'
      <4>1. x \in Has(Own) /\ x \notin own'
        BY <1>1, <3>1, OwnPlaces
      <4>2. \A g \in Places : x \in Has(g) => g = Own
        BY <4>1, OnePlace, OwnPlaces DEF OwnersOk
      <4>3. Leaves(x)
        BY <1>3, <3>1, <4>1, <4>2, OwnPlaces DEF Leaves
      <4> QED  BY <4>3
    <3>2. CASE x \notin local /\ x \in local'
      <4>1. \A g \in Places : x \notin Has(g)
        BY <3>2, NoPlace DEF OwnersOk
      <4>2. GoesTo(x, Own)
        BY <1>1, <1>3, <3>2, <4>1, OwnPlaces DEF GoesTo
      <4> QED  BY <4>2, OwnPlaces
    <3>3. CASE x \in local <=> x \in local'
      <4>1. Stays(x)
        BY <1>1, <1>3, <3>3, OwnPlaces DEF Stays
      <4> QED  BY <4>1
    <3> QED  BY <3>1, <3>2, <3>3
  <2> QED  BY <2>1, StaysApart DEF OwnersOk
<1>5. own' \subseteq Objects /\ lost' \subseteq Objects
  BY <1>1, <1>2 DEF OwnersOk, SafeOwnership, TypeOK
<1> QED  BY <1>2, <1>4, <1>5 DEF OwnersOk

\* Parts of the state that a step leaves alone.
LEMMA PartsKept ==
    /\ AltsOk /\ UNCHANGED alt => AltsOk'
    /\ ThunksOk /\ UNCHANGED thunk => ThunksOk'
    /\ PoolOk /\ UNCHANGED <<slot, poolVars>> => PoolOk'
    /\ ChainOk /\ UNCHANGED chain => ChainOk'
<1>1. AltsOk /\ UNCHANGED alt => AltsOk'
  BY DEF AltsOk, TagFits, Holds
<1>2. ThunksOk /\ UNCHANGED thunk => ThunksOk'
  BY DEF ThunksOk, ReadyFits, Made
<1>3. PoolOk /\ UNCHANGED <<slot, poolVars>> => PoolOk'
  BY DEF PoolOk, BitsFit, Follows, poolVars
<1>4. ChainOk /\ UNCHANGED chain => ChainOk'
  BY DEF ChainOk
<1> QED  BY <1>1, <1>2, <1>3, <1>4

\* Every step keeps the invariant and what Ownership promises.
LEMMA NextIInv ==
    ASSUME Usage, IInv, [ContainersNext]_allVars
    PROVE  IInv' /\ PromisedStep
<1> USE DEF IInv, Usage
<1>1. CASE UNCHANGED allVars
  <2>1. /\ UNCHANGED <<alt, lost, own, local, live, faulted, cell, panicked, chain, thunk>>
        /\ UNCHANGED <<slot, poolVars>>
    BY <1>1 DEF allVars, vars
  <2>2. Pass({}, {}) /\ panicked' \in BOOLEAN /\ \A h \in Boxes : Has(h)' = Has(h)
    BY <2>1 DEF Pass, Has, OfChoice, OfLazy, OfSlot, OwnersOk, SafeOwnership, TypeOK
  <2>3. OwnersOk' /\ PromisedStep
    BY <2>1, <2>2, NothingMoves
  <2> QED  BY <2>1, <2>3, PartsKept
<1>2. CASE MaybeNext
  <2>1. UNCHANGED <<alt, chain, thunk>> /\ UNCHANGED <<slot, poolVars>>
    BY <1>2 DEF MaybeNext
  <2> QED  BY <1>2, <2>1, MaybeSafe, PartsKept
<1>3. CASE ChoiceNext /\ UNCHANGED poolVars
  <2>1. UNCHANGED thunk /\ UNCHANGED <<slot, poolVars>>
    BY <1>3 DEF ChoiceNext
  <2> QED  BY <1>3, <2>1, ChoiceSafe, PartsKept DEF ChoiceGoal
<1>4. CASE LazyNext /\ UNCHANGED <<chain, poolVars>>
  <2>1. UNCHANGED <<alt, chain>> /\ UNCHANGED <<slot, poolVars>>
    BY <1>4 DEF LazyNext, Apart
  <2> QED  BY <1>4, <2>1, LazySafe, PartsKept DEF LazyGoal
<1>5. CASE PoolNext /\ UNCHANGED chain
  <2>1. UNCHANGED <<alt, chain, thunk>>
    BY <1>5 DEF PoolNext
  <2> QED  BY <1>5, <2>1, PoolSafe, PartsKept DEF PoolGoal
<1> QED  BY <1>1, <1>2, <1>3, <1>4, <1>5 DEF ContainersNext

\* The invariant of every behaviour.
LEMMA ContainersInductive ==
    ASSUME Usage
    PROVE  ContainersSpec => []IInv
<1>1. IInv /\ [ContainersNext]_allVars => IInv'
  BY NextIInv
<1> QED  BY <1>1, InitIInv, PTL DEF ContainersSpec

-----------------------------------------------------------------------------
\* What a T may own is an object or nothing, in maybes next to the other
\* containers too (maybe.hpp:52-280).
THEOREM ValuesTyped ==
    ASSUME Usage
    PROVE  ContainersSpec => []TypeOK
<1>1. IInv => TypeOK
  BY DEF IInv, OwnersOk, SafeOwnership
<1> QED  BY <1>1, ContainersInductive, PTL

\* However values move between maybes, choices, lazies and a pool, no object is
\* released twice, and every object not yet released is owned, where what an
\* assignment to a choice built over still counts as owned (ObjectsAreApart tells
\* it from the rest).
THEOREM ContainersReleaseOnce ==
    ASSUME Usage
    PROVE  ContainersSpec => [](NeverReleasedTwice /\ LiveAreHeld)
<1>1. IInv => NeverReleasedTwice /\ LiveAreHeld
  BY DEF IInv, OwnersOk, SafeOwnership
<1> QED  BY <1>1, ContainersInductive, PTL

\* Every object outside maybes is in one place, and what no T owns any more
\* was overwritten in a choice (choice.hpp:119-125).
THEOREM ObjectsAreApart ==
    ASSUME Usage
    PROVE  ContainersSpec => []HeldApart
<1>1. IInv => HeldApart
  BY DEF IInv, OwnersOk
<1> QED  BY <1>1, ContainersInductive, PTL

\* Discriminators, flags and bits tell what lives in the storage beside them
\* (choice.hpp:67-254, lazy.hpp:28-115, mstd-test/maybe.cpp:23-73).
THEOREM StorageIsTold ==
    ASSUME Usage
    PROVE  ContainersSpec => []StorageFits
<1>1. IInv => StorageFits
  BY DEF IInv, AltsOk, ThunksOk, PoolOk, StorageFits
<1> QED  BY <1>1, ContainersInductive, PTL

\* A chain of matches of any length calls one handler, whatever handlers do to
\* the choice (choice.hpp:290-313).
THEOREM OneHandlerRuns ==
    ASSUME Usage
    PROVE  ContainersSpec => []OneHandler
<1>1. IInv => OneHandler
  BY ChainIsOne DEF IInv
<1> QED  BY <1>1, ContainersInductive, PTL

\* All containers together implement Ownership: the program's other containers
\* are to a maybe like variables of the program.
THEOREM ContainersImplementOwnership ==
    ASSUME Usage
    PROVE  ContainersSpec => HandsOver
<1>1. ContainersInit => Promise!Init
  BY Distinct DEF ContainersInit, Init, Promise!Init, Promise!Places, Holding, Owned
<1>2. IInv /\ [ContainersNext]_allVars => [Promise!Next]_(Promise!vars)
  BY NextIInv DEF PromisedStep
<1> QED  BY <1>1, <1>2, ContainersInductive, PTL DEF ContainersSpec, HandsOver, Promise!Spec
=============================================================================
