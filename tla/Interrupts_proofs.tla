------------------------- MODULE Interrupts_proofs -------------------------
(***************************************************************************)
(* For every set of registers, every program of the interrupted code and   *)
(* every timer frequency: handlers give back what they took, every         *)
(* interrupt is ended, ticks count time, and a halted kernel stays halted. *)
(***************************************************************************)
EXTENDS Interrupts, TLAPS

\* What a saved context may hold.  The loop of kernel_halt is never
\* interrupted, so no context returns to it.
Contexts == [regs : [Reg -> Val], elr : 0 .. Places, spsr : BOOLEAN, esr : {0, 1}]

\* What the variables may hold.
Shape ==
  /\ regs \in [Reg -> Val] /\ pc \in 0 .. Places + 1 /\ masked \in BOOLEAN
  /\ elr \in 0 .. Places /\ spsr \in BOOLEAN /\ esr \in {0, 1}
  /\ mode \in Modes
  /\ setup \in Setups
  /\ active \subseteq {VTimerInterrupt}
  /\ enabled \subseteq {VTimerInterrupt}
  /\ iar \in {VTimerInterrupt, Spurious}
  /\ now \in 0 .. MaxTime
  /\ timerOn \in BOOLEAN

\* The one context lies on the stack while a handler of an interrupt is at work,
\* and for ever where a fault has led to kernel_panic, which runs masked.
Saving == {"irq_vector", "sync_vector", "eret"}
OneContext ==
  /\ frames = <<>> \/ \E ctx \in Contexts : frames = <<ctx>>
  /\ mode \in {"begin", "serve", "end", "return"} => frames # <<>>
  /\ mode \in Saving => frames = <<>>
  /\ mode # "run" => masked = TRUE
  /\ mode = "run" /\ frames # <<>> => masked = TRUE /\ pc \in {PanicPlace, HaltPlace}

\* Exceptions find their vectors; the timer runs from the end of the set-up on,
\* and its interrupt is enabled shortly before, never after kernel_halt.
SetUpFirst ==
  /\ mode # "run" => setup # "none"
  /\ enabled # {} => setup \in {"timer", "done"}
  /\ timerOn <=> setup = "done"
  /\ Halted => enabled = {}

\* An interrupt is active only between IRQ::begin and end_irq, and only the one
\* IRQ::iar names; it is served only while its deadline is over.
OneActive ==
  /\ mode \notin {"serve", "end"} => active = {}
  /\ active \subseteq {iar}
  /\ mode = "serve" /\ iar = VTimerInterrupt => Pending

\* The deadline lies a whole number of intervals after the start.
OnGrid ==
  /\ start \in Nat /\ ticks \in Nat /\ cval \in Nat
  /\ setup # "done" => ticks = 0
  /\ setup = "done" =>
       /\ cval = start + (ticks + 1) * Interval
       /\ start + ticks * Interval <= now

IInv == Shape /\ OneContext /\ SetUpFirst /\ OneActive /\ OnGrid

-----------------------------------------------------------------------------
\* The places of the interrupted code form a circle.
LEMMA GoesInside ==
  ASSUME NEW p \in 0 .. Places - 1
  PROVE  Goes(p) \in 0 .. Places - 1
  BY InterruptsAssumption DEF Goes

\* There is a whole number of counts between two ticks.
LEMMA IntervalNat == Interval \in Nat \ {0}
  BY InterruptsAssumption DEF Interval

\* The one saved context is the top of the stack, and under it there is none.
LEMMA OneFrame ==
  ASSUME NEW ctx
  PROVE  Last(<<ctx>>) = ctx /\ Front(<<ctx>>) = <<>> /\ Append(<<>>, ctx) = <<ctx>>
  BY DEF Last, Front

LEMMA InitOk == Init => IInv
<1> SUFFICES ASSUME Init PROVE IInv
  OBVIOUS
<1> USE InterruptsAssumption DEF Init
<1>1. Shape
  <2>1. regs \in [Reg -> Val] /\ pc \in 0 .. Places + 1 /\ masked \in BOOLEAN
    BY DEF MaskedFrom
  <2>2. elr \in 0 .. Places /\ now \in 0 .. MaxTime
    BY DEF MaskedFrom
  <2>3. spsr \in BOOLEAN /\ timerOn \in BOOLEAN /\ esr \in {0, 1}
    BY DEF MaskedFrom
  <2> QED  BY <2>1, <2>2, <2>3 DEF Shape, Modes, Setups
<1>2. OneContext /\ SetUpFirst /\ OneActive
  BY DEF OneContext, SetUpFirst, OneActive, Saving, Halted, HaltPlace
<1>3. OnGrid
  BY DEF OnGrid
<1> QED  BY <1>1, <1>2, <1>3 DEF IInv

\* The steps that leave the timer alone, or only let the counter go on.
LEMMA GridKept ==
  ASSUME Shape, OnGrid, UNCHANGED <<cval, start, ticks>>,
         setup = "done" <=> setup' = "done",
         now' = now \/ now' = now + 1
  PROVE  OnGrid'
  BY IntervalNat DEF OnGrid, Shape

LEMMA StepOk == IInv /\ [Next]_vars => IInv'
<1> SUFFICES ASSUME Shape, OneContext, SetUpFirst, OneActive, OnGrid, [Next]_vars
             PROVE  Shape' /\ OneContext' /\ SetUpFirst' /\ OneActive' /\ OnGrid'
  BY DEF IInv
<1> USE DEF cpuVars, sysVars, gicVars, timerVars
<1>1. CASE init_exception_vector
  <2>1. Shape'
    BY <1>1, InterruptsAssumption, GoesInside, OneFrame DEF init_exception_vector, SetUp,
       Alive, Shape, OneContext, Contexts, SetUpFirst, Halted, Modes, Setups, PanicPlace,
       HaltPlace, Pending
  <2>2. OneContext'
    BY <1>1, InterruptsAssumption, OneFrame DEF init_exception_vector, SetUp, Alive,
       Shape, OneContext, Contexts, Saving, PanicPlace, HaltPlace, Modes, SetUpFirst, Halted
  <2>3. SetUpFirst'
    BY <1>1, InterruptsAssumption, GoesInside DEF init_exception_vector, SetUp, Alive,
       Shape, SetUpFirst, Halted, HaltPlace, PanicPlace, Setups, Modes
  <2>4. OneActive'
    BY <1>1, IntervalNat DEF init_exception_vector, SetUp, Alive, Shape, SetUpFirst,
       OneActive, OnGrid, Pending, Modes
  <2>5. OnGrid'
    BY <1>1, GridKept DEF init_exception_vector, SetUp, Alive
  <2> QED  BY <2>1, <2>2, <2>3, <2>4, <2>5
<1>2. CASE init_gic
  <2>1. Shape'
    BY <1>2, InterruptsAssumption, GoesInside, OneFrame DEF init_gic, SetUp, Alive,
       Shape, OneContext, Contexts, SetUpFirst, Halted, Modes, Setups, PanicPlace,
       HaltPlace, Pending
  <2>2. OneContext'
    BY <1>2, InterruptsAssumption, OneFrame DEF init_gic, SetUp, Alive, Shape,
       OneContext, Contexts, Saving, PanicPlace, HaltPlace, Modes, SetUpFirst, Halted
  <2>3. SetUpFirst'
    BY <1>2, InterruptsAssumption, GoesInside DEF init_gic, SetUp, Alive, Shape,
       SetUpFirst, Halted, HaltPlace, PanicPlace, Setups, Modes
  <2>4. OneActive'
    BY <1>2, IntervalNat DEF init_gic, SetUp, Alive, Shape, SetUpFirst, OneActive,
       OnGrid, Pending, Modes
  <2>5. OnGrid'
    BY <1>2, GridKept DEF init_gic, SetUp, Alive
  <2> QED  BY <2>1, <2>2, <2>3, <2>4, <2>5
<1>3. CASE init_timer
  <2>1. Shape'
    BY <1>3, InterruptsAssumption, GoesInside, OneFrame DEF init_timer, SetUp, Alive,
       Shape, OneContext, Contexts, SetUpFirst, Halted, Modes, Setups, PanicPlace,
       HaltPlace, Pending
  <2>2. OneContext'
    BY <1>3, InterruptsAssumption, OneFrame DEF init_timer, SetUp, Alive, Shape,
       OneContext, Contexts, Saving, PanicPlace, HaltPlace, Modes, SetUpFirst, Halted
  <2>3. SetUpFirst'
    BY <1>3, InterruptsAssumption, GoesInside DEF init_timer, SetUp, Alive, Shape,
       SetUpFirst, Halted, HaltPlace, PanicPlace, Setups, Modes
  <2>4. OneActive'
    BY <1>3, IntervalNat DEF init_timer, SetUp, Alive, Shape, SetUpFirst, OneActive,
       OnGrid, Pending, Modes
  <2>5. OnGrid'
    BY <1>3, GridKept DEF init_timer, SetUp, Alive
  <2> QED  BY <2>1, <2>2, <2>3, <2>4, <2>5
<1>4. CASE config_timer
  <2>1. Shape'
    BY <1>4, InterruptsAssumption, GoesInside, OneFrame DEF config_timer, SetUp, Alive,
       Shape, OneContext, Contexts, SetUpFirst, Halted, Modes, Setups, PanicPlace,
       HaltPlace, Pending
  <2>2. OneContext'
    BY <1>4, InterruptsAssumption, OneFrame DEF config_timer, SetUp, Alive, Shape,
       OneContext, Contexts, Saving, PanicPlace, HaltPlace, Modes, SetUpFirst, Halted
  <2>3. SetUpFirst'
    BY <1>4, InterruptsAssumption, GoesInside DEF config_timer, SetUp, Alive, Shape,
       SetUpFirst, Halted, HaltPlace, PanicPlace, Setups, Modes
  <2>4. OneActive'
    BY <1>4, IntervalNat DEF config_timer, SetUp, Alive, Shape, SetUpFirst, OneActive,
       OnGrid, Pending, Modes
  <2>5. OnGrid'
    BY <1>4, IntervalNat DEF config_timer, SetUp, Alive, OnGrid, Shape, SetUpFirst,
       OneActive, Pending
  <2> QED  BY <2>1, <2>2, <2>3, <2>4, <2>5
<1>5. CASE Run
  <2>1. Shape'
    <3>1. regs' \in [Reg -> Val] /\ masked' \in BOOLEAN
      BY <1>5 DEF Run, Shape
    <3>2. pc' \in 0 .. Places + 1
      BY <1>5, GoesInside, InterruptsAssumption DEF Run, Alive
    <3> QED  BY <1>5, <3>1, <3>2 DEF Run, Shape
  <2>2. OneContext'
    BY <1>5, InterruptsAssumption, OneFrame DEF Run, Alive, Shape, OneContext, Contexts,
       Saving, PanicPlace, HaltPlace, Modes, SetUpFirst, Halted
  <2>3. SetUpFirst'
    BY <1>5, InterruptsAssumption, GoesInside DEF Run, Alive, Shape, SetUpFirst, Halted,
       HaltPlace, PanicPlace, Setups, Modes
  <2>4. OneActive'
    BY <1>5, IntervalNat DEF Run, Alive, Shape, SetUpFirst, OneActive, OnGrid, Pending,
       Modes
  <2>5. OnGrid'
    BY <1>5, GridKept DEF Run, Alive
  <2> QED  BY <2>1, <2>2, <2>3, <2>4, <2>5
<1>6. CASE Panic
  <2>1. Shape'
    BY <1>6, InterruptsAssumption, GoesInside, OneFrame DEF Panic, Alive, Shape,
       OneContext, Contexts, SetUpFirst, Halted, Modes, Setups, PanicPlace, HaltPlace,
       Pending
  <2>2. OneContext'
    BY <1>6, InterruptsAssumption, OneFrame DEF Panic, Alive, Shape, OneContext,
       Contexts, Saving, PanicPlace, HaltPlace, Modes, SetUpFirst, Halted
  <2>3. SetUpFirst'
    BY <1>6, InterruptsAssumption, GoesInside DEF Panic, Alive, Shape, SetUpFirst,
       Halted, HaltPlace, PanicPlace, Setups, Modes
  <2>4. OneActive'
    BY <1>6, IntervalNat DEF Panic, Alive, Shape, SetUpFirst, OneActive, OnGrid, Pending,
       Modes
  <2>5. OnGrid'
    BY <1>6, GridKept DEF Panic, Alive
  <2> QED  BY <2>1, <2>2, <2>3, <2>4, <2>5
<1>7. CASE kernel_panic
  <2>1. Shape'
    BY <1>7, InterruptsAssumption, GoesInside, OneFrame DEF kernel_panic, AfterDisable,
       Shape, OneContext, Contexts, SetUpFirst, Halted, Modes, Setups, PanicPlace,
       HaltPlace, Pending
  <2>2. OneContext'
    BY <1>7, InterruptsAssumption, OneFrame DEF kernel_panic, AfterDisable, Shape,
       OneContext, Contexts, Saving, PanicPlace, HaltPlace, Modes, SetUpFirst, Halted
  <2>3. SetUpFirst'
    BY <1>7, InterruptsAssumption, GoesInside DEF kernel_panic, AfterDisable, Shape,
       SetUpFirst, Halted, HaltPlace, PanicPlace, Setups, Modes
  <2>4. OneActive'
    BY <1>7, IntervalNat DEF kernel_panic, AfterDisable, Shape, SetUpFirst, OneActive,
       OnGrid, Pending, Modes
  <2>5. OnGrid'
    BY <1>7, GridKept DEF kernel_panic, AfterDisable
  <2> QED  BY <2>1, <2>2, <2>3, <2>4, <2>5
<1>8. CASE Wait
  <2>1. Shape'
    BY <1>8, InterruptsAssumption, GoesInside, OneFrame DEF Wait, vars, Shape,
       OneContext, Contexts, SetUpFirst, Halted, Modes, Setups, PanicPlace, HaltPlace,
       Pending
  <2>2. OneContext'
    BY <1>8, InterruptsAssumption, OneFrame DEF Wait, vars, Shape, OneContext, Contexts,
       Saving, PanicPlace, HaltPlace, Modes, SetUpFirst, Halted
  <2>3. SetUpFirst'
    BY <1>8, InterruptsAssumption, GoesInside DEF Wait, vars, Shape, SetUpFirst, Halted,
       HaltPlace, PanicPlace, Setups, Modes
  <2>4. OneActive'
    BY <1>8, IntervalNat DEF Wait, vars, Shape, SetUpFirst, OneActive, OnGrid, Pending,
       Modes
  <2>5. OnGrid'
    BY <1>8, GridKept DEF Wait, vars
  <2> QED  BY <2>1, <2>2, <2>3, <2>4, <2>5
<1>9. CASE Tick
  <2>1. Shape'
    BY <1>9, InterruptsAssumption DEF Tick, Shape
  <2>2. OneContext'
    BY <1>9, InterruptsAssumption, OneFrame DEF Tick, Shape, OneContext, Contexts,
       Saving, PanicPlace, HaltPlace, Modes, SetUpFirst, Halted
  <2>3. SetUpFirst'
    BY <1>9, InterruptsAssumption, GoesInside DEF Tick, Shape, SetUpFirst, Halted,
       HaltPlace, PanicPlace, Setups, Modes
  <2>4. OneActive'
    BY <1>9 DEF Tick, Shape, OneActive, OnGrid, Pending
  <2>5. OnGrid'
    BY <1>9, GridKept DEF Tick
  <2> QED  BY <2>1, <2>2, <2>3, <2>4, <2>5
<1>10. CASE TakeIrq
  <2>1. Shape'
    <3>1. pc \in 0 .. Places
      BY <1>10, InterruptsAssumption DEF TakeIrq, Enter, Signaled, SetUpFirst, Halted,
         HaltPlace, Shape
    <3> QED  BY <1>10, <3>1 DEF TakeIrq, Enter, Shape, Modes
  <2>2. OneContext'
    BY <1>10, InterruptsAssumption, OneFrame DEF TakeIrq, Enter, Signaled, Shape,
       OneContext, Contexts, Saving, PanicPlace, HaltPlace, Modes, SetUpFirst, Halted
  <2>3. SetUpFirst'
    BY <1>10, InterruptsAssumption, GoesInside DEF TakeIrq, Enter, Signaled, Shape,
       SetUpFirst, Halted, HaltPlace, PanicPlace, Setups, Modes
  <2>4. OneActive'
    BY <1>10, IntervalNat DEF TakeIrq, Enter, Signaled, Shape, SetUpFirst, OneActive,
       OnGrid, Pending, Modes
  <2>5. OnGrid'
    BY <1>10, GridKept DEF TakeIrq, Enter, Signaled
  <2> QED  BY <2>1, <2>2, <2>3, <2>4, <2>5
<1>11. CASE TakeSync
  <2>1. Shape'
    <3>1. pc \in 0 .. Places
      BY <1>11, InterruptsAssumption DEF TakeSync, Enter, Alive
    <3> QED  BY <1>11, <3>1 DEF TakeSync, Enter, Shape, Modes
  <2>2. OneContext'
    <3>1. frames = <<>>
      BY <1>11, InterruptsAssumption DEF TakeSync, Enter, Alive, OneContext, PanicPlace,
         HaltPlace
    <3> QED  BY <1>11, <3>1 DEF TakeSync, Enter, OneContext, Saving
  <2>3. SetUpFirst'
    BY <1>11, InterruptsAssumption, GoesInside DEF TakeSync, Enter, Alive, Shape,
       SetUpFirst, Halted, HaltPlace, PanicPlace, Setups, Modes
  <2>4. OneActive'
    BY <1>11, IntervalNat DEF TakeSync, Enter, Alive, Shape, SetUpFirst, OneActive,
       OnGrid, Pending, Modes
  <2>5. OnGrid'
    BY <1>11, GridKept DEF TakeSync, Enter, Alive
  <2> QED  BY <2>1, <2>2, <2>3, <2>4, <2>5
<1>12. CASE SaveContext
  <2>1. Shape'
    <3>1. regs' \in [Reg -> Val]
      BY <1>12 DEF SaveContext, Clobbered
    <3>2. pc' \in 0 .. Places + 1 /\ mode' \in Modes
      BY <1>12, InterruptsAssumption DEF SaveContext, Clobbered, PanicPlace, Modes, Shape
    <3> QED  BY <1>12, <3>1, <3>2 DEF SaveContext, Shape
  <2>2. OneContext'
    <3>1. frames = <<>>
      BY <1>12 DEF SaveContext, OneContext, Saving
    <3>2. Context \in Contexts
      BY DEF Context, Contexts, Shape
    <3>3. frames' = <<Context>>
      BY <1>12, <3>1, OneFrame DEF SaveContext
    <3>4. mode' = "begin" \/ (mode' = "run" /\ pc' = PanicPlace)
      BY <1>12 DEF SaveContext, Clobbered
    <3>5. masked' = TRUE
      BY <1>12 DEF SaveContext, Clobbered, OneContext
    <3> QED  BY <3>2, <3>3, <3>4, <3>5 DEF OneContext, Saving
  <2>3. SetUpFirst'
    BY <1>12, InterruptsAssumption DEF SaveContext, Clobbered, SetUpFirst, Halted,
       HaltPlace, PanicPlace
  <2>4. OneActive'
    BY <1>12, IntervalNat DEF SaveContext, Context, Clobbered, Shape, SetUpFirst,
       OneActive, OnGrid, Pending, Modes
  <2>5. OnGrid'
    BY <1>12, GridKept DEF SaveContext, Context, Clobbered
  <2> QED  BY <2>1, <2>2, <2>3, <2>4, <2>5
<1>13. CASE Begin
  <2>1. Shape'
    BY <1>13, InterruptsAssumption, GoesInside, OneFrame DEF Begin, Signaled, Shape,
       OneContext, Contexts, SetUpFirst, Halted, Modes, Setups, PanicPlace, HaltPlace,
       Pending
  <2>2. OneContext'
    BY <1>13, InterruptsAssumption, OneFrame DEF Begin, Signaled, Shape, OneContext,
       Contexts, Saving, PanicPlace, HaltPlace, Modes, SetUpFirst, Halted
  <2>3. SetUpFirst'
    BY <1>13, InterruptsAssumption, GoesInside DEF Begin, Signaled, Shape, SetUpFirst,
       Halted, HaltPlace, PanicPlace, Setups, Modes
  <2>4. OneActive'
    BY <1>13 DEF Begin, Signaled, OneActive, Pending, VTimerInterrupt, Spurious
  <2>5. OnGrid'
    BY <1>13, GridKept DEF Begin, Signaled
  <2> QED  BY <2>1, <2>2, <2>3, <2>4, <2>5
<1>14. CASE Serve
  <2>1. Shape'
    BY <1>14, InterruptsAssumption, GoesInside, OneFrame DEF Serve, NextDeadline,
       Clobbered, Shape, OneContext, Contexts, SetUpFirst, Halted, Modes, Setups,
       PanicPlace, HaltPlace, Pending
  <2>2. OneContext'
    BY <1>14, InterruptsAssumption, OneFrame DEF Serve, NextDeadline, Clobbered, Shape,
       OneContext, Contexts, Saving, PanicPlace, HaltPlace, Modes, SetUpFirst, Halted
  <2>3. SetUpFirst'
    BY <1>14, InterruptsAssumption, GoesInside DEF Serve, NextDeadline, Clobbered, Shape,
       SetUpFirst, Halted, HaltPlace, PanicPlace, Setups, Modes
  <2>4. OneActive'
    BY <1>14, IntervalNat DEF Serve, NextDeadline, Clobbered, Shape, SetUpFirst,
       OneActive, OnGrid, Pending, Modes
  <2>5. OnGrid'
    BY <1>14, IntervalNat DEF Serve, NextDeadline, Clobbered, OnGrid, Shape, SetUpFirst,
       OneActive, Pending
  <2> QED  BY <2>1, <2>2, <2>3, <2>4, <2>5
<1>15. CASE End
  <2>1. Shape'
    BY <1>15, InterruptsAssumption, GoesInside, OneFrame DEF End, Ended, Shape,
       OneContext, Contexts, SetUpFirst, Halted, Modes, Setups, PanicPlace, HaltPlace,
       Pending
  <2>2. OneContext'
    BY <1>15, InterruptsAssumption, OneFrame DEF End, Ended, Shape, OneContext, Contexts,
       Saving, PanicPlace, HaltPlace, Modes, SetUpFirst, Halted
  <2>3. SetUpFirst'
    BY <1>15, InterruptsAssumption, GoesInside DEF End, Ended, Shape, SetUpFirst, Halted,
       HaltPlace, PanicPlace, Setups, Modes
  <2>4. OneActive'
    BY <1>15, IntervalNat DEF End, Ended, Shape, SetUpFirst, OneActive, OnGrid, Pending,
       Modes
  <2>5. OnGrid'
    BY <1>15, GridKept DEF End, Ended
  <2> QED  BY <2>1, <2>2, <2>3, <2>4, <2>5
<1>16. CASE RestoreContext
  <2>1. Shape'
    BY <1>16, InterruptsAssumption, GoesInside, OneFrame DEF RestoreContext, Popped,
       Shape, OneContext, Contexts, SetUpFirst, Halted, Modes, Setups, PanicPlace,
       HaltPlace, Pending
  <2>2. OneContext'
    BY <1>16, InterruptsAssumption, OneFrame DEF RestoreContext, Popped, Shape,
       OneContext, Contexts, Saving, PanicPlace, HaltPlace, Modes, SetUpFirst, Halted
  <2>3. SetUpFirst'
    BY <1>16, InterruptsAssumption, GoesInside DEF RestoreContext, Popped, Shape,
       SetUpFirst, Halted, HaltPlace, PanicPlace, Setups, Modes
  <2>4. OneActive'
    BY <1>16, IntervalNat DEF RestoreContext, Popped, Shape, SetUpFirst, OneActive,
       OnGrid, Pending, Modes
  <2>5. OnGrid'
    BY <1>16, GridKept DEF RestoreContext, Popped
  <2> QED  BY <2>1, <2>2, <2>3, <2>4, <2>5
<1>17. CASE Eret
  <2>1. Shape'
    BY <1>17, InterruptsAssumption, GoesInside, OneFrame DEF Eret, Shape, OneContext,
       Contexts, SetUpFirst, Halted, Modes, Setups, PanicPlace, HaltPlace, Pending
  <2>2. OneContext'
    BY <1>17, InterruptsAssumption, OneFrame DEF Eret, Shape, OneContext, Contexts,
       Saving, PanicPlace, HaltPlace, Modes, SetUpFirst, Halted
  <2>3. SetUpFirst'
    BY <1>17, InterruptsAssumption, GoesInside DEF Eret, Shape, SetUpFirst, Halted,
       HaltPlace, PanicPlace, Setups, Modes
  <2>4. OneActive'
    BY <1>17, IntervalNat DEF Eret, Shape, SetUpFirst, OneActive, OnGrid, Pending, Modes
  <2>5. OnGrid'
    BY <1>17, GridKept DEF Eret
  <2> QED  BY <2>1, <2>2, <2>3, <2>4, <2>5
<1>18. CASE UNCHANGED vars
  <2>1. Shape'
    BY <1>18, InterruptsAssumption, GoesInside, OneFrame DEF vars, Shape, OneContext,
       Contexts, SetUpFirst, Halted, Modes, Setups, PanicPlace, HaltPlace, Pending
  <2>2. OneContext'
    BY <1>18, InterruptsAssumption, OneFrame DEF vars, Shape, OneContext, Contexts,
       Saving, PanicPlace, HaltPlace, Modes, SetUpFirst, Halted
  <2>3. SetUpFirst'
    BY <1>18, InterruptsAssumption, GoesInside DEF vars, Shape, SetUpFirst, Halted,
       HaltPlace, PanicPlace, Setups, Modes
  <2>4. OneActive'
    BY <1>18, IntervalNat DEF vars, Shape, SetUpFirst, OneActive, OnGrid, Pending, Modes
  <2>5. OnGrid'
    BY <1>18, GridKept DEF vars
  <2> QED  BY <2>1, <2>2, <2>3, <2>4, <2>5
<1> QED
  BY <1>1, <1>2, <1>3, <1>4, <1>5, <1>6, <1>7, <1>8, <1>9, <1>10, <1>11, <1>12, <1>13,
     <1>14, <1>15, <1>16, <1>17, <1>18
     DEF Next, SettingUp, Handler

THEOREM InterruptsInductive == Spec => []IInv
<1> QED  BY InitOk, StepOk, PTL DEF Spec

-----------------------------------------------------------------------------
\* Every interrupt that was acknowledged is ended before the interrupted code
\* goes on, with its context off the stack, and no exception comes before the
\* vectors are installed.
THEOREM InterruptsAreEnded == Spec => []AllEnded
<1>1. IInv => AllEnded
  <2> SUFFICES ASSUME IInv PROVE AllEnded
    OBVIOUS
  <2>1. Len(frames) <= 1
    <3>1. frames = <<>> \/ \E ctx \in Contexts : frames = <<ctx>>
      BY DEF IInv, OneContext
    <3> QED  BY <3>1
  <2>2. Alive => frames = <<>>
    BY InterruptsAssumption DEF IInv, OneContext, Alive, PanicPlace, HaltPlace
  <2>3. TypeOK
    BY <2>1, InterruptsAssumption DEF IInv, Shape, TypeOK
  <2> QED  BY <2>2, <2>3 DEF AllEnded, IInv, SetUpFirst, OneActive
<1> QED  BY <1>1, InterruptsInductive, PTL

\* With the deadlines on their grid, the deadlines served are the whole
\* intervals that have passed, or fewer while one is overdue.
LEMMA GridCounts ==
  ASSUME NEW from \in Nat, NEW t \in Nat, NEW d \in Nat \ {0}, NEW n \in Nat,
         from + t * d <= n
  PROVE  /\ t <= (n - from) \div d
         /\ n < from + (t + 1) * d => t = (n - from) \div d
  OBVIOUS

\* Ticks count time, however late each deadline is served.
THEOREM TicksAreExact == Spec => []TicksCountTime
<1>1. IInv => TicksCountTime
  <2> SUFFICES ASSUME IInv, setup = "done"
               PROVE  ticks <= Elapsed /\ (~Pending => ticks = Elapsed)
    BY DEF TicksCountTime
  <2>1. /\ start \in Nat /\ ticks \in Nat /\ now \in Nat
        /\ start + ticks * Interval <= now
        /\ cval = start + (ticks + 1) * Interval
    BY InterruptsAssumption DEF IInv, Shape, OnGrid
  <2>2. ~Pending => now < cval
    BY <2>1, IntervalNat DEF IInv, SetUpFirst, Pending
  <2> QED  BY <2>1, <2>2, IntervalNat, GridCounts DEF Elapsed
<1> QED  BY <1>1, InterruptsInductive, PTL

\* A halted kernel runs no handler any more.
THEOREM HaltStays == Spec => HaltIsFinal
<1>1. IInv /\ [Next]_vars => [Halted => mode' = "run" /\ pc' = pc]_vars
  <2> SUFFICES ASSUME IInv, Halted, Next
               PROVE  mode' = "run" /\ pc' = pc
    OBVIOUS
  <2>1. ~Alive /\ ~Signaled /\ mode = "run" /\ pc # PanicPlace
    BY InterruptsAssumption
       DEF IInv, SetUpFirst, Halted, Alive, Signaled, HaltPlace, PanicPlace
  <2>2. CASE Wait
    BY <2>1, <2>2 DEF Wait, vars, cpuVars
  <2>3. CASE Tick
    BY <2>1, <2>3 DEF Tick, cpuVars
  <2>4. ~SettingUp /\ ~Run /\ ~Panic /\ ~kernel_panic /\ ~TakeIrq /\ ~TakeSync
    BY <2>1 DEF SettingUp, init_exception_vector, init_gic, init_timer, config_timer,
                SetUp, Run, Panic, kernel_panic, TakeIrq, TakeSync
  <2>5. ~Handler
    BY <2>1 DEF Handler, SaveContext, Begin, Serve, End, RestoreContext, Eret
  <2> QED  BY <2>2, <2>3, <2>4, <2>5 DEF Next
<1> QED  BY <1>1, InterruptsInductive, PTL DEF Spec, HaltIsFinal

-----------------------------------------------------------------------------
\* Nothing of what the interrupted code sees changes.
Unseen == SeenRegs' = SeenRegs /\ SeenPc' = SeenPc /\ SeenMasked' = SeenMasked

\* A step that leaves the saved context alone is not seen.
LEMMA SavedUnseen ==
  ASSUME IInv, frames # <<>>, UNCHANGED frames
  PROVE  Unseen
  BY DEF Unseen, SeenRegs, SeenPc, SeenMasked, Seen, Top

\* Entry, save, restore and return are not seen.
LEMMA HandlerUnseen == IInv /\ (TakeIrq \/ TakeSync \/ Handler) => Unseen
<1> SUFFICES ASSUME IInv, TakeIrq \/ TakeSync \/ Handler PROVE Unseen
  OBVIOUS
<1> USE DEF IInv, cpuVars, sysVars, Unseen, SeenRegs, SeenPc, SeenMasked, Seen, Top, Saving
<1>1. CASE TakeIrq \/ TakeSync
  <2>1. mode = "run" /\ frames = <<>>
    BY <1>1, InterruptsAssumption
       DEF TakeIrq, TakeSync, Enter, Alive, OneContext, PanicPlace, HaltPlace
  <2>2. mode' \in Saving /\ frames' = <<>> /\ regs' = regs
    BY <1>1, <2>1 DEF TakeIrq, TakeSync, Enter, Saving
  <2>3. elr' = pc /\ spsr' = masked
    BY <1>1 DEF TakeIrq, TakeSync, Enter
  <2> QED  BY <2>1, <2>2, <2>3
<1>2. CASE SaveContext
  <2>1. mode \in Saving /\ frames = <<>>
    BY <1>2 DEF SaveContext, Saving, OneContext
  <2>2. frames' = <<Context>>
    BY <1>2, <2>1, OneFrame DEF SaveContext
  <2> QED  BY <2>1, <2>2 DEF Context
<1>3. CASE Begin \/ Serve \/ End
  <2>1. frames # <<>> /\ frames' = frames
    BY <1>3 DEF Begin, Serve, End, OneContext
  <2> QED  BY <2>1, SavedUnseen
<1>4. CASE RestoreContext
  <2>1. PICK ctx \in Contexts : frames = <<ctx>>
    BY <1>4 DEF RestoreContext, OneContext
  <2>2. /\ mode' \in Saving /\ frames' = <<>>
        /\ regs' = ctx.regs /\ elr' = ctx.elr /\ spsr' = ctx.spsr
    BY <1>4, <2>1, OneFrame DEF RestoreContext, Saving, Popped
  <2> QED  BY <2>1, <2>2
<1>5. CASE Eret
  <2>1. mode \in Saving /\ frames = <<>>
    BY <1>5 DEF Eret, Saving, OneContext
  <2>2. mode' = "run" /\ frames' = <<>> /\ regs' = regs /\ pc' = elr /\ masked' = spsr
    BY <1>5, <2>1 DEF Eret
  <2> QED  BY <2>1, <2>2
<1> QED  BY <1>1, <1>2, <1>3, <1>4, <1>5 DEF Handler

\* Steps of the set-up and of the counter are not seen either.
LEMMA DevicesUnseen ==
  ASSUME UNCHANGED <<cpuVars, sysVars, mode, frames>>
  PROVE  Unseen
  BY DEF Unseen, SeenRegs, SeenPc, SeenMasked, Seen, Top, cpuVars, sysVars

\* The interrupted code's own steps are those it promises.
LEMMA CodeSteps == IInv /\ (Run \/ Panic \/ kernel_panic) => Code!Next \/ Unseen
<1> SUFFICES ASSUME IInv, Run \/ Panic \/ kernel_panic PROVE Code!Next \/ Unseen
  OBVIOUS
<1>1. CASE frames # <<>>
  BY <1>1, SavedUnseen DEF Run, Panic, kernel_panic, cpuVars
<1>2. CASE frames = <<>>
  <2>1. /\ SeenRegs = regs /\ SeenPc = pc /\ SeenMasked = masked
        /\ SeenRegs' = regs' /\ SeenPc' = pc' /\ SeenMasked' = masked'
    <3>1. mode = "run" /\ mode' = "run" /\ frames' = <<>>
      BY <1>2 DEF Run, Panic, kernel_panic, Alive
    <3> QED  BY <1>2, <3>1 DEF SeenRegs, SeenPc, SeenMasked, Seen
  <2>2. CASE Run
    BY <2>1, <2>2 DEF Run, Alive, Code!Next, Code!Write, Code!SetMask, Code!Alive,
              Code!Goes, Goes
  <2>3. CASE Panic
    BY <2>1, <2>3 DEF Panic, Alive, Code!Next, Code!Panic, Code!Alive,
              Code!PanicPlace, PanicPlace
  <2>4. CASE kernel_panic
    BY <2>1, <2>4 DEF kernel_panic, Code!Next, Code!Stop,
              Code!PanicPlace, Code!HaltPlace, PanicPlace, HaltPlace
  <2> QED  BY <2>2, <2>3, <2>4
<1> QED  BY <1>1, <1>2

\* The code an interrupt or a fault may strike at any place sees general registers,
\* place and mask change only by its own steps.
THEOREM HandlersImplementUndisturbed == Spec => HandlersAreInvisible
<1>1. Init => Code!Init
  BY DEF Init, MaskedFrom, Code!Init, SeenRegs, SeenPc, SeenMasked, Seen
<1>2. IInv /\ [Next]_vars => [Code!Next]_(Code!vars)
  <2> SUFFICES ASSUME IInv, [Next]_vars PROVE Code!Next \/ Unseen
    BY DEF Unseen, Code!vars
  <2>1. CASE TakeIrq \/ TakeSync \/ Handler
    BY <2>1, HandlerUnseen
  <2>2. CASE Run \/ Panic \/ kernel_panic
    BY <2>2, CodeSteps
  <2>3. CASE SettingUp
    BY <2>3, DevicesUnseen
       DEF SettingUp, init_exception_vector, init_gic, init_timer, config_timer
  <2>4. CASE Tick
    BY <2>4, DevicesUnseen DEF Tick
  <2>5. CASE Wait \/ UNCHANGED vars
    BY <2>5, DevicesUnseen DEF Wait, vars
  <2> QED  BY <2>1, <2>2, <2>3, <2>4, <2>5 DEF Next
<1> QED  BY <1>1, <1>2, InterruptsInductive, PTL DEF Spec, HandlersAreInvisible, Code!Spec
=============================================================================
