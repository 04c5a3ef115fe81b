----------------------------- MODULE Interrupts -----------------------------
(***************************************************************************)
(* Exceptions at EL1: the vectors and the saved context                    *)
(* (arch/exception.S), the handlers (kernel/handler/spx.cpp, common.cpp),  *)
(* the set-up of the interrupt controller and the timer                    *)
(* (arch/init_kernel.S), and kernel_panic (kernel/kernel_core.cpp).        *)
(*                                                                         *)
(* The kernel runs at EL1 on its own stack pointer, so that of the vectors *)
(* those of "SPx" can be reached.  The timer's interrupt is the only one   *)
(* enabled and is put in group 1, so signalled as an IRQ (init_timer).     *)
(* FIQ and SError, which nothing here raises, are left out.                *)
(***************************************************************************)
EXTENDS Integers, Sequences, SequencesExt

CONSTANTS
  Reg,       \* general registers, "x0" and "x1" among them
  Kept,      \* those a C function gives back as it found them
  Val,       \* their values
  Places,    \* places of the interrupted code
  Frequency, \* CNTFRQ_EL0
  MaxTime    \* bound on the counter

VTimerInterrupt == 27
Spurious        == 1023    \* what ICC_IAR1 reads when nothing is pending

\* Counts between two ticks.
Interval == Frequency \div 1000

ASSUME InterruptsAssumption ==
  /\ {"x0", "x1"} \subseteq Reg \ Kept
  /\ Places \in Nat \ {0}
  /\ Frequency \in Nat
  /\ Interval > 0
  /\ MaxTime \in Nat

VARIABLES
  regs, pc, masked,    \* the processor: registers, place, PSTATE.I
  elr, spsr, esr,      \* ELR_EL1, the saved mask in SPSR_EL1, ESR_EL1
  mode,                \* what the processor is doing
  frames,              \* contexts on the stack, the last on top
  iar,                 \* IRQ::iar, the interrupt being handled
  active,              \* interrupts acknowledged and not ended
  enabled,             \* interrupts the redistributor forwards
  now, cval, timerOn,  \* CNTVCT, CNTV_CVAL, CNTV_CTL.ENABLE
  setup,               \* how far the set-up has come
  start, ticks         \* history: when the timer was started, the deadlines served

cpuVars   == <<regs, pc, masked>>
sysVars   == <<elr, spsr, esr>>
gicVars   == <<iar, active, enabled>>
timerVars == <<now, cval, timerOn, start, ticks>>
vars == <<cpuVars, sysVars, mode, frames, gicVars, timerVars, setup>>

Modes == {"run", "irq_vector", "sync_vector", "begin", "serve", "end",
          "return", "eret"}
Setups == {"none", "vectors", "gic", "timer", "done"}

\* The timer's output is a level: high from the deadline until it is moved.
Pending  == timerOn /\ now >= cval
Signaled == Pending /\ VTimerInterrupt \in enabled /\ active = {}

\* The running code: its own places, kernel_panic, and the loop of kernel_halt.
PanicPlace == Places
HaltPlace  == Places + 1
Alive  == mode = "run" /\ pc \in 0 .. Places - 1
Halted == mode = "run" /\ pc = HaltPlace

Goes(from) == (from + 1) % Places

\* _start masks interrupts; entered at EL2 it then leaves for EL1 with 0b0101 in
\* SPSR_EL2, which clears the masks again.  Entered elsewhere it halts.
MaskedFrom(el) == el = 1

Init ==
  /\ regs \in [Reg -> Val] /\ pc = 0
  /\ \E el \in {1, 2} : masked = MaskedFrom(el)
  /\ elr = 0 /\ spsr = TRUE /\ esr = 0
  /\ mode = "run"
  /\ frames = <<>>
  /\ iar = Spurious /\ active = {} /\ enabled = {}
  /\ now = 0 /\ cval = 0 /\ timerOn = FALSE
  /\ setup = "none"
  /\ start = 0 /\ ticks = 0

-----------------------------------------------------------------------------
(***************************************************************************)
(* The set-up, in the order of init_gicd, after the vectors and before the *)
(* mask is cleared.                                                        *)
(***************************************************************************)
SetUp(from, to) == Alive /\ setup = from /\ setup' = to

init_exception_vector ==
  /\ SetUp("none", "vectors")
  /\ UNCHANGED <<cpuVars, sysVars, mode, frames, gicVars, timerVars>>

\* init_gic: distributor off, redistributor and interface up, distributor on.
init_gic ==
  /\ SetUp("vectors", "gic")
  /\ UNCHANGED <<cpuVars, sysVars, mode, frames, gicVars, timerVars>>

init_timer ==
  /\ SetUp("gic", "timer")
  /\ enabled' = enabled \cup {VTimerInterrupt}
  /\ UNCHANGED <<cpuVars, sysVars, mode, frames, iar, active, timerVars>>

config_timer ==
  /\ SetUp("timer", "done")
  /\ cval' = now + Interval
  /\ start' = now
  /\ timerOn' = TRUE
  /\ UNCHANGED <<cpuVars, sysVars, mode, frames, gicVars, now, ticks>>

-----------------------------------------------------------------------------
\* An instruction of the running code: it writes a register, or calls
\* mask_interrupt or unmask_interrupt once the set-up is done.
Run ==
  /\ Alive
  /\ pc' = Goes(pc)
  /\ \/ /\ \E r \in Reg, v \in Val : regs' = [regs EXCEPT ![r] = v]
        /\ UNCHANGED masked
     \/ /\ setup = "done"
        /\ masked' \in BOOLEAN
        /\ UNCHANGED regs
  /\ UNCHANGED <<sysVars, mode, frames, gicVars, timerVars, setup>>

\* mstd::panic
Panic ==
  /\ Alive
  /\ pc' = PanicPlace
  /\ UNCHANGED <<regs, masked, sysVars, mode, frames, gicVars, timerVars, setup>>

\* Seeded fault: the write to GICR_ICENABLER0 does not arrive.
AfterDisable_lost == enabled
\* disable_timer writes back what it read from GICR_ICENABLER0, with bit 27:
\* a one disables, and one is read for every interrupt that is enabled.
AfterDisable == enabled \ (enabled \cup {VTimerInterrupt})

kernel_panic ==
  /\ mode = "run"
  /\ pc = PanicPlace
  /\ enabled' = AfterDisable
  /\ pc' = HaltPlace
  /\ UNCHANGED <<regs, masked, sysVars, mode, frames, iar, active, timerVars, setup>>

\* The counter (external).
Tick ==
  /\ now < MaxTime
  /\ now' = now + 1
  /\ UNCHANGED <<cpuVars, sysVars, mode, frames, gicVars, cval, timerOn,
                 start, ticks, setup>>

-----------------------------------------------------------------------------
\* What the processor does when it takes an exception (external).
Enter(vector, syndrome) ==
  /\ elr' = pc
  /\ spsr' = masked
  /\ esr' = syndrome
  /\ masked' = TRUE
  /\ mode' = vector
  /\ UNCHANGED <<regs, pc, frames, gicVars, timerVars, setup>>

TakeIrq == mode = "run" /\ ~masked /\ Signaled /\ Enter("irq_vector", esr)

\* A fault of the running code.
TakeSync == Alive /\ setup # "none" /\ Enter("sync_vector", 1)

\* Seeded fault: the store of elr comes before that of x30 and x0, with x0 as
\* its scratch register.
Context_scratched == [regs |-> [regs EXCEPT !["x0"] = 0], elr |-> elr, spsr |-> spsr, esr |-> esr]
\* struct Ctx, as save_context stores it: x0 is a scratch register only after
\* it has been stored.
Context == [regs |-> regs, elr |-> elr, spsr |-> spsr, esr |-> esr]

\* What a C function may do to the registers.
Clobbered(before) == {after \in [Reg -> Val] : \A r \in Kept : after[r] = before[r]}

SaveContext ==
  /\ mode \in {"irq_vector", "sync_vector"}
  /\ frames' = Append(frames, Context)
  /\ IF mode = "irq_vector"
     THEN mode' = "begin" /\ UNCHANGED pc
     ELSE mode' = "run" /\ pc' = PanicPlace    \* sync_spx knows no exception
  /\ regs' \in Clobbered(regs)
  /\ UNCHANGED <<masked, sysVars, gicVars, timerVars, setup>>

\* IRQ::begin
Begin ==
  /\ mode = "begin"
  /\ iar' = IF Signaled THEN VTimerInterrupt ELSE Spurious
  /\ active' = IF Signaled THEN active \cup {VTimerInterrupt} ELSE active
  /\ mode' = "serve"
  /\ UNCHANGED <<cpuVars, sysVars, frames, enabled, timerVars, setup>>

\* Seeded fault: the next tick counts from now.
NextDeadline_fromNow == now + Interval
\* reset_timer: the next deadline counts from the last one.
NextDeadline == cval + Interval

\* common_irq_handler
Serve ==
  /\ mode = "serve"
  /\ IF iar = VTimerInterrupt
     THEN cval' = NextDeadline /\ ticks' = ticks + 1
     ELSE UNCHANGED <<cval, ticks>>
  /\ mode' = "end"
  /\ regs' \in Clobbered(regs)
  /\ UNCHANGED <<pc, masked, sysVars, frames, gicVars, now, timerOn, start, setup>>

\* Seeded fault: end_irq is not called.
Ended_never == active
\* end_irq
Ended == active \ {iar}

End ==
  /\ mode = "end"
  /\ active' = Ended
  /\ mode' = "return"
  /\ UNCHANGED <<cpuVars, sysVars, frames, iar, enabled, timerVars, setup>>

\* Seeded fault: the stack pointer is not moved back over the context.
Popped_kept == frames
\* add sp, sp, #CTX_SIZE
Popped == Front(frames)

RestoreContext ==
  /\ mode = "return"
  /\ LET ctx == Last(frames) IN
       /\ regs' = ctx.regs
       /\ elr' = ctx.elr
       /\ spsr' = ctx.spsr
       /\ esr' = ctx.esr
  /\ frames' = Popped
  /\ mode' = "eret"
  /\ UNCHANGED <<pc, masked, gicVars, timerVars, setup>>

Eret ==
  /\ mode = "eret"
  /\ pc' = elr
  /\ masked' = spsr
  /\ mode' = "run"
  /\ UNCHANGED <<regs, sysVars, frames, gicVars, timerVars, setup>>

Handler == SaveContext \/ Begin \/ Serve \/ End \/ RestoreContext \/ Eret

SettingUp == init_exception_vector \/ init_gic \/ init_timer \/ config_timer

\* wfi
Wait == Halted /\ UNCHANGED vars

Next ==
  \/ SettingUp \/ Run \/ Panic \/ kernel_panic \/ Wait
  \/ Tick
  \/ TakeIrq \/ TakeSync \/ Handler

\* A processor that can take a signaled interrupt takes it, and goes on with
\* its handler.
Spec == Init /\ [][Next]_vars /\ WF_vars(TakeIrq) /\ WF_vars(Handler)

-----------------------------------------------------------------------------
\* The processor, the controller and the counter keep their shape, and the
\* stack never holds more than one saved context: handlers run masked and take
\* their context off again (exception.S:4, 51).
TypeOK ==
  /\ regs \in [Reg -> Val]
  /\ pc \in 0 .. Places + 1
  /\ masked \in BOOLEAN /\ spsr \in BOOLEAN
  /\ mode \in Modes
  /\ Len(frames) <= 1
  /\ active \subseteq {VTimerInterrupt}
  /\ enabled \subseteq {VTimerInterrupt}
  /\ iar \in {VTimerInterrupt, Spurious}
  /\ now \in 0 .. MaxTime
  /\ setup \in Setups

\* The code that was interrupted, as it will find itself.
Top == frames[1]
Seen(running, vector, saved) ==
  IF frames # <<>> THEN saved
  ELSE IF mode \in {"irq_vector", "sync_vector", "eret"} THEN vector ELSE running

SeenRegs   == Seen(regs, regs, Top.regs)
SeenPc     == Seen(pc, elr, Top.elr)
SeenMasked == Seen(masked, spsr, Top.spsr)

Code == INSTANCE Undisturbed WITH regs <- SeenRegs, pc <- SeenPc, masked <- SeenMasked

\* Handlers are invisible to the code they interrupt: between two of its own
\* instructions its general registers, its place and its mask stay what they
\* were (nothing saves the floating-point registers, and they are not modelled),
\* through entry, save, handler, restore and return (exception.S:3-52, 111-113).
HandlersAreInvisible == Code!Spec

\* Ticks count time: a deadline is never served before it has passed nor
\* twice, and whenever none is overdue there was one tick for every whole
\* interval since the timer was started, however late each was served
\* (init_kernel.S:144-174, common.cpp:15-28).
Elapsed == (now - start) \div Interval
TicksCountTime ==
  setup = "done" => ticks <= Elapsed /\ (~Pending => ticks = Elapsed)

\* An exception finds the vectors installed, as the order of set-up assumed in
\* SettingUp has it.  Every interrupt that was
\* acknowledged has been ended when the interrupted code goes on, otherwise no
\* interrupt would ever arrive again; and its context is off the stack, otherwise
\* every tick would leave one (irq.hpp:19-25, common.cpp:15-28, exception.S:51).
AllEnded ==
  /\ TypeOK
  /\ mode # "run" => setup # "none"
  /\ mode = "run" => active = {}
  /\ Alive => frames = <<>>

\* After kernel_panic has halted the processor no handler runs any more, even
\* if it was called with interrupts unmasked (kernel_core.cpp:14-19).
HaltIsFinal == [][Halted => mode' = "run" /\ pc' = pc]_vars

\* If the code does not keep interrupts masked for ever, then again and again
\* no deadline is overdue, or the timer has been switched off
\* (exception.S:111-113, init_kernel.S:161-174).
Overdue == Pending /\ VTimerInterrupt \in enabled
TicksAreServed == <>[](mode = "run" => ~masked) => []<>~Overdue
=============================================================================
