---------------------------- MODULE Undisturbed ----------------------------
(***************************************************************************)
(* What the kernel's exception handling promises the code it interrupts:   *)
(* between two of its own instructions nothing changes its general         *)
(* registers, its place or its interrupt mask.                             *)
(*                                                                         *)
(* Interrupts implements this specification by saving and restoring        *)
(* contexts around its handlers.                                           *)
(***************************************************************************)
EXTENDS Integers

CONSTANTS
  Reg,     \* general registers
  Val,     \* their values
  Places   \* places of the code, which runs through them in a circle

VARIABLES
  regs,    \* the registers, as the code sees them
  pc,      \* the place of the next instruction
  masked   \* PSTATE.I

vars == <<regs, pc, masked>>

Goes(from) == (from + 1) % Places

\* kernel_panic, and the loop of kernel_halt it ends in.
PanicPlace == Places
HaltPlace  == Places + 1

Alive == pc \in 0 .. Places - 1

Init ==
  /\ regs \in [Reg -> Val]
  /\ pc = 0
  /\ masked \in BOOLEAN

\* An instruction writes at most one register and goes on to the next place.
Write(r, v) ==
  /\ Alive
  /\ regs' = [regs EXCEPT ![r] = v]
  /\ pc' = Goes(pc)
  /\ UNCHANGED masked

\* mask_interrupt and unmask_interrupt
SetMask(m) ==
  /\ Alive
  /\ masked' = m
  /\ pc' = Goes(pc)
  /\ UNCHANGED regs

Panic == Alive /\ pc' = PanicPlace /\ UNCHANGED <<regs, masked>>

Stop == pc = PanicPlace /\ pc' = HaltPlace /\ UNCHANGED <<regs, masked>>

Next ==
  \/ \E r \in Reg, v \in Val : Write(r, v)
  \/ \E m \in BOOLEAN : SetMask(m)
  \/ Panic
  \/ Stop

Spec == Init /\ [][Next]_vars
=============================================================================
