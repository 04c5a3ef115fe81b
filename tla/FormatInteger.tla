--------------------------- MODULE FormatInteger ---------------------------
(***************************************************************************)
(* write_format for integers and pointers (mstd/fmt/integer.hpp): digits,  *)
(* padding zeros and the sign or prefix are put into a backward_buffer from*)
(* its end, then spaces and the buffer's text go to the console, which     *)
(* takes every character (UARTBuffer, kernel/io.hpp).  Writef calls it.    *)
(*                                                                         *)
(* Unsigned integers and pointers are not negative; only the default format*)
(* of pointers shows the base and no format string changes that, so a sign *)
(* and a prefix never meet.  Both default formats align, so `unaligned` is *)
(* never seen.  The fmt_result, which every caller drops, is left out.     *)
(***************************************************************************)
EXTENDS Integers, Sequences, SequencesExt, FiniteSetsExt

CONSTANT Capacity      \* of the backward_buffer, 1024 in the code

ASSUME RoomForADigit == Capacity \in Nat \ {0}

digits == <<"0", "1", "2", "3", "4", "5", "6", "7", "8", "9",
            "a", "b", "c", "d", "e", "f">>

Prefix(base) == CASE base = 2 -> "b" [] base = 8 -> "o" [] base = 16 -> "x"

VARIABLES
    pc,         \* the stage of write_format, "walk" outside of it
    arg,        \* the erased_arg being written: its value and its fmt_spec
    magnitude,  \* what is left of its value
    pad_size,   \* zeros, then spaces, still to come
    tmp,        \* the backward_buffer's text
    console,    \* what the console took
    printed     \* the part of it that each argument made

number == <<pc, arg, magnitude, pad_size, tmp>>

fmt == arg.spec

\* The console takes what an argument makes.
Put(text) ==
    /\ console' = console \o text
    /\ printed' = [printed EXCEPT ![Len(printed)] = @ \o text]

-----------------------------------------------------------------------------
\* Seeded fault: the buffer is written from its beginning.
putc_forward(text, c) == IF Len(text) < Capacity THEN Append(text, c) ELSE text

\* backward_buffer::putc: what does not fit is dropped.
putc(text, c) == IF Len(text) < Capacity THEN <<c>> \o text ELSE text

Short(text) == fmt.width > Len(text)

\* The call: a backward_buffer of its own, and the whole value to write.
Enter(a) ==
    /\ arg' = a
    /\ magnitude' = a.value
    /\ pad_size' = 0
    /\ tmp' = <<>>
    /\ pc' = "digits"

\* One digit, from the last one on; the loop ends when nothing is left.
PutDigit ==
    /\ pc = "digits"
    /\ magnitude > 0 \/ tmp = <<>>
    /\ tmp' = putc(tmp, digits[(magnitude % fmt.base) + 1])
    /\ magnitude' = magnitude \div fmt.base
    /\ UNCHANGED <<pc, arg, pad_size, console, printed>>

\* Seeded fault: one slot is left for a prefix of two.
Zeros_oneSlot ==
    IF fmt.zero_pad /\ Short(tmp) THEN fmt.width - Len(tmp) - 1 ELSE 0

\* The zeros that leave two slots, for the base prefix or the sign.
Zeros == IF fmt.zero_pad /\ Short(tmp) THEN fmt.width - Len(tmp) - 2 ELSE 0

EndDigits ==
    /\ pc = "digits"
    /\ magnitude = 0 /\ tmp # <<>>
    /\ pad_size' = Zeros
    /\ pc' = "zeros"
    /\ UNCHANGED <<arg, magnitude, tmp, console, printed>>

PutZero ==
    /\ pc = "zeros"
    /\ pad_size > 0
    /\ tmp' = putc(tmp, "0")
    /\ pad_size' = pad_size - 1
    /\ UNCHANGED <<pc, arg, magnitude, console, printed>>

\* The sign, or a zero in its place.
Signed(text) ==
    CASE arg.neg -> putc(text, "-")
      [] ~arg.neg /\ fmt.show_sign -> putc(text, "+")
      [] OTHER -> IF fmt.zero_pad /\ Short(text) THEN putc(text, "0") ELSE text

PutPrefix ==
    /\ pc = "zeros"
    /\ pad_size <= 0
    /\ fmt.base # 10 /\ fmt.show_base
    /\ tmp' = putc(putc(tmp, Prefix(fmt.base)), "0")
    /\ pc' = "align"
    /\ UNCHANGED <<arg, magnitude, pad_size, console, printed>>

PutSign ==
    /\ pc = "zeros"
    /\ pad_size <= 0
    /\ fmt.base = 10 \/ ~fmt.show_base
    /\ tmp' = Signed(IF fmt.zero_pad /\ Short(tmp) THEN putc(tmp, "0") ELSE tmp)
    /\ pc' = "align"
    /\ UNCHANGED <<arg, magnitude, pad_size, console, printed>>

\* How many spaces there are to put, and where.
Align ==
    /\ pc = "align"
    /\ pad_size' = IF Short(tmp) THEN fmt.width - Len(tmp) ELSE 0
    /\ pc' = IF Short(tmp) THEN fmt.align ELSE "flush"
    /\ UNCHANGED <<arg, magnitude, tmp, console, printed>>

\* alignment::right: before the number, in the buffer
PutSpaceRight ==
    /\ pc = "right"
    /\ pad_size > 0
    /\ tmp' = putc(tmp, " ")
    /\ pad_size' = pad_size - 1
    /\ UNCHANGED <<pc, arg, magnitude, console, printed>>

\* otherwise: to the console, before the number
PutSpaceLeft ==
    /\ pc = "left"
    /\ pad_size > 0
    /\ Put(<<" ">>)
    /\ pad_size' = pad_size - 1
    /\ UNCHANGED <<pc, arg, magnitude, tmp>>

Flush ==
    /\ pc \in {"left", "right", "flush"}
    /\ pad_size = 0
    /\ Put(tmp)
    /\ pc' = "walk"
    /\ UNCHANGED <<arg, magnitude, pad_size, tmp>>

WriteNumber == PutDigit \/ EndDigits \/ PutZero \/ PutPrefix \/ PutSign
               \/ Align \/ PutSpaceRight \/ PutSpaceLeft \/ Flush

-----------------------------------------------------------------------------
Power(base, n) ==
    LET power[k \in 0..n] == IF k = 0 THEN 1 ELSE base * power[k - 1]
    IN power[n]

DigitsOf(n, base) ==
    CHOOSE k \in 1..(n + 1) : /\ n < Power(base, k)
                              /\ k = 1 \/ n >= Power(base, k - 1)

HasPrefix(a) == a.spec.base # 10 /\ a.spec.show_base

\* The characters a value needs: digits, and a prefix or a sign.
Needed(a) ==
    DigitsOf(a.value, a.spec.base)
    + (IF HasPrefix(a) THEN 2 ELSE IF a.neg \/ a.spec.show_sign THEN 1 ELSE 0)

\* What a reader makes of a text: the digits of the base, in order.
Numerals(base) == {digits[k] : k \in 1..base}
DigitValue(c) == (CHOOSE k \in DOMAIN digits : digits[k] = c) - 1
ValueOf(text, base) ==
    LET value[k \in 0..Len(text)] ==
            IF k = 0 THEN 0
            ELSE IF text[k] \notin Numerals(base) THEN value[k - 1]
            ELSE value[k - 1] * base + DigitValue(text[k])
    IN value[Len(text)]

\* A text denotes its argument: its digits, read in its base, give the
\* magnitude, and it has a minus sign exactly if the value is negative.
Denotes(text, a) == /\ ValueOf(text, a.spec.base) = a.value
                    /\ a.neg <=> "-" \in ToSet(text)

\* A text is as long as the width asks, unless the value needs more.
Fills(text, a) == Len(text) = Max({a.spec.width, Needed(a)})
=============================================================================
