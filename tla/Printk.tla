------------------------------- MODULE Printk -------------------------------
(***************************************************************************)
(* printk (kernel/printk.cpp): a walk over the format string, and in it for*)
(* a number the loops that collect its digits in an array on the stack,    *)
(* reverse them and end them with a NUL.                                   *)
(*                                                                         *)
(* A number is the sequence of its decimal digits, <<>> for zero: d % 10 is*)
(* its last and d / 10 the others, so that values keep their 64 bits.  The *)
(* remainders of a negative int are negative and negated one by one.       *)
(* An argument of %d is the int that va_arg reads: kernel_boot.cpp:80 and  *)
(* :90 pass 64-bit values, of which it reads the lower half.  No format    *)
(* ends with a '%' that begins a directive.  The UART takes every          *)
(* character.                                                              *)
(* The count printk returns, which no caller reads, is left out.  A write  *)
(* past the array ends the model: what follows is not defined.             *)
(***************************************************************************)
EXTENDS Integers, Sequences, SequencesExt

CONSTANTS Formats,      \* format strings, sequences of characters
          Ints,         \* what %d reads as an int: [neg, decimal]
          Unsigneds     \* arguments of %u: [neg |-> FALSE, decimal]

\* The places where a directive begins.
Begins(format) ==
    LET begins[k \in DOMAIN format] ==
            format[k] = "%" /\ (k = 1 \/ ~begins[k - 1])
    IN {k \in DOMAIN format : begins[k]}

\* What printk is called with: strings whose last directive is complete, and
\* numbers, of which an int has no more than ten digits.
ArgumentsFit ==
    /\ \A s \in Formats :
         /\ s \in Seq(STRING) /\ \A k \in DOMAIN s : s[k] # "NUL"
         /\ Len(s) \notin Begins(s)
    /\ Ints \cup Unsigneds \subseteq [neg : BOOLEAN, decimal : Seq(STRING)]
    /\ \A n \in Ints : Len(n.decimal) <= 10

\* Seeded fault: no room for the NUL behind ten digits.
BufferSize_tight == 10

\* char buffer[12]
BufferSize == 12

VARIABLES
    format, va_args,    \* what printk is called with
    str,                \* the character under the walk, 1 for the first
    uart,               \* what the UART was given
    d,                  \* what is printed and, in .decimal, what is left of it
    buffer,             \* what the array holds, from its start
    swapped,            \* turns the reversing loop has made
    stage

vars == <<format, va_args, str, uart, d, buffer, swapped, stage>>
input == <<format, va_args>>

Init ==
    /\ format \in Formats
    /\ va_args \in [d : Ints, u : Unsigneds]
    /\ str = 1
    /\ uart = <<>>
    /\ d = [neg |-> FALSE, decimal |-> <<>>]
    /\ buffer = <<>>
    /\ swapped = 0
    /\ stage = "walk"

At(k) == IF k <= Len(format) THEN format[k] ELSE "NUL"

\* What %s, %c and %p print, and an unknown directive.
Conversion(c) ==
    CASE c = "s" -> <<"string">> [] c = "c" -> <<"character">>
      [] c = "p" -> <<"pointer">> [] c = "%" -> <<"%">>
      [] OTHER -> <<"%", c>>

Numbers == {"d", "u"}

-----------------------------------------------------------------------------
PrintChar ==
    /\ stage = "walk"
    /\ At(str) \notin {"%", "NUL"}
    /\ uart' = Append(uart, At(str))
    /\ str' = str + 1
    /\ UNCHANGED <<input, d, buffer, swapped, stage>>

\* Seeded fault: the second '%' of "%%" is left to the walk.
AfterDirective_again(c) == IF c = "%" THEN str + 1 ELSE str + 2

\* The walk goes on behind the directive's letter.
AfterDirective(c) == str + 2

PrintOther ==
    /\ stage = "walk"
    /\ At(str) = "%" /\ At(str + 1) \notin Numbers
    /\ uart' = uart \o Conversion(At(str + 1))
    /\ str' = AfterDirective(At(str + 1))
    /\ UNCHANGED <<input, d, buffer, swapped, stage>>

StartNumber ==
    /\ stage = "walk"
    /\ At(str) = "%" /\ At(str + 1) \in Numbers
    /\ d' = va_args[At(str + 1)]
    /\ buffer' = <<>>
    /\ stage' = "digits"
    /\ UNCHANGED <<input, str, uart, swapped>>

\* A character is written behind those the array holds.
Store(c, then) ==
    /\ buffer' = Append(buffer, c)
    /\ stage' = IF Len(buffer) < BufferSize THEN then ELSE "corrupted"

\* d / 10
Rest(decimal) == Front(decimal)

PutDigit ==
    /\ stage = "digits"
    /\ d.decimal # <<>>
    /\ Store(Last(d.decimal), "digits")
    /\ d' = [d EXCEPT !.decimal = Rest(@)]
    /\ UNCHANGED <<input, str, uart, swapped>>

\* ndigits == 0: the number is zero.
PutZero ==
    /\ stage = "digits"
    /\ d.decimal = <<>> /\ buffer = <<>>
    /\ Store("0", "digits")
    /\ UNCHANGED <<input, str, uart, d, swapped>>

StartReverse ==
    /\ stage = "digits"
    /\ d.decimal = <<>> /\ buffer # <<>>
    /\ swapped' = 0
    /\ stage' = "reverse"
    /\ UNCHANGED <<input, str, uart, d, buffer>>

\* Seeded fault: the loop makes a turn for every digit.
Turns_all == Len(buffer)

\* The turns of the reversing loop.
Turns == Len(buffer) \div 2

\* Seeded fault: the loop's counter stays.
Swap_endless ==
    /\ stage = "reverse"
    /\ swapped < Turns
    /\ LET i == swapped + 1
           j == Len(buffer) - swapped
       IN buffer' = [buffer EXCEPT ![i] = buffer[j], ![j] = buffer[i]]
    /\ UNCHANGED <<input, str, uart, d, swapped, stage>>

\* buffer[i] and buffer[ndigits - i - 1] change places.
Swap ==
    /\ stage = "reverse"
    /\ swapped < Turns
    /\ LET i == swapped + 1
           j == Len(buffer) - swapped
       IN buffer' = [buffer EXCEPT ![i] = buffer[j], ![j] = buffer[i]]
    /\ swapped' = swapped + 1
    /\ UNCHANGED <<input, str, uart, d, stage>>

\* buffer[ndigits] = '\0'
Terminate ==
    /\ stage = "reverse"
    /\ swapped = Turns
    /\ Store("NUL", "print")
    /\ UNCHANGED <<input, str, uart, d, swapped>>

\* The sign, then uart_puts up to the NUL.
PrintNumber ==
    /\ stage = "print"
    /\ uart' = uart \o (IF d.neg THEN <<"-">> ELSE <<>>) \o Front(buffer)
    /\ str' = AfterDirective(At(str + 1))
    /\ stage' = "walk"
    /\ UNCHANGED <<input, d, buffer, swapped>>

Return ==
    /\ stage = "walk"
    /\ At(str) = "NUL"
    /\ stage' = "returned"
    /\ UNCHANGED <<input, str, uart, d, buffer, swapped>>

Next == \/ PrintChar \/ PrintOther \/ StartNumber \/ PutDigit \/ PutZero
        \/ StartReverse \/ Swap \/ Terminate \/ PrintNumber \/ Return

Spec == Init /\ [][Next]_vars /\ WF_vars(Next)

-----------------------------------------------------------------------------
\* An int always fits the array its digits are collected in; what does not is
\* an unsigned number of more than eleven digits, for which %u has an array of
\* the same length (printk.cpp:27, :53: "Enough to hold -2147483648 and null
\* terminator").
BufferHolds ==
    stage = "corrupted" => At(str + 1) = "u" /\ Len(va_args.u.decimal) > 11

\* What a number looks like.
Numeral(n) == (IF n.neg THEN <<"-">> ELSE <<>>)
              \o (IF n.decimal = <<>> THEN <<"0">> ELSE n.decimal)

\* printk prints every character outside directives as it is and for every
\* directive its argument, numbers with their digits in the right order.
PrintsTheFormat ==
    stage = "returned" =>
        uart = FlattenSeq([k \in DOMAIN format |->
                  IF k \in Begins(format) THEN <<>>
                  ELSE IF k - 1 \notin Begins(format) THEN <<format[k]>>
                  ELSE IF format[k] \in Numbers THEN Numeral(va_args[format[k]])
                  ELSE Conversion(format[k])])

\* printk returns.
Returned == stage \in {"returned", "corrupted"}
=============================================================================
