------------------------------ MODULE Console ------------------------------
(***************************************************************************)
(* The two ways the kernel writes to the UART, printk and console.writef:  *)
(* a call of the one, then a call of the other (kernel_boot.cpp:135, 155). *)
(***************************************************************************)
EXTENDS Writef

CONSTANTS Formats, Ints, Unsigneds    \* as in Printk

VARIABLES format, va_args, str, uart, d, buffer, swapped, stage

printk == <<format, va_args, str, uart, d, buffer, swapped, stage>>

P == INSTANCE Printk

ConsoleInit == P!Init /\ Init

ConsoleNext ==
    \/ P!Next /\ UNCHANGED vars
    \/ P!Returned /\ Next /\ UNCHANGED printk

\* A call runs until it returns: the UART takes every character.
ConsoleSpec == ConsoleInit /\ [][ConsoleNext]_<<vars, printk>>
                           /\ WF_<<vars, printk>>(ConsoleNext)

\* printk's array of digits holds every int it is called with.
BufferHolds == P!BufferHolds

\* printk prints every character outside directives as it is and for every
\* directive its argument, numbers with their digits in the right order
\* (printk.cpp:9-103).
PrintsTheFormat == P!PrintsTheFormat

\* Both calls return: printk at every format, writef also at a brace that
\* nothing closes (printk.cpp:9-103, io_core.hpp:50-81, integer.hpp:75-124).
ConsoleEnds == <>(P!Returned /\ done)
=============================================================================
