----------------------------- MODULE MCConsole -----------------------------
(***************************************************************************)
(* The calls TLC tries: one of the two is the empty string, so that every  *)
(* call of each is tried and no pair.  printk gets every format of up to   *)
(* four characters whose last directive is complete, with the shortest and *)
(* the longest numbers.                                                    *)
(***************************************************************************)
EXTENDS Console, MCWritef

Alphabet == {"%", "d", "u", "s", "x"}

\* 0, 7, -30, 2147483647 and -2147483648
MCInts ==
    LET int(s, numeral) == [neg |-> s, decimal |-> numeral]
    IN {int(FALSE, <<>>), int(FALSE, <<"7">>), int(TRUE, <<"3", "0">>),
        int(FALSE, <<"2", "1", "4", "7", "4", "8", "3", "6", "4", "7">>),
        int(TRUE, <<"2", "1", "4", "7", "4", "8", "3", "6", "4", "8">>)}

\* 0, 129, and numbers 123... of eleven digits, which still fit the array, and
\* of twenty, the longest there are.
MCUnsigneds ==
    LET digit == <<"1", "2", "3", "4", "5", "6", "7", "8", "9", "0">>
        numeral(n) == [k \in 1..n |-> digit[((k - 1) % 10) + 1]]
    IN {[neg |-> FALSE, decimal |-> w] :
            w \in {<<>>, <<"1", "2", "9">>, numeral(11), numeral(20)}}

Zero == [neg |-> FALSE, decimal |-> <<>>]
NoPrintk == INSTANCE Printk WITH Ints <- {Zero}, Unsigneds <- {Zero},
                                 Formats <- {<<>>}
NoWritef == INSTANCE Writef WITH Calls <- {[line |-> <<>>, args |-> <<>>]}

Strings == UNION {[1..n -> Alphabet] : n \in 0..4}

\* Formats whose last directive is complete.
MCFormats == {s \in Strings : Len(s) \notin NoPrintk!Begins(s)}

ASSUME MCArgumentsFit == P!ArgumentsFit

MCInit == \/ NoPrintk!Init /\ Init
          \/ P!Init /\ NoWritef!Init

MCSpec == MCInit /\ [][ConsoleNext]_<<vars, printk>>
                 /\ WF_<<vars, printk>>(ConsoleNext)
=============================================================================
