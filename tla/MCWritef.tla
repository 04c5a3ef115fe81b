------------------------------ MODULE MCWritef ------------------------------
(***************************************************************************)
(* Calls of writef: lines of up to three pieces with a few arguments, and  *)
(* every placeholder of the grammar with every argument.  The buffer holds *)
(* twelve characters and a pointer's default width is six, so that a width *)
(* of sixteen is too much for the buffer, as 1025 would be in the code.    *)
(***************************************************************************)
EXTENDS Writef

Char(c) == [kind |-> "char", c |-> c]

Placeholders(signs, zeros, widths, precisions, bases, aligns) ==
    [kind : {"spec"}, sign : signs, zero : zeros, width : widths,
     precision : precisions, base : bases, align : aligns]

EveryPlaceholder ==
    Placeholders({<<>>, <<"+">>}, {<<>>, <<"0">>},
                 {<<>>, <<"2">>, <<"3">>, <<"5">>, <<"1", "0">>},
                 {<<>>, <<"0">>, <<"3">>},
                 {<<>>, <<"b">>, <<"o">>, <<"h">>}, {<<>>, <<"L">>, <<"R">>})

SomePlaceholders ==
    Placeholders({<<>>}, {<<>>, <<"0">>}, {<<>>, <<"1", "6">>}, {<<>>},
                 {<<"h">>}, {<<>>})

Pieces == {Char(c) : c \in {"x", "{", "}", "'", "0"}} \cup SomePlaceholders

ShortLines == UNION {[1..n -> Pieces] : n \in 0..3}

LoneSpecs == {<<p>> : p \in EveryPlaceholder}
             \cup {<<Char("0"), p, Char("5")>> : p \in EveryPlaceholder}

\* default_fmt of integers and of pointers; 99 is the largest size_t.
Integer == [show_sign |-> FALSE, show_base |-> FALSE, zero_pad |-> FALSE,
            width |-> 0, precision |-> 99, base |-> 10, align |-> "left"]
Pointer == [Integer EXCEPT !.show_base = TRUE, !.zero_pad = TRUE,
                           !.width = 6, !.base = 16]

Number32(n, s) == [kind |-> "number", value |-> n, neg |-> s, spec |-> Integer]
Address(n) == [kind |-> "number", value |-> n, neg |-> FALSE, spec |-> Pointer]
String(s) == [kind |-> "string", value |-> s, spec |-> Pointer]

Name == String(<<"g", "i", "c">>)

EveryArg == {Number32(n, FALSE) : n \in {0, 5, 10, 27}}
            \cup {Number32(n, TRUE) : n \in {5, 27}}
            \cup {Address(n) : n \in {0, 27}}
            \cup {String(s) : s \in {<<>>, Name.value}}

MCCalls ==
    [line : ShortLines, args : {<<>>, <<Name>>, <<Address(27), Number32(5, TRUE)>>}]
    \cup [line : LoneSpecs, args : {<<a>> : a \in EveryArg}]

ASSUME MCLinesAreStrings == LinesAreStrings
ASSUME MCLinesAreOfPieces == LinesAreOfPieces
ASSUME MCArgumentsAreValues == ArgumentsAreValues
=============================================================================
