------------------------------- MODULE Writef -------------------------------
(***************************************************************************)
(* writer_core::writef (mstd/fmt/io_core.hpp) of the kernel console: the   *)
(* walk over a format string, parse_fmt (fmt_core.hpp) reading what stands *)
(* between braces, and the formatters of the arguments, FormatInteger's for*)
(* integers and pointers.                                                  *)
(*                                                                         *)
(* Lines are put together from pieces, so that it is known what each part  *)
(* of them means: a single character, or a placeholder of the grammar that *)
(* parse_fmt documents.                                                    *)
(***************************************************************************)
EXTENDS FormatInteger

CONSTANT Calls         \* of writef: a sequence of pieces and the arguments

NUL == "NUL"
Open == "{"
Close == "}"
Quote == "'"
Digits == {"0", "1", "2", "3", "4", "5", "6", "7", "8", "9"}
Number(numeral) == ValueOf(numeral, 10)

-----------------------------------------------------------------------------
(* Pieces: [kind |-> "char", c] is one character, [kind |-> "spec", ...] a   *)
(* placeholder whose parts are written as the grammar asks, <<>> for none.   *)

Chars(piece) ==
    IF piece.kind = "char" THEN <<piece.c>>
    ELSE <<Open>> \o piece.sign \o piece.zero \o piece.width
         \o (IF piece.precision = <<>> THEN <<>>
             ELSE <<".">> \o piece.precision)
         \o piece.base \o piece.align \o <<Close>>

Text(line) == FlattenSeq([k \in DOMAIN line |-> Chars(line[k])])

\* What writef is called with is a string.
LinesAreStrings ==
    \A call \in Calls :
        [k \in DOMAIN call.line |-> Chars(call.line[k])] \in Seq(Seq(STRING))

\* Characters, and the grammar of placeholders (fmt_core.hpp:141-148).
Character == [kind : {"char"}, c : STRING \ {NUL}]

Placeholder ==
    [kind : {"spec"}, sign : {<<>>, <<"+">>}, zero : {<<>>, <<"0">>},
     width : {w \in Seq(Digits) : w = <<>> \/ w[1] # "0"},
     precision : Seq(Digits), base : {<<>>, <<"b">>, <<"o">>, <<"h">>},
     align : {<<>>, <<"L">>, <<"R">>}]

\* Lines are written in it.
LinesAreOfPieces == \A call \in Calls : call.line \in Seq(Character \cup Placeholder)

\* fmt_spec and erased_arg.
FmtSpec == [show_sign : BOOLEAN, show_base : BOOLEAN, zero_pad : BOOLEAN,
            width : Nat, precision : Nat, base : {2, 8, 10, 16},
            align : {"left", "right"}]

ErasedArg ==
    [kind : {"number"}, value : Nat, neg : BOOLEAN, spec : FmtSpec]
    \cup [kind : {"string"}, value : Seq(STRING), spec : FmtSpec]

\* The arguments are numbers and strings; pointers alone show their base.
ArgumentsAreValues ==
    \A call \in Calls :
        /\ call.args \in Seq(ErasedArg)
        /\ \A n \in DOMAIN call.args :
              call.args[n].kind = "number" /\ call.args[n].spec.show_base
                => ~call.args[n].neg

VARIABLES
    line,       \* the pieces of the format string
    given,      \* the arguments, with the fmt_specs of their types
    text,       \* the characters of the format string
    args,       \* the erased_args; parse_fmt writes their specs
    iter,       \* the character under the walk, 1 for the first
    i,          \* arguments printed
    done

walk == <<line, given, text, args, iter, i, done>>
vars == <<walk, number, console, printed>>

At(k) == IF k <= Len(text) THEN text[k] ELSE NUL

Init ==
    /\ \E call \in Calls : line = call.line /\ given = call.args
    /\ text = Text(line)
    /\ args = given
    /\ iter = 1
    /\ i = 0
    /\ done = FALSE
    /\ pc = "walk"
    /\ arg = "none"
    /\ magnitude = 0
    /\ pad_size = 0
    /\ tmp = <<>>
    /\ console = <<>>
    /\ printed = <<>>

-----------------------------------------------------------------------------
(* parse_fmt, from the character after the brace *)

\* Where the digits that start at k end.
DigitsEnd(k) == Min({m \in k..(Len(text) + 1) : At(m) \notin Digits})

NumberAt(k) == Number(SubSeq(text, k, DigitsEnd(k) - 1))

\* Seeded fault: the index stays where it is.
Skip_not(k, c) == k

\* One character is read over if it is c.
Skip(k, c) == IF At(k) = c THEN k + 1 ELSE k

parse_fmt(k, spec) ==
    LET zero == Skip(k, "+")
        width == Skip(zero, "0")
        dot == DigitsEnd(width)
        base == IF At(dot) = "." THEN DigitsEnd(dot + 1) ELSE dot
        align == IF At(base) \in {"b", "o", "h"} THEN base + 1 ELSE base
    IN [spec EXCEPT
          !.show_sign = @ \/ At(k) = "+",
          !.zero_pad = @ \/ At(zero) = "0",
          !.width = IF NumberAt(width) # 0 THEN NumberAt(width) ELSE @,
          !.precision = IF At(dot) = "." THEN NumberAt(dot + 1) ELSE @,
          !.base = CASE At(base) = "b" -> 2 [] At(base) = "o" -> 8
                     [] At(base) = "h" -> 16 [] OTHER -> @,
          !.align = CASE At(align) = "L" -> "left" [] At(align) = "R" -> "right"
                      [] OTHER -> @]

-----------------------------------------------------------------------------
(* writef_dispatch *)

Walking == pc = "walk" /\ ~done

\* The closing braces after the walk's place.
Closing == {m \in (iter + 1)..Len(text) : At(m) = Close}

\* The character after the placeholder.
fmt_end == Min(Closing) + 1

\* A character goes to the console from the walk itself.
Pass(chars) ==
    /\ console' = console \o chars
    /\ UNCHANGED <<line, given, text, args, number, printed>>

\* A placeholder with an argument left: its format is parsed.
ParseArg ==
    /\ Walking
    /\ At(iter) = Open /\ Closing # {}
    /\ i < Len(args)
    /\ args' = [args EXCEPT ![i + 1].spec = parse_fmt(iter + 1, @)]
    /\ i' = i + 1
    /\ iter' = fmt_end
    /\ UNCHANGED <<line, given, text, done>>

\* The formatter of numbers is called.
PrintNumber ==
    /\ ParseArg
    /\ args[i + 1].kind = "number"
    /\ printed' = Append(printed, <<>>)
    /\ Enter(args'[i + 1])
    /\ UNCHANGED console

\* write_format_str: the characters up to the precision.  The string is not
\* null: string.hpp:16-17 goes on to read through a null pointer.
Shown(a) == SubSeq(a.value, 1, Min({a.spec.precision, Len(a.value)}))

PrintString ==
    /\ ParseArg
    /\ args[i + 1].kind = "string"
    /\ printed' = Append(printed, Shown(args'[i + 1]))
    /\ console' = console \o Shown(args'[i + 1])
    /\ UNCHANGED number

\* A placeholder too many: "{?}"
PrintUnknown ==
    /\ Walking
    /\ At(iter) = Open /\ Closing # {}
    /\ i >= Len(args)
    /\ Pass(<<Open, "?", Close>>)
    /\ iter' = fmt_end
    /\ UNCHANGED <<i, done>>

\* Seeded fault: the walk goes on at a brace that is not closed.
StopAtOpen_goesOn ==
    /\ Walking
    /\ At(iter) = Open /\ Closing = {}
    /\ UNCHANGED vars

\* A brace that is not closed ends the walk.
StopAtOpen ==
    /\ Walking
    /\ At(iter) = Open /\ Closing = {}
    /\ done' = TRUE
    /\ UNCHANGED <<line, given, text, args, iter, i, number, console, printed>>

\* Seeded fault: the character after a quote is not looked at.
AtEscape_anything == At(iter) = Quote

AtEscape == At(iter) = Quote /\ At(iter + 1) = Open

\* A quote before a brace: the quote is printed, the brace passed over.
Escape ==
    /\ Walking
    /\ AtEscape
    /\ Pass(<<At(iter)>>)
    /\ iter' = iter + 2
    /\ UNCHANGED <<i, done>>

PrintChar ==
    /\ Walking
    /\ At(iter) \notin {NUL, Open} /\ ~AtEscape
    /\ Pass(<<At(iter)>>)
    /\ iter' = iter + 1
    /\ UNCHANGED <<i, done>>

Finish ==
    /\ Walking
    /\ At(iter) = NUL
    /\ done' = TRUE
    /\ UNCHANGED <<line, given, text, args, iter, i, number, console, printed>>

Write == WriteNumber /\ UNCHANGED walk

Next == \/ PrintNumber \/ PrintString \/ PrintUnknown \/ StopAtOpen \/ Escape
        \/ PrintChar \/ Finish \/ Write

Spec == Init /\ [][Next]_vars /\ WF_vars(Next)

-----------------------------------------------------------------------------
\* Nothing is read past the end of the format string, whatever follows a quote
\* or a brace (io_core.hpp:50-79), and nothing is put before the beginning of
\* the backward_buffer, whatever the width (buffer.hpp:9-16).
InsideArrays == iter <= Len(text) + 1 /\ Len(tmp) <= Capacity

-----------------------------------------------------------------------------
(* What a line means, piece by piece *)

Or(part, meaning, otherwise) == IF part = <<>> THEN otherwise ELSE meaning

\* The grammar of fmt_core.hpp:141-148.
Meaning(piece, spec) ==
    [spec EXCEPT
        !.show_sign = Or(piece.sign, TRUE, @),
        !.zero_pad = Or(piece.zero, TRUE, @),
        !.width = Or(piece.width, Number(piece.width), @),
        !.precision = Or(piece.precision, Number(piece.precision), @),
        !.base = Or(piece.base, CASE piece.base = <<"b">> -> 2
                                  [] piece.base = <<"o">> -> 8
                                  [] piece.base = <<"h">> -> 16, @),
        !.align = Or(piece.align,
                     IF piece.align = <<"L">> THEN "left" ELSE "right", @)]

IsSpec(k) == line[k].kind = "spec"

\* No brace stands alone, and no quote before a placeholder.
WellFormed ==
    \A k \in DOMAIN line :
        ~IsSpec(k) =>
            /\ line[k].c # Open
            /\ line[k].c = Quote /\ k < Len(line) => ~IsSpec(k + 1)

\* The number of the argument the k-th piece asks for.
Turn(k) == Cardinality({m \in 1..k : IsSpec(m)})

Expected(k) ==
    CASE ~IsSpec(k) -> <<line[k].c>>
      [] IsSpec(k) /\ Turn(k) <= Len(given) -> printed[Turn(k)]
      [] OTHER -> <<Open, "?", Close>>

\* A line of plain characters and placeholders of the grammar is printed piece
\* by piece: every character as it is, every placeholder as the next argument,
\* in the format its grammar gives to the format the argument came with
\* (fmt_core.hpp:140-195, io_core.hpp:45-82).
PrintsTheLine ==
    done /\ WellFormed =>
        /\ console = FlattenSeq([k \in DOMAIN line |-> Expected(k)])
        /\ \A k \in DOMAIN line :
              IsSpec(k) /\ Turn(k) <= Len(given) =>
                args[Turn(k)].spec = Meaning(line[k], given[Turn(k)].spec)

\* The numbers printed whole: nothing was cut off by the buffer.
Whole ==
    {n \in DOMAIN printed :
        /\ n < Len(printed) \/ pc = "walk"
        /\ args[n].kind = "number"
        /\ Max({args[n].spec.width, Needed(args[n])}) < Capacity}

\* Every number that fits the buffer denotes the value that was printed, in
\* whatever format (integer.hpp:71-107); and one without a sign fills its width
\* exactly, unless the value needs more, so that addresses printed under each
\* other line up (integer.hpp:82-125).
NumbersReadBack ==
  \A n \in Whole :
    /\ Denotes(printed[n], args[n])
    /\ ~args[n].neg /\ ~args[n].spec.show_sign => Fills(printed[n], args[n])
=============================================================================
